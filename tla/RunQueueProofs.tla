--------------------------- MODULE RunQueueProofs ---------------------------
(***************************************************************************)
(* Proofs about the run-queue for every number of nodes, client threads,   *)
(* jobs and resets.                                                        *)
(***************************************************************************)
EXTENDS RunQueue, SequenceTheorems, FiniteSetTheorems, TLAPS

(* Lists of the C code as sequences: their length, the nodes on them, and that
   no node is linked twice. *)

\* The nodes on a list, and what it means that none is on it twice.
LEMMA ListFacts ==
  ASSUME NEW S, NEW s \in Seq(S)
  PROVE  /\ Len(s) \in Nat
         /\ \A k \in 1..Len(s) : s[k] \in S /\ s[k] \in ToSet(s)
         /\ \A x \in ToSet(s) : x \in S /\ \E k \in 1..Len(s) : s[k] = x
         /\ s = <<>> <=> Len(s) = 0
         /\ s = <<>> <=> ToSet(s) = {}
         /\ IsInjective(s) <=> \A k, l \in 1..Len(s) : s[k] = s[l] => k = l
<1>1. Len(s) \in Nat /\ DOMAIN s = 1..Len(s)
  BY LenProperties
<1>2. \A k \in 1..Len(s) : s[k] \in S /\ s[k] \in ToSet(s)
  BY <1>1, ElementOfSeq DEF ToSet
<1>3. \A x \in ToSet(s) : x \in S /\ \E k \in 1..Len(s) : s[k] = x
  BY <1>1, <1>2 DEF ToSet
<1>4. s = <<>> <=> Len(s) = 0
  BY EmptySeq
<1>5. s = <<>> <=> ToSet(s) = {}
  <2>1. ASSUME Len(s) # 0 PROVE ToSet(s) # {}
    <3>1. 1 \in 1..Len(s)
      BY <1>1, <2>1
    <3>. QED BY <1>2, <3>1
  <2>2. ASSUME Len(s) = 0 PROVE ToSet(s) = {}
    <3>1. 1..Len(s) = {}
      BY <2>2
    <3>. QED BY <1>3, <3>1
  <2>. QED BY <1>4, <2>1, <2>2
<1>6. IsInjective(s) <=> \A k, l \in 1..Len(s) : s[k] = s[l] => k = l
  BY <1>1 DEF IsInjective
<1>. QED BY <1>1, <1>2, <1>3, <1>4, <1>5, <1>6

\* list_add_tail: a node that is not on the list is on it once.
LEMMA AppendNode ==
  ASSUME NEW S, NEW s \in Seq(S), NEW x \in S
  PROVE  /\ Append(s, x) \in Seq(S) /\ Len(Append(s, x)) = Len(s) + 1
         /\ \A k \in 1..Len(s) : Append(s, x)[k] = s[k]
         /\ Append(s, x)[Len(s) + 1] = x
         /\ ToSet(Append(s, x)) = ToSet(s) \cup {x}
         /\ IsInjective(s) /\ x \notin ToSet(s) => IsInjective(Append(s, x))
<1> DEFINE r == Append(s, x)
<1>1. /\ r \in Seq(S) /\ Len(r) = Len(s) + 1 /\ r[Len(s) + 1] = x
      /\ \A k \in 1..Len(s) : r[k] = s[k]
  BY AppendProperties
<1> HIDE DEF r
<1>2. Len(s) \in Nat
  BY LenProperties
<1>3. ToSet(r) = ToSet(s) \cup {x}
  <2>1. ASSUME NEW y \in ToSet(r) PROVE y \in ToSet(s) \cup {x}
    <3>1. PICK k \in 1..Len(r) : r[k] = y
      BY <1>1, ListFacts
    <3>2. k \in 1..Len(s) \/ k = Len(s) + 1
      BY <1>1, <1>2
    <3>. QED BY <1>1, <3>1, <3>2, ListFacts
  <2>2. ASSUME NEW y \in ToSet(s) PROVE y \in ToSet(r)
    <3>1. PICK k \in 1..Len(s) : s[k] = y
      BY ListFacts
    <3>2. k \in 1..Len(r) /\ r[k] = y
      BY <1>1, <1>2, <3>1
    <3>. QED BY <1>1, <3>2, ListFacts
  <2>3. x \in ToSet(r)
    <3>1. Len(s) + 1 \in 1..Len(r)
      BY <1>1, <1>2
    <3>. QED BY <1>1, <3>1, ListFacts
  <2>. QED BY <2>1, <2>2, <2>3
<1>4. ASSUME IsInjective(s), x \notin ToSet(s) PROVE IsInjective(r)
  <2>1. ASSUME NEW k \in 1..Len(r), NEW l \in 1..Len(r), r[k] = r[l] PROVE k = l
    <3>1. /\ k \in 1..Len(s) \/ k = Len(s) + 1
          /\ l \in 1..Len(s) \/ l = Len(s) + 1
      BY <1>1, <1>2
    <3>2. \A m \in 1..Len(s) : s[m] # x
      BY <1>4, ListFacts
    <3>3. \A m, n \in 1..Len(s) : s[m] = s[n] => m = n
      BY <1>4, ListFacts
    <3>. QED BY <1>1, <2>1, <3>1, <3>2, <3>3
  <2>. QED BY <1>1, <2>1, ListFacts
<1>. QED BY <1>1, <1>3, <1>4 DEF r

\* list_del of the first node.
LEMMA RemoveFirstNode ==
  ASSUME NEW S, NEW s \in Seq(S), IsInjective(s), s # <<>>
  PROVE  /\ Tail(s) \in Seq(S) /\ IsInjective(Tail(s))
         /\ Len(Tail(s)) = Len(s) - 1 /\ 1 \in 1..Len(s) /\ Head(s) = s[1]
         /\ \A k \in 1..(Len(s) - 1) : Tail(s)[k] = s[k + 1]
         /\ ToSet(Tail(s)) = ToSet(s) \ {Head(s)} /\ Head(s) \in ToSet(s)
<1> DEFINE r == Tail(s)
<1>1. /\ Len(s) \in Nat /\ 1 \in 1..Len(s) /\ s[1] \in ToSet(s)
      /\ \A k, l \in 1..Len(s) : s[k] = s[l] => k = l
  BY ListFacts
<1>2. /\ r \in Seq(S) /\ Len(r) = Len(s) - 1
      /\ \A k \in 1..(Len(s) - 1) : r[k] = s[k + 1]
  BY HeadTailProperties
<1>3. Head(s) = s[1]
  OBVIOUS
<1> HIDE DEF r
<1>4. IsInjective(r)
  <2>1. ASSUME NEW k \in 1..Len(r), NEW l \in 1..Len(r), r[k] = r[l] PROVE k = l
    <3>1. k + 1 \in 1..Len(s) /\ l + 1 \in 1..Len(s)
      BY <1>1, <1>2
    <3>2. k + 1 = l + 1
      BY <1>1, <1>2, <2>1, <3>1
    <3>. QED BY <3>2
  <2>. QED BY <1>2, <2>1, ListFacts
<1>5. ASSUME NEW x \in ToSet(r) PROVE x \in ToSet(s) \ {s[1]}
  <2>1. PICK k \in 1..Len(r) : r[k] = x
    BY <1>2, ListFacts
  <2>2. k + 1 \in 1..Len(s) /\ s[k + 1] = x /\ k + 1 # 1
    BY <1>1, <1>2, <2>1
  <2>. QED BY <1>1, <2>2, ListFacts
<1>6. ASSUME NEW x \in ToSet(s) \ {s[1]} PROVE x \in ToSet(r)
  <2>1. PICK k \in 1..Len(s) : s[k] = x
    BY ListFacts
  <2>2. k - 1 \in 1..Len(r) /\ r[k - 1] = x
    BY <1>1, <1>2, <2>1
  <2>. QED BY <1>2, <2>2, ListFacts
<1>7. ToSet(r) = ToSet(s) \ {s[1]}
  BY <1>5, <1>6
<1>8. ToSet(r) = ToSet(s) \ {Head(s)} /\ Head(s) \in ToSet(s)
  BY <1>1, <1>3, <1>7, Zenon
<1>. QED BY <1>1, <1>2, <1>3, <1>4, <1>8, Zenon DEF r

\* list_splice: the nodes of both lists, once each.
LEMMA SpliceLists ==
  ASSUME NEW S, NEW s \in Seq(S), NEW r \in Seq(S)
  PROVE  /\ s \o r \in Seq(S) /\ Len(s \o r) = Len(s) + Len(r)
         /\ ToSet(s \o r) = ToSet(s) \cup ToSet(r)
         /\ IsInjective(s) /\ IsInjective(r) /\ ToSet(s) \cap ToSet(r) = {} => IsInjective(s \o r)
<1> DEFINE q == s \o r
<1>1. /\ q \in Seq(S) /\ Len(q) = Len(s) + Len(r)
      /\ \A k \in 1..Len(s) + Len(r) : q[k] = IF k <= Len(s) THEN s[k] ELSE r[k - Len(s)]
  BY ConcatProperties
<1> HIDE DEF q
<1>2. Len(s) \in Nat /\ Len(r) \in Nat
  BY LenProperties
<1>3. ASSUME NEW k \in 1..Len(q)
      PROVE  \/ k \in 1..Len(s) /\ q[k] = s[k]
             \/ k - Len(s) \in 1..Len(r) /\ q[k] = r[k - Len(s)]
  BY <1>1, <1>2
<1>4. ToSet(q) = ToSet(s) \cup ToSet(r)
  <2>1. ASSUME NEW x \in ToSet(q) PROVE x \in ToSet(s) \cup ToSet(r)
    <3>1. PICK k \in 1..Len(q) : q[k] = x
      BY <1>1, ListFacts
    <3>2. CASE k \in 1..Len(s) /\ q[k] = s[k]
      BY <3>1, <3>2, ListFacts
    <3>3. CASE k - Len(s) \in 1..Len(r) /\ q[k] = r[k - Len(s)]
      BY <3>1, <3>3, ListFacts
    <3>. QED BY <1>3, <3>2, <3>3
  <2>2. ASSUME NEW x \in ToSet(s) PROVE x \in ToSet(q)
    <3>1. PICK k \in 1..Len(s) : s[k] = x
      BY ListFacts
    <3>2. k \in 1..Len(q) /\ q[k] = x
      BY <1>1, <1>2, <3>1
    <3>. QED BY <1>1, <3>2, ListFacts
  <2>3. ASSUME NEW x \in ToSet(r) PROVE x \in ToSet(q)
    <3>1. PICK k \in 1..Len(r) : r[k] = x
      BY ListFacts
    <3> DEFINE j == k + Len(s)
    <3>2. j \in 1..(Len(s) + Len(r)) /\ ~(j <= Len(s)) /\ j - Len(s) = k
      BY <1>2, <3>1
    <3> HIDE DEF j
    <3>3. j \in 1..Len(q) /\ q[j] = x
      BY <1>1, <3>1, <3>2
    <3>. QED BY <1>1, <3>3, ListFacts
  <2>. QED BY <2>1, <2>2, <2>3
<1>5. ASSUME IsInjective(s), IsInjective(r), ToSet(s) \cap ToSet(r) = {} PROVE IsInjective(q)
  <2>1. \A k, l \in 1..Len(s) : s[k] = s[l] => k = l
    BY <1>5, ListFacts
  <2>2. \A k, l \in 1..Len(r) : r[k] = r[l] => k = l
    BY <1>5, ListFacts
  <2>3. \A k \in 1..Len(s), l \in 1..Len(r) : s[k] # r[l]
    <3>1. (\A k \in 1..Len(s) : s[k] \in ToSet(s)) /\ (\A l \in 1..Len(r) : r[l] \in ToSet(r))
      BY ListFacts
    <3>. QED BY <1>5, <3>1
  <2>4. ASSUME NEW k \in 1..Len(q), NEW l \in 1..Len(q), q[k] = q[l] PROVE k = l
    <3>1. /\ \/ k \in 1..Len(s) /\ q[k] = s[k]
             \/ k - Len(s) \in 1..Len(r) /\ q[k] = r[k - Len(s)]
          /\ \/ l \in 1..Len(s) /\ q[l] = s[l]
             \/ l - Len(s) \in 1..Len(r) /\ q[l] = r[l - Len(s)]
      BY <1>3
    <3>2. CASE k - Len(s) \in 1..Len(r) /\ l - Len(s) \in 1..Len(r)
      <4>1. k \notin 1..Len(s) /\ l \notin 1..Len(s)
        BY <1>2, <3>2
      <4>2. k - Len(s) = l - Len(s)
        BY <2>2, <2>4, <3>1, <3>2, <4>1
      <4>. QED BY <1>1, <1>2, <4>2
    <3>. QED BY <2>1, <2>3, <2>4, <3>1, <3>2
  <2>. QED BY <1>1, <2>4, ListFacts
<1>. QED BY <1>1, <1>4, <1>5 DEF q

\* list_add: a node that is not on the list is on it once.
LEMMA PrependNode ==
  ASSUME NEW S, NEW s \in Seq(S), NEW x \in S
  PROVE  /\ <<x>> \o s \in Seq(S) /\ Len(<<x>> \o s) = Len(s) + 1
         /\ ToSet(<<x>> \o s) = ToSet(s) \cup {x}
         /\ IsInjective(s) /\ x \notin ToSet(s) => IsInjective(<<x>> \o s)
<1>1. <<x>> \in Seq(S) /\ Len(<<x>>) = 1 /\ Len(s) \in Nat
  BY LenProperties
<1>2. ToSet(<<x>>) = {x} /\ IsInjective(<<x>>)
  <2>1. \A k \in 1..Len(<<x>>) : k = 1 /\ <<x>>[k] = x
    BY <1>1
  <2>2. 1 \in 1..Len(<<x>>)
    BY <1>1
  <2> DEFINE q == <<x>>
  <2>3. q \in Seq(S) /\ 1 \in 1..Len(q) /\ \A k \in 1..Len(q) : k = 1 /\ q[k] = x
    BY <1>1, <2>1, <2>2
  <2> HIDE DEF q
  <2>4. ToSet(q) = {x}
    BY <2>3, ListFacts
  <2>5. IsInjective(q)
    BY <2>3, ListFacts
  <2>. QED BY <2>4, <2>5 DEF q
<1>3. x \notin ToSet(s) => ToSet(<<x>>) \cap ToSet(s) = {}
  BY <1>2
<1>4. /\ <<x>> \o s \in Seq(S) /\ Len(<<x>> \o s) = Len(<<x>>) + Len(s)
      /\ ToSet(<<x>> \o s) = ToSet(<<x>>) \cup ToSet(s)
      /\ IsInjective(<<x>>) /\ IsInjective(s) /\ ToSet(<<x>>) \cap ToSet(s) = {}
           => IsInjective(<<x>> \o s)
  BY <1>1, SpliceLists
<1>. QED BY <1>1, <1>2, <1>3, <1>4

\* What list_del leaves of a list is a list of the same nodes.
LEMMA ListDelFirstType ==
  ASSUME NEW q \in Seq(Nodes), NEW n, n = Nil \/ n \in ToSet(q)
  PROVE  ListDelFirst(q, n) \in Seq(Nodes)
<1>1. CASE n = Nil
  BY <1>1 DEF ListDelFirst
<1>2. CASE n # Nil
  <2> DEFINE i == CHOOSE k \in 1..Len(q) : q[k] = n
  <2>1. i \in 1..Len(q)
    BY <1>2 DEF ToSet
  <2>2. \A k \in i..Len(q) : q[k] \in Nodes
    BY <2>1
  <2>3. SubSeq(q, i, Len(q)) \in Seq(Nodes)
    <3> HIDE DEF i
    <3>. QED BY <2>1, <2>2, SubSeqProperties
  <2>. QED BY <1>2, <2>3 DEF ListDelFirst, From
<1>. QED BY <1>1, <1>2

\* list_add and list_add_tail give a non-empty list of nodes.
LEMMA ListAddType ==
  ASSUME NEW q \in Seq(Nodes), NEW n \in Nodes, NEW p \in BOOLEAN
  PROVE  /\ ListAdd(q, n, p) \in Seq(Nodes)
         /\ ListAdd(q, n, p) # <<>>
<1>1. <<n>> \o q \in Seq(Nodes) /\ <<n>> \o q # <<>>
  <2>1. <<n>> \in Seq(Nodes) /\ Len(<<n>>) = 1
    OBVIOUS
  <2>2. Len(<<n>> \o q) = 1 + Len(q)
    BY <2>1
  <2>. QED BY <2>1, <2>2
<1>2. Append(q, n) \in Seq(Nodes) /\ Append(q, n) # <<>>
  OBVIOUS
<1>. QED BY <1>1, <1>2 DEF ListAdd

\* The nodes a client has taken are nodes: the part of typing that is not
\* visible from one action alone.
HeldOK == \A t \in Threads :
  /\ pc[t] \in {"fill", "relock", "test", "add"} => srn[t] \in Nodes
  /\ pc[t] \in {"lock", "get", "full", "fill", "relock", "test", "add"} => op[t] \in Jobs

\* The node the service thread works on is a node.
TakenOK == wpc \in {"del", "unlock", "run", "relock", "put"} => rn \in Nodes

TypeInv == TypeOK /\ HeldOK /\ TakenOK

LEMMA TypeInit == Init => TypeInv
<1> SUFFICES ASSUME Init PROVE TypeInv
  OBVIOUS
<1> USE NqAssumption, JobsAssumption
<1>1. frees \in Seq(Nodes)
  BY DEF Init, Nodes
<1>2. /\ pending \in Seq(Nodes) /\ exec \in [Nodes -> Work] /\ proc \in Nat
      /\ pc \in [Threads -> ClientPc] /\ op \in [Threads -> Work]
      /\ srn \in [Threads -> Nodes \cup {Nil}]
      /\ need_wakeup \in [Threads -> BOOLEAN]
      /\ ret \in [Jobs -> {"none", "ok", "EBUSY"}] /\ runs \in [Jobs -> Nat]
  BY DEF Init, Work, ClientPc
<1>3. /\ wpc \in WorkerPc /\ fn \in Work
      /\ rn \in Nodes \cup {Nil} /\ nextp \in Nodes \cup {Nil}
      /\ bufs \subseteq Work /\ dropped \subseteq Work
  BY DEF Init, Work, WorkerPc
<1>4. resets \in Nat
  BY DEF Init
<1>5. mtx \in BOOLEAN /\ cancelled \in BOOLEAN /\ raced \in BOOLEAN
  BY DEF Init
<1>6. TypeOK
  BY <1>1, <1>2, <1>3, <1>4, <1>5 DEF TypeOK
<1>. QED BY <1>6 DEF TypeInv, HeldOK, TakenOK, Init

LEMMA TypeClient ==
  ASSUME TypeInv, NEW t \in Threads, Client(t)
  PROVE  TypeInv'
<1> USE NqAssumption, JobsAssumption
<1> USE DEF TypeInv, TypeOK, HeldOK, TakenOK, NoteRace, Goto, Work,
            ClientPc, WorkerPc, lists, clients, worker, ledger
<1>0. raced' \in BOOLEAN
  BY DEF Client, SubmitCall, SubmitLock, SubmitGet, SubmitBusy, SubmitFill, SubmitRelock,
         AddTest, AddLink, ResetLock, ResetSplice, Unlock
<1>1. CASE SubmitCall(t)
  BY <1>0, <1>1 DEF SubmitCall
<1>2. CASE SubmitLock(t)
  BY <1>0, <1>2 DEF SubmitLock
<1>3. CASE SubmitGet(t)
  <2>1. frees' = frees \/ (frees # <<>> /\ frees' = Tail(frees))
    BY <1>3 DEF SubmitGet
  <2>2. frees # <<>> => Head(frees) \in Nodes /\ Tail(frees) \in Seq(Nodes)
    BY HeadTailProperties
  <2>3. frees' \in Seq(Nodes)
    BY <2>1, <2>2
  <2>4. CASE frees = <<>>
    BY <1>0, <1>3, <2>3, <2>4 DEF SubmitGet
  <2>5. CASE frees # <<>>
    <3> DEFINE n == Head(frees)
    <3>1. n \in Nodes /\ n \in Nodes \cup {Nil}
      BY <2>2, <2>5
    <3>2. srn' = [srn EXCEPT ![t] = n]
      BY <1>3, <2>5 DEF SubmitGet
    <3>3. srn' \in [Threads -> Nodes \cup {Nil}]
      <4> HIDE DEF n
      <4>. QED BY <3>1, <3>2
    <3>4. exec' = exec \/ exec' = [exec EXCEPT ![n] = op[t]]
      BY <1>3, <2>5 DEF SubmitGet
    <3>5. exec' \in [Nodes -> Work]
      <4> HIDE DEF n
      <4>. QED BY <3>1, <3>4
    <3>6. pc' = [pc EXCEPT ![t] = "fill"] \/ pc' = [pc EXCEPT ![t] = "test"]
      BY <1>3, <2>5 DEF SubmitGet
    <3>7. HeldOK'
      <4> HIDE DEF n
      <4>. QED BY <1>3, <3>1, <3>2, <3>6 DEF SubmitGet
    <3>8. TakenOK'
      BY <1>3 DEF SubmitGet
    <3>9. TypeOK'
      <4> HIDE DEF n
      <4>. QED BY <1>0, <1>3, <2>3, <3>3, <3>5, <3>6, SMTT(60) DEF SubmitGet
    <3>. QED BY <3>7, <3>8, <3>9
  <2>. QED BY <2>4, <2>5
<1>4. CASE SubmitBusy(t)
  BY <1>0, <1>4 DEF SubmitBusy
<1>5. CASE SubmitFill(t)
  BY <1>0, <1>5 DEF SubmitFill
<1>6. CASE SubmitRelock(t)
  BY <1>0, <1>6 DEF SubmitRelock
<1>7. CASE AddTest(t)
  BY <1>0, <1>7 DEF AddTest
<1>8. CASE AddLink(t)
  <2>1. pending' = ListAdd(pending, srn[t], op[t] \in Urgent) /\ srn[t] \in Nodes
    BY <1>8 DEF AddLink
  <2>2. (op[t] \in Urgent) \in BOOLEAN
    OBVIOUS
  <2>3. pending' \in Seq(Nodes)
    BY <2>1, <2>2, ListAddType
  <2>. QED BY <1>0, <1>8, <2>3 DEF AddLink
<1>9. CASE ResetLock(t)
  BY <1>0, <1>9 DEF ResetLock
<1>10. CASE ResetSplice(t)
  <2>1. frees' \in Seq(Nodes) /\ pending' \in Seq(Nodes)
    BY <1>10 DEF ResetSplice
  <2>2. dropped' \subseteq Work
    BY <1>10 DEF ResetSplice, ToSet
  <2>. QED BY <1>0, <1>10, <2>1, <2>2 DEF ResetSplice
<1>11. CASE Unlock(t)
  BY <1>0, <1>11 DEF Unlock
<1>. QED BY <1>1, <1>2, <1>3, <1>4, <1>5, <1>6, <1>7, <1>8, <1>9, <1>10, <1>11 DEF Client

LEMMA TypeSched ==
  ASSUME TypeInv, Sched
  PROVE  TypeInv'
<1> USE NqAssumption, JobsAssumption
<1> USE DEF TypeInv, TypeOK, HeldOK, TakenOK, NoteRace, Work,
            ClientPc, WorkerPc, lists, clients, worker, ledger
<1>0. raced' \in BOOLEAN
  BY DEF Sched, SchedLock, SchedLoad, SchedDel, SchedUnlockEmpty, SchedWait, SchedUnlock,
         SchedRun, SchedRelock, SchedPut, SchedCancelled
<1>1. CASE SchedLock
  BY <1>0, <1>1 DEF SchedLock
<1>2. CASE SchedLoad
  <2>1. pending # <<>> => Head(pending) \in Nodes /\ SecondOf(pending) \in Nodes \cup {Nil}
    BY DEF SecondOf
  <2>. QED BY <1>0, <1>2, <2>1 DEF SchedLoad
<1>3. CASE SchedDel
  <2>1. pending' \in Seq(Nodes)
    BY <1>3, ListDelFirstType DEF SchedDel
  <2>. QED BY <1>0, <1>3, <2>1 DEF SchedDel
<1>4. CASE SchedUnlockEmpty
  BY <1>0, <1>4 DEF SchedUnlockEmpty
<1>5. CASE SchedWait
  BY <1>0, <1>5 DEF SchedWait
<1>6. CASE SchedUnlock
  BY <1>0, <1>6 DEF SchedUnlock
<1>7. CASE SchedRun
  BY <1>0, <1>7 DEF SchedRun
<1>8. CASE SchedRelock
  BY <1>0, <1>8 DEF SchedRelock
<1>9. CASE SchedPut
  <2>1. rn \in Nodes /\ (frees' = frees \/ frees' = <<rn>> \o frees)
    BY <1>9 DEF SchedPut
  <2>2. <<rn>> \in Seq(Nodes)
    BY <2>1
  <2>3. frees' \in Seq(Nodes)
    <3>1. <<rn>> \o frees \in Seq(Nodes)
      BY <2>2, ConcatProperties
    <3>. QED BY <2>1, <3>1
  <2>. QED BY <1>0, <1>9, <2>3 DEF SchedPut
<1>10. CASE SchedCancelled
  BY <1>0, <1>10 DEF SchedCancelled
<1>. QED BY <1>1, <1>2, <1>3, <1>4, <1>5, <1>6, <1>7, <1>8, <1>9, <1>10 DEF Sched

LEMMA TypeNext == TypeInv /\ [Next]_vars => TypeInv'
<1> SUFFICES ASSUME TypeInv, [Next]_vars PROVE TypeInv'
  OBVIOUS
<1>1. ASSUME NEW t \in Threads, Client(t) PROVE TypeInv'
  BY <1>1, TypeClient
<1>2. CASE Sched
  BY <1>2, TypeSched
<1>3. CASE Cancel
  BY <1>3 DEF Cancel, TypeInv, TypeOK, HeldOK, TakenOK, lists, clients, worker, ledger, ToSet
<1>4. CASE UNCHANGED vars
  BY <1>4 DEF vars, TypeInv, TypeOK, HeldOK, TakenOK, lists, clients, worker, ledger
<1>. QED BY <1>1, <1>2, <1>3, <1>4 DEF Next

\* The lists hold nodes, the counters are natural numbers and every thread is
\* at a known place, in every state the run-queue can reach, races included.
THEOREM TypeCorrect == Spec => []TypeOK
<1>1. Init => TypeInv
  BY TypeInit
<1>2. TypeInv /\ [Next]_vars => TypeInv'
  BY TypeNext
<1>3. TypeInv => TypeOK
  BY DEF TypeInv
<1>. QED BY <1>1, <1>2, <1>3, PTL DEF Spec
-----------------------------------------------------------------------------
(* The wake-up rule.  NoLostWakeup is not inductive by itself: a client that *)
(* found the list non-empty links its node without a post, and that is right *)
(* only if nobody emptied the list in between.                               *)

\* The history variable misses no race of the current state.
RaceNoted == ~raced => Exclusive

\* What a client saw in list_empty still holds when it links its node.
TestStillHolds ==
  ~raced => \A t \in Threads : pc[t] = "add" /\ ~need_wakeup[t] => pending # <<>>

WakeInv == TypeInv /\ RaceNoted /\ TestStillHolds /\ NoLostWakeup

LEMMA WakeInit == Init => WakeInv
<1> SUFFICES ASSUME Init PROVE WakeInv
  OBVIOUS
<1>1. TypeInv
  BY TypeInit
<1>2. RaceNoted
  BY DEF Init, RaceNoted, Exclusive, ClientInList, WorkerInList
<1>3. TestStillHolds /\ NoLostWakeup
  BY DEF Init, TestStillHolds, NoLostWakeup
<1>. QED BY <1>1, <1>2, <1>3 DEF WakeInv

LEMMA WakeClient ==
  ASSUME WakeInv, NEW t \in Threads, Client(t)
  PROVE  RaceNoted' /\ TestStillHolds' /\ NoLostWakeup'
<1> USE DEF WakeInv, TypeInv, TypeOK, NoLostWakeup, TestStillHolds, Goto,
            lists, clients, worker, ledger
<1>0. raced' = (raced \/ ~Exclusive')
  BY DEF NoteRace, Client, SubmitCall, SubmitLock, SubmitGet, SubmitBusy, SubmitFill,
         SubmitRelock, AddTest, AddLink, ResetLock, ResetSplice, Unlock
<1>00. RaceNoted' /\ (~raced' => ~raced /\ Exclusive')
  BY <1>0 DEF RaceNoted
<1>1. CASE SubmitCall(t)
  BY <1>00, <1>1 DEF SubmitCall
<1>2. CASE SubmitLock(t)
  BY <1>00, <1>2 DEF SubmitLock
<1>3. CASE SubmitGet(t)
  BY <1>00, <1>3 DEF SubmitGet
<1>4. CASE SubmitBusy(t)
  BY <1>00, <1>4 DEF SubmitBusy
<1>5. CASE SubmitFill(t)
  BY <1>00, <1>5 DEF SubmitFill
<1>6. CASE SubmitRelock(t)
  BY <1>00, <1>6 DEF SubmitRelock
<1>7. CASE AddTest(t)
  BY <1>00, <1>7 DEF AddTest
<1>8. CASE AddLink(t)
  <2>1. pending' # <<>>
    <3>1. pending' = ListAdd(pending, srn[t], op[t] \in Urgent) /\ srn[t] \in Nodes
      BY <1>8 DEF AddLink, HeldOK
    <3>2. (op[t] \in Urgent) \in BOOLEAN
      OBVIOUS
    <3>. QED BY <3>1, <3>2, ListAddType
  <2>2. TestStillHolds'
    BY <2>1
  <2>3. NoLostWakeup'
    BY <1>00, <1>8 DEF AddLink
  <2>. QED BY <1>00, <2>2, <2>3
<1>9. CASE ResetLock(t)
  BY <1>00, <1>9 DEF ResetLock
<1>10. CASE ResetSplice(t)
  <2>1. ~raced => \A u \in Threads : pc[u] # "add"
    BY <1>10 DEF ResetSplice, RaceNoted, Exclusive, ClientInList
  <2>. QED BY <1>00, <1>10, <2>1 DEF ResetSplice
<1>11. CASE Unlock(t)
  BY <1>00, <1>11 DEF Unlock
<1>. QED BY <1>1, <1>2, <1>3, <1>4, <1>5, <1>6, <1>7, <1>8, <1>9, <1>10, <1>11 DEF Client

LEMMA WakeSched ==
  ASSUME WakeInv, Sched
  PROVE  RaceNoted' /\ TestStillHolds' /\ NoLostWakeup'
<1> USE DEF WakeInv, TypeInv, TypeOK, NoLostWakeup, TestStillHolds,
            lists, clients, worker, ledger
<1>0. raced' = (raced \/ ~Exclusive')
  BY DEF NoteRace, Sched, SchedLock, SchedLoad, SchedDel, SchedUnlockEmpty, SchedWait,
         SchedUnlock, SchedRun, SchedRelock, SchedPut, SchedCancelled
<1>00. RaceNoted' /\ (~raced' => ~raced /\ Exclusive')
  BY <1>0 DEF RaceNoted
<1>1. CASE SchedLock
  BY <1>00, <1>1 DEF SchedLock
<1>2. CASE SchedLoad
  BY <1>00, <1>2 DEF SchedLoad
<1>3. CASE SchedDel
  <2>1. ~raced => \A u \in Threads : pc[u] # "add"
    BY <1>3 DEF SchedDel, RaceNoted, Exclusive, ClientInList, WorkerInList
  <2>. QED BY <1>00, <1>3, <2>1 DEF SchedDel
<1>4. CASE SchedUnlockEmpty
  BY <1>00, <1>4 DEF SchedUnlockEmpty
<1>5. CASE SchedWait
  BY <1>00, <1>5 DEF SchedWait
<1>6. CASE SchedUnlock
  BY <1>00, <1>6 DEF SchedUnlock
<1>7. CASE SchedRun
  BY <1>00, <1>7 DEF SchedRun
<1>8. CASE SchedRelock
  BY <1>00, <1>8 DEF SchedRelock
<1>9. CASE SchedPut
  BY <1>00, <1>9 DEF SchedPut
<1>10. CASE SchedCancelled
  BY <1>00, <1>10 DEF SchedCancelled
<1>. QED BY <1>1, <1>2, <1>3, <1>4, <1>5, <1>6, <1>7, <1>8, <1>9, <1>10 DEF Sched

LEMMA WakeNext == WakeInv /\ [Next]_vars => WakeInv'
<1> SUFFICES ASSUME WakeInv, [Next]_vars PROVE WakeInv'
  OBVIOUS
<1>1. TypeInv'
  BY TypeNext DEF WakeInv
<1>2. ASSUME NEW t \in Threads, Client(t) PROVE RaceNoted' /\ TestStillHolds' /\ NoLostWakeup'
  BY <1>2, WakeClient
<1>3. CASE Sched
  BY <1>1, <1>3, WakeSched DEF WakeInv
<1>4. CASE Cancel \/ UNCHANGED vars
  BY <1>1, <1>4 DEF WakeInv, Cancel, vars, RaceNoted, Exclusive, ClientInList, WorkerInList,
     TestStillHolds, NoLostWakeup, lists, clients, worker, ledger
<1>. QED BY <1>1, <1>2, <1>3, <1>4 DEF Next, WakeInv

\* Until two threads are in list code at the same time, the service thread of
\* the run-queue never sleeps on a non-empty queue without a post to wake it:
\* posting only when the list was empty (rq.c:82-95) loses no wake-up.
THEOREM NoWakeupIsLost == Spec => []NoLostWakeup
<1>1. Init => WakeInv
  BY WakeInit
<1>2. WakeInv /\ [Next]_vars => WakeInv'
  BY WakeNext
<1>3. WakeInv => NoLostWakeup
  BY DEF WakeInv
<1>. QED BY <1>1, <1>2, <1>3, PTL DEF Spec

-----------------------------------------------------------------------------
(* The nodes.  Until a race or the end of the service thread every node is   *)
(* in one place, which takes more than a count: no list holds a node twice,  *)
(* no two clients hold the same one, and what list_del loaded is still true  *)
(* when it stores.                                                           *)

Quiet == ~raced /\ wpc # "dead"

Holding(t) == pc[t] \in {"fill", "relock", "test", "add"}
Holders == {t \in Threads : Holding(t)}

\* The node in the hands of the service thread.
HasNode == wpc \in {"unlock", "run", "relock", "put"}
Hand == IF HasNode THEN {rn} ELSE {}

Apart ==
  /\ IsInjective(frees) /\ IsInjective(pending) /\ ToSet(frees) \cap ToSet(pending) = {}
  /\ Hand \cap (ToSet(frees) \cup ToSet(pending)) = {}
  /\ \A t \in Holders : srn[t] \notin ToSet(frees) \cup ToSet(pending) \cup Hand
  /\ \A t, u \in Holders : srn[t] = srn[u] => t = u

Everywhere == ToSet(frees) \cup ToSet(pending) \cup Hand \cup {srn[t] : t \in Holders} = Nodes

Counted ==
  /\ IsFiniteSet(Holders)
  /\ Len(frees) + Len(pending) + (IF HasNode THEN 1 ELSE 0) + Cardinality(Holders) = nq

\* The loads of list_del are still true at its stores.
Loaded == wpc = "del" => pending # <<>> /\ rn = Head(pending) /\ nextp = SecondOf(pending)

NodesInv == Quiet => wpc # "ub" /\ Apart /\ Everywhere /\ Counted /\ Loaded

-----------------------------------------------------------------------------
(* The jobs and their copies. *)

\* Nodes that carry work which has not been executed.
Linked == ToSet(pending) \cup (IF wpc \in {"unlock", "run"} THEN {rn} ELSE {})

PreLink == {"lock", "get", "full", "fill", "relock", "test", "add"}

\* A submission owns its job and has not returned.
Calls ==
  /\ \A t \in Threads : op[t] \in Jobs => ret[op[t]] = "none"
  /\ \A t \in Threads : pc[t] \in {"idle", "splice"} => op[t] = NoJob
  /\ \A t, u \in Threads : op[t] = op[u] /\ op[t] # NoJob => t = u

\* A node carries the job it was filled with, and no two linked nodes the same.
Carries ==
  /\ \A t \in Threads : pc[t] \in {"relock", "test", "add"} => exec[srn[t]] = op[t]
  /\ \A n \in Linked : exec[n] \in Jobs
  /\ \A n, m \in Linked : exec[n] = exec[m] => n = m
  /\ wpc \in {"unlock", "run"} => fn = exec[rn]

\* The queue has taken the job: its submission returned 0 or is about to.
Accepted(j) == ret[j] = "ok" \/ \E t \in Threads : op[t] = j /\ pc[t] = "unlock"

WaitingJobs == {exec[n] : n \in Linked}

Account ==
  \A j \in Jobs :
    \/ ~Accepted(j) /\ j \notin WaitingJobs /\ runs[j] = 0 /\ j \notin dropped
    \/ Accepted(j) /\ j \in WaitingJobs /\ runs[j] = 0 /\ j \notin dropped
    \/ Accepted(j) /\ j \notin WaitingJobs /\ runs[j] = 1 /\ j \notin dropped
    \/ Accepted(j) /\ j \notin WaitingJobs /\ runs[j] = 0 /\ j \in dropped

\* A copy lives from the call to the end of its function; a discarded one for ever.
Copies ==
  /\ \A n \in Linked : exec[n] \in Copied => exec[n] \in bufs
  /\ \A t \in Threads : pc[t] \in PreLink /\ op[t] \in Copied => op[t] \in bufs
  /\ \A j \in bufs : /\ j \in Jobs /\ runs[j] = 0
                     /\ (\E t \in Threads : op[t] = j) \/ j \in WaitingJobs \/ j \in dropped

JobsInv == Quiet => Calls /\ Carries /\ Account /\ Copies

-----------------------------------------------------------------------------
(* Every node is in one place. *)

\* list_del of the first node with what it loaded itself is Tail.
LEMMA ListDelFirstIsTail ==
  ASSUME NEW q \in Seq(Nodes), IsInjective(q), q # <<>>
  PROVE  /\ ListDelFirst(q, SecondOf(q)) = Tail(q)
         /\ SecondOf(q) # Nil => SecondOf(q) \in ToSet(q)
<1>1. Len(q) \in Nat /\ Len(q) # 0 /\ \A k \in 1..Len(q) : q[k] \in Nodes /\ q[k] \in ToSet(q)
  BY ListFacts
<1>2. \A n \in Nodes : n # Nil
  BY NqAssumption DEF Nodes, Nil
<1>3. CASE Len(q) = 1
  <2>1. SecondOf(q) = Nil
    BY <1>3 DEF SecondOf
  <2>2. Tail(q) \in Seq(Nodes) /\ Len(Tail(q)) = 0
    BY <1>3, HeadTailProperties
  <2>3. Tail(q) = <<>>
    BY <2>2, EmptySeq
  <2>. QED BY <2>1, <2>3 DEF ListDelFirst
<1>4. CASE Len(q) > 1
  <2>1. SecondOf(q) = q[2] /\ 2 \in 1..Len(q)
    BY <1>1, <1>4 DEF SecondOf
  <2>2. q[2] # Nil /\ q[2] \in ToSet(q)
    BY <1>1, <1>2, <2>1
  <2>3. \A k \in 1..Len(q) : q[k] = q[2] => k = 2
    BY <2>1, ListFacts
  <2>4. (CHOOSE k \in 1..Len(q) : q[k] = q[2]) = 2
    BY <2>1, <2>3
  <2>5. From(q, q[2]) = SubSeq(q, 2, Len(q))
    BY <2>4 DEF From
  <2>6. SubSeq(q, 2, Len(q)) = Tail(q)
    BY TailIsSubSeq
  <2>. QED BY <2>1, <2>2, <2>5, <2>6 DEF ListDelFirst
<1>5. Len(q) = 1 \/ Len(q) > 1
  <2> DEFINE n == Len(q)
  <2>1. n \in Nat /\ n # 0
    BY <1>1
  <2> HIDE DEF n
  <2>2. n = 1 \/ n > 1
    BY <2>1
  <2>. QED BY <2>2 DEF n
<1>. QED BY <1>3, <1>4, <1>5

\* Neither a race nor the end of the service thread is undone.
LEMMA QuietBefore ==
  ASSUME WakeInv, [Next]_vars, Quiet'
  PROVE  Quiet /\ Exclusive /\ Exclusive'
<1> USE DEF NoteRace, Quiet, lists, clients, worker, ledger
<1>1. ASSUME NEW t \in Threads, Client(t) PROVE ~raced /\ wpc' = wpc
  BY <1>1 DEF Client, SubmitCall, SubmitLock, SubmitGet, SubmitBusy, SubmitFill,
              SubmitRelock, AddTest, AddLink, ResetLock, ResetSplice, Unlock
<1>2. ASSUME Sched PROVE Quiet
  BY <1>2 DEF Sched, SchedLock, SchedLoad, SchedDel, SchedUnlockEmpty, SchedWait,
              SchedUnlock, SchedRun, SchedRelock, SchedPut, SchedCancelled
<1>3. ASSUME Cancel \/ UNCHANGED vars PROVE Quiet
  BY <1>3 DEF Cancel, vars
<1>4. Quiet
  BY <1>1, <1>2, <1>3 DEF Next
<1>5. WakeInv'
  BY WakeNext
<1>. QED BY <1>4, <1>5 DEF WakeInv, RaceNoted

\* What the invariant says of the parts that one step changes.
LEMMA NodesFacts ==
  ASSUME TypeInv
  PROVE  /\ frees \in Seq(Nodes) /\ pending \in Seq(Nodes)
         /\ Len(frees) \in Nat /\ Len(pending) \in Nat
         /\ ToSet(frees) \subseteq Nodes /\ ToSet(pending) \subseteq Nodes
         /\ \A t \in Holders : t \in Threads /\ srn[t] \in Nodes
         /\ HasNode => rn \in Nodes
         /\ Hand \subseteq Nodes /\ nq \in Nat
<1>1. frees \in Seq(Nodes) /\ pending \in Seq(Nodes)
  BY DEF TypeInv, TypeOK
<1>2. /\ Len(frees) \in Nat /\ Len(pending) \in Nat
      /\ ToSet(frees) \subseteq Nodes /\ ToSet(pending) \subseteq Nodes
  BY <1>1, ListFacts
<1>3. \A t \in Holders : t \in Threads /\ srn[t] \in Nodes
  BY DEF TypeInv, HeldOK, Holders, Holding
<1>4. HasNode => rn \in Nodes
  BY DEF TypeInv, TakenOK, HasNode
<1>. QED BY <1>1, <1>2, <1>3, <1>4, NqAssumption DEF Hand

\* A step that moves no node.
LEMMA NodesSame ==
  ASSUME TypeInv, Quiet => NodesInv, Quiet' => Quiet,
         UNCHANGED <<frees, pending>>, Holders' = Holders, \A t \in Holders : srn'[t] = srn[t],
         Hand' = Hand, HasNode' = HasNode, wpc' # "ub", Quiet' => Loaded'
  PROVE  NodesInv'
<1> SUFFICES ASSUME Quiet' PROVE NodesInv'
  BY DEF NodesInv
<1>1. Quiet /\ Apart /\ Everywhere /\ Counted
  BY DEF NodesInv
<1>2. Apart'
  BY <1>1 DEF Apart
<1>3. Everywhere'
  <2>1. {srn'[t] : t \in Holders} = {srn[t] : t \in Holders}
    OBVIOUS
  <2>. QED BY <1>1, <2>1 DEF Everywhere
<1>4. Counted'
  BY <1>1 DEF Counted
<1>. QED BY <1>2, <1>3, <1>4 DEF NodesInv

\* A client takes the first free node.
LEMMA NodesTake ==
  ASSUME TypeInv, TypeInv', Quiet, NodesInv, NEW t \in Threads, t \notin Holders, frees # <<>>,
         frees' = Tail(frees), pending' = pending, Holders' = Holders \cup {t},
         srn' = [srn EXCEPT ![t] = Head(frees)], UNCHANGED <<wpc, rn, nextp>>
  PROVE  NodesInv'
<1>1. Apart /\ Everywhere /\ Counted /\ Loaded /\ wpc # "ub"
  BY DEF NodesInv
<1>2. /\ IsInjective(frees') /\ ToSet(frees') = ToSet(frees) \ {Head(frees)}
      /\ Len(frees') = Len(frees) - 1 /\ Head(frees) \in ToSet(frees)
  BY <1>1, NodesFacts, RemoveFirstNode DEF Apart
<1>3. Hand' = Hand /\ HasNode' = HasNode /\ Loaded'
  BY <1>1 DEF Hand, HasNode, Loaded
<1>4. srn'[t] = Head(frees) /\ \A u \in Holders : srn'[u] = srn[u]
  BY DEF TypeInv, TypeOK, Holders
<1>5. Apart'
  <2>1. /\ IsInjective(frees') /\ IsInjective(pending') /\ ToSet(frees') \cap ToSet(pending') = {}
        /\ Hand' \cap (ToSet(frees') \cup ToSet(pending')) = {}
    BY <1>1, <1>2, <1>3 DEF Apart
  <2>2. \A u \in Holders' : srn'[u] \notin ToSet(frees') \cup ToSet(pending') \cup Hand'
    BY <1>1, <1>2, <1>3, <1>4 DEF Apart
  <2>3. \A u, w \in Holders' : srn'[u] = srn'[w] => u = w
    BY <1>1, <1>2, <1>4 DEF Apart
  <2>. QED BY <2>1, <2>2, <2>3 DEF Apart
<1>6. Everywhere'
  <2>1. {srn'[u] : u \in Holders'} = {srn[u] : u \in Holders} \cup {Head(frees)}
    BY <1>4
  <2>. QED BY <1>1, <1>2, <1>3, <2>1 DEF Everywhere
<1>7. Counted'
  <2>1. IsFiniteSet(Holders') /\ Cardinality(Holders') = Cardinality(Holders) + 1
    BY <1>1, FS_AddElement DEF Counted
  <2>2. Cardinality(Holders) \in Nat
    BY <1>1, FS_CardinalityType DEF Counted
  <2>. QED BY <1>1, <1>2, <1>3, <2>1, <2>2, NodesFacts DEF Counted
<1>. QED BY <1>1, <1>3, <1>5, <1>6, <1>7 DEF NodesInv

\* A client links the node it holds.
LEMMA NodesLink ==
  ASSUME TypeInv, TypeInv', Quiet, NodesInv, NEW t \in Holders, NEW b \in BOOLEAN,
         pending' = ListAdd(pending, srn[t], b), frees' = frees, Holders' = Holders \ {t},
         srn' = srn, UNCHANGED <<wpc, rn, nextp>>, wpc # "del"
  PROVE  NodesInv'
<1>1. Apart /\ Everywhere /\ Counted /\ wpc # "ub"
  BY DEF NodesInv
<1>2. srn[t] \in Nodes /\ srn[t] \notin ToSet(pending)
  BY <1>1, NodesFacts DEF Apart
<1>3. /\ IsInjective(pending') /\ ToSet(pending') = ToSet(pending) \cup {srn[t]}
      /\ Len(pending') = Len(pending) + 1
  <2>1. CASE b
    BY <1>1, <1>2, <2>1, NodesFacts, PrependNode DEF Apart, ListAdd
  <2>2. CASE ~b
    BY <1>1, <1>2, <2>2, NodesFacts, AppendNode DEF Apart, ListAdd
  <2>. QED BY <2>1, <2>2
<1>4. Hand' = Hand /\ HasNode' = HasNode /\ Loaded'
  BY DEF Hand, HasNode, Loaded
<1>5. Apart'
  BY <1>1, <1>2, <1>3, <1>4 DEF Apart
<1>6. Everywhere'
  <2>1. {srn[u] : u \in Holders} = {srn[u] : u \in Holders \ {t}} \cup {srn[t]}
    OBVIOUS
  <2>. QED BY <1>1, <1>3, <1>4, <2>1 DEF Everywhere
<1>7. Counted'
  <2>1. IsFiniteSet(Holders') /\ Cardinality(Holders') = Cardinality(Holders) - 1
    BY <1>1, FS_RemoveElement DEF Counted
  <2>2. Cardinality(Holders) \in Nat
    BY <1>1, FS_CardinalityType DEF Counted
  <2>. QED BY <1>1, <1>3, <1>4, <2>1, <2>2, NodesFacts DEF Counted
<1>. QED BY <1>1, <1>4, <1>5, <1>6, <1>7 DEF NodesInv

\* A reset frees the pending nodes.
LEMMA NodesSplice ==
  ASSUME TypeInv, Quiet, NodesInv, frees' = frees \o pending, pending' = <<>>,
         Holders' = Holders, srn' = srn, UNCHANGED <<wpc, rn, nextp>>, wpc # "del"
  PROVE  NodesInv'
<1>1. Apart /\ Everywhere /\ Counted /\ wpc # "ub"
  BY DEF NodesInv
<1>2. /\ IsInjective(frees') /\ ToSet(frees') = ToSet(frees) \cup ToSet(pending)
      /\ Len(frees') = Len(frees) + Len(pending)
  BY <1>1, NodesFacts, SpliceLists DEF Apart
<1>3. <<>> \in Seq(Nodes) /\ Len(<<>>) = 0
  BY EmptySeq
<1>4. ToSet(<<>>) = {} /\ IsInjective(<<>>)
  BY <1>3, ListFacts
<1>5. Hand' = Hand /\ HasNode' = HasNode /\ Loaded'
  BY DEF Hand, HasNode, Loaded
<1>6. Apart'
  BY <1>1, <1>2, <1>4, <1>5 DEF Apart
<1>7. Everywhere'
  BY <1>1, <1>2, <1>4, <1>5 DEF Everywhere
<1>8. Counted'
  BY <1>1, <1>2, <1>3, <1>5, NodesFacts DEF Counted
<1>. QED BY <1>1, <1>5, <1>6, <1>7, <1>8 DEF NodesInv

\* The service thread takes the first pending node.
LEMMA NodesDel ==
  ASSUME TypeInv, Quiet, NodesInv, wpc = "del", wpc' = "unlock", pending' = Tail(pending),
         UNCHANGED <<frees, rn>>, Holders' = Holders, srn' = srn
  PROVE  NodesInv'
<1>1. Apart /\ Everywhere /\ Counted /\ pending # <<>> /\ rn = Head(pending)
  BY DEF NodesInv, Loaded
<1>2. /\ IsInjective(pending') /\ ToSet(pending') = ToSet(pending) \ {rn}
      /\ Len(pending') = Len(pending) - 1 /\ rn \in ToSet(pending)
  BY <1>1, NodesFacts, RemoveFirstNode DEF Apart
<1>3. Hand = {} /\ Hand' = {rn} /\ ~HasNode /\ HasNode'
  BY DEF Hand, HasNode
<1>4. Apart'
  BY <1>1, <1>2, <1>3 DEF Apart
<1>5. Everywhere'
  BY <1>1, <1>2, <1>3 DEF Everywhere
<1>6. Counted'
  <2>1. Cardinality(Holders) \in Nat
    BY <1>1, FS_CardinalityType DEF Counted
  <2>. QED BY <1>1, <1>2, <1>3, <2>1, NodesFacts DEF Counted
<1>. QED BY <1>4, <1>5, <1>6 DEF NodesInv, Loaded

\* The service thread puts its node back.
LEMMA NodesPut ==
  ASSUME TypeInv, Quiet, NodesInv, wpc = "put", wpc' = "get", frees' = <<rn>> \o frees,
         UNCHANGED pending, Holders' = Holders, srn' = srn
  PROVE  NodesInv'
<1>1. Apart /\ Everywhere /\ Counted
  BY DEF NodesInv
<1>2. Hand = {rn} /\ Hand' = {} /\ HasNode /\ ~HasNode' /\ rn \in Nodes
  BY NodesFacts DEF Hand, HasNode
<1>3. /\ IsInjective(frees') /\ ToSet(frees') = ToSet(frees) \cup {rn}
      /\ Len(frees') = Len(frees) + 1
  BY <1>1, <1>2, NodesFacts, PrependNode DEF Apart
<1>4. Apart'
  BY <1>1, <1>2, <1>3 DEF Apart
<1>5. Everywhere'
  BY <1>1, <1>2, <1>3 DEF Everywhere
<1>6. Counted'
  <2>1. Cardinality(Holders) \in Nat
    BY <1>1, FS_CardinalityType DEF Counted
  <2>. QED BY <1>1, <1>2, <1>3, <2>1, NodesFacts DEF Counted
<1>. QED BY <1>4, <1>5, <1>6 DEF NodesInv, Loaded


LEMMA NodesClient ==
  ASSUME WakeInv, TypeInv', NodesInv, Quiet, Exclusive, NEW t \in Threads, Client(t)
  PROVE  NodesInv'
<1> USE DEF Goto, lists, clients, worker, ledger
<1>1. /\ TypeInv /\ pc \in [Threads -> ClientPc] /\ wpc # "ub" /\ Loaded
  BY DEF WakeInv, TypeInv, TypeOK, NodesInv
<1>2. /\ UNCHANGED <<wpc, rn, nextp>>
  BY DEF Client, SubmitCall, SubmitLock, SubmitGet, SubmitBusy, SubmitFill,
         SubmitRelock, AddTest, AddLink, ResetLock, ResetSplice, Unlock
<1>3. /\ Hand' = Hand /\ HasNode' = HasNode
  BY <1>2 DEF Hand, HasNode
\* The steps that move no node.
<1>4. ASSUME UNCHANGED <<frees, pending>>,
             NEW w, pc' = [pc EXCEPT ![t] = w],
             w \in {"fill", "relock", "test", "add"} <=> Holding(t),
             \A u \in Threads : u # t \/ Holding(t) => srn'[u] = srn[u]
      PROVE  NodesInv'
  <2>1. Holders' = Holders
    BY <1>1, <1>4 DEF Holders, Holding
  <2>2. \A u \in Holders : srn'[u] = srn[u]
    BY <1>4 DEF Holders
  <2>3. Loaded' /\ wpc' # "ub"
    BY <1>1, <1>2, <1>4 DEF Loaded
  <2>. QED BY <1>1, <1>3, <1>4, <2>1, <2>2, <2>3, NodesSame
<1>5. CASE SubmitCall(t)
  <2>1. UNCHANGED <<frees, pending, srn>> /\ pc' = [pc EXCEPT ![t] = "lock"] /\ ~Holding(t)
    BY <1>5 DEF SubmitCall, Holding
  <2>. QED BY <1>4, <2>1
<1>6. CASE SubmitLock(t)
  <2>1. UNCHANGED <<frees, pending, srn>> /\ pc' = [pc EXCEPT ![t] = "get"] /\ ~Holding(t)
    BY <1>6 DEF SubmitLock, Holding
  <2>. QED BY <1>4, <2>1
<1>7. CASE SubmitGet(t)
  <2>1. ~Holding(t) /\ t \notin Holders /\ pending' = pending
    BY <1>7 DEF SubmitGet, Holding, Holders
  <2>2. CASE frees = <<>>
    <3>1. UNCHANGED <<frees, pending, srn>> /\ pc' = [pc EXCEPT ![t] = "full"]
      BY <1>7, <2>2 DEF SubmitGet
    <3>. QED BY <1>4, <2>1, <3>1
  <2>3. CASE frees # <<>>
    <3>1. /\ frees' = Tail(frees) /\ srn' = [srn EXCEPT ![t] = Head(frees)]
          /\ pc' = [pc EXCEPT ![t] = "fill"] \/ pc' = [pc EXCEPT ![t] = "test"]
      BY <1>7, <2>3 DEF SubmitGet
    <3>2. Holders' = Holders \cup {t}
      BY <1>1, <3>1 DEF Holders, Holding
    <3>. QED BY <1>1, <1>2, <2>1, <2>3, <3>1, <3>2, NodesTake
  <2>. QED BY <2>2, <2>3
<1>8. CASE SubmitBusy(t)
  <2>1. UNCHANGED <<frees, pending, srn>> /\ pc' = [pc EXCEPT ![t] = "idle"] /\ ~Holding(t)
    BY <1>8 DEF SubmitBusy, Holding
  <2>. QED BY <1>4, <2>1
<1>9. CASE SubmitFill(t)
  <2>1. UNCHANGED <<frees, pending, srn>> /\ pc' = [pc EXCEPT ![t] = "relock"] /\ Holding(t)
    BY <1>9 DEF SubmitFill, Holding
  <2>. QED BY <1>4, <2>1
<1>10. CASE SubmitRelock(t)
  <2>1. UNCHANGED <<frees, pending, srn>> /\ pc' = [pc EXCEPT ![t] = "test"] /\ Holding(t)
    BY <1>10 DEF SubmitRelock, Holding
  <2>. QED BY <1>4, <2>1
<1>11. CASE AddTest(t)
  <2>1. UNCHANGED <<frees, pending, srn>> /\ pc' = [pc EXCEPT ![t] = "add"] /\ Holding(t)
    BY <1>11 DEF AddTest, Holding
  <2>. QED BY <1>4, <2>1
<1>12. CASE AddLink(t)
  <2>1. /\ pending' = ListAdd(pending, srn[t], op[t] \in Urgent) /\ frees' = frees /\ srn' = srn
        /\ pc' = [pc EXCEPT ![t] = "unlock"] /\ pc[t] = "add"
    BY <1>12 DEF AddLink
  <2>2. t \in Holders /\ Holders' = Holders \ {t}
    BY <1>1, <2>1 DEF Holders, Holding
  <2>3. wpc # "del"
    BY <2>1 DEF Exclusive, ClientInList, WorkerInList
  <2>4. (op[t] \in Urgent) \in BOOLEAN
    OBVIOUS
  <2>. QED BY <1>1, <1>2, <2>1, <2>2, <2>3, <2>4, NodesLink
<1>13. CASE ResetLock(t)
  <2>1. UNCHANGED <<frees, pending, srn>> /\ pc' = [pc EXCEPT ![t] = "splice"] /\ ~Holding(t)
    BY <1>13 DEF ResetLock, Holding
  <2>. QED BY <1>4, <2>1
<1>14. CASE ResetSplice(t)
  <2>1. /\ frees' = frees \o pending /\ pending' = <<>> /\ srn' = srn
        /\ pc' = [pc EXCEPT ![t] = "unlock"] /\ pc[t] = "splice"
    BY <1>14 DEF ResetSplice
  <2>2. Holders' = Holders
    BY <1>1, <2>1 DEF Holders, Holding
  <2>3. wpc # "del"
    BY <2>1 DEF Exclusive, ClientInList, WorkerInList
  <2>. QED BY <1>1, <1>2, <2>1, <2>2, <2>3, NodesSplice
<1>15. CASE Unlock(t)
  <2>1. /\ UNCHANGED <<frees, pending>> /\ pc' = [pc EXCEPT ![t] = "idle"] /\ ~Holding(t)
        /\ srn' = [srn EXCEPT ![t] = Nil]
    BY <1>15 DEF Unlock, Holding
  <2>2. \A u \in Threads : u # t => srn'[u] = srn[u]
    BY <1>1, <2>1 DEF TypeInv, TypeOK
  <2>. QED BY <1>4, <2>1, <2>2
<1>. QED BY <1>5, <1>6, <1>7, <1>8, <1>9, <1>10, <1>11, <1>12, <1>13, <1>14, <1>15 DEF Client

LEMMA NodesSched ==
  ASSUME WakeInv, TypeInv', NodesInv, Quiet, Exclusive, Quiet', Sched
  PROVE  NodesInv'
<1> USE DEF lists, clients, worker, ledger
<1>1. /\ TypeInv /\ wpc # "ub" /\ Loaded /\ Apart
  BY DEF WakeInv, NodesInv
<1>2. /\ UNCHANGED <<pc, srn>> /\ Holders' = Holders
  BY DEF Sched, SchedLock, SchedLoad, SchedDel, SchedUnlockEmpty, SchedWait,
         SchedUnlock, SchedRun, SchedRelock, SchedPut, SchedCancelled, Holders, Holding
<1>3. ASSUME UNCHANGED <<frees, pending>>, HasNode' = HasNode, HasNode => rn' = rn,
             wpc' # "ub", Loaded'
      PROVE  NodesInv'
  <2>1. Hand' = Hand
    BY <1>3 DEF Hand
  <2>. QED BY <1>1, <1>2, <1>3, <2>1, NodesSame
<1>4. CASE SchedLock
  <2>1. UNCHANGED <<frees, pending, rn>> /\ wpc = "start" /\ wpc' = "get"
    BY <1>4 DEF SchedLock
  <2>. QED BY <1>3, <2>1 DEF HasNode, Loaded
<1>5. CASE SchedLoad
  <2>1. UNCHANGED <<frees, pending>> /\ wpc = "get" /\ wpc' \in {"empty", "del"} /\ Loaded'
    BY <1>5 DEF SchedLoad, Loaded
  <2>. QED BY <1>3, <2>1 DEF HasNode
<1>6. CASE SchedDel
  <2>1. wpc = "del" /\ pending # <<>> /\ rn = Head(pending) /\ nextp = SecondOf(pending)
    BY <1>1, <1>6 DEF SchedDel, Loaded
  <2>2. /\ ListDelFirst(pending, nextp) = Tail(pending)
        /\ nextp # Nil => nextp \in ToSet(pending)
    BY <1>1, <2>1, ListDelFirstIsTail, NodesFacts DEF Apart
  <2>3. pending' = Tail(pending) /\ wpc' = "unlock" /\ UNCHANGED <<frees, rn>>
    BY <1>6, <2>2 DEF SchedDel
  <2>. QED BY <1>1, <1>2, <2>1, <2>3, NodesDel
<1>7. CASE SchedUnlockEmpty
  <2>1. UNCHANGED <<frees, pending, rn>> /\ wpc = "empty" /\ wpc' = "wait"
    BY <1>7 DEF SchedUnlockEmpty
  <2>. QED BY <1>3, <2>1 DEF HasNode, Loaded
<1>8. CASE SchedWait
  <2>1. UNCHANGED <<frees, pending, rn>> /\ wpc = "wait" /\ wpc' = "get"
    BY <1>8 DEF SchedWait
  <2>. QED BY <1>3, <2>1 DEF HasNode, Loaded
<1>9. CASE SchedUnlock \/ SchedRun \/ SchedRelock
  <2>1. /\ UNCHANGED <<frees, pending, rn>> /\ wpc \in {"unlock", "run", "relock"}
        /\ wpc' \in {"run", "relock", "put"}
    BY <1>9 DEF SchedUnlock, SchedRun, SchedRelock
  <2>. QED BY <1>3, <2>1 DEF HasNode, Loaded
<1>10. CASE SchedPut
  <2>1. wpc = "put" /\ Hand = {rn}
    BY <1>10 DEF SchedPut, Hand, HasNode
  <2>2. rn \notin ToSet(frees) \cup ToSet(pending)
    BY <1>1, <2>1 DEF Apart
  <2>3. frees' = <<rn>> \o frees /\ wpc' = "get" /\ UNCHANGED pending
    BY <1>10, <2>2 DEF SchedPut
  <2>. QED BY <1>1, <1>2, <2>1, <2>3, NodesPut
<1>11. CASE SchedCancelled
  BY <1>11 DEF SchedCancelled, Quiet
<1>. QED BY <1>4, <1>5, <1>6, <1>7, <1>8, <1>9, <1>10, <1>11 DEF Sched

LEMMA NodesInit == Init => NodesInv
<1> SUFFICES ASSUME Init PROVE NodesInv
  OBVIOUS
<1> DEFINE q == [i \in Nodes |-> i]
<1>1. frees = q /\ pending = <<>> /\ wpc = "start" /\ pc = [t \in Threads |-> "idle"]
  BY DEF Init
<1>2. nq \in Nat /\ q \in [1..nq -> Nodes] /\ \A k \in 1..nq : q[k] = k
  BY NqAssumption DEF Nodes
<1>3. q \in Seq(Nodes) /\ Len(q) = nq
  <2>1. q \in Seq(Nodes)
    BY <1>2, IsASeq
  <2>2. 1..Len(q) = 1..nq /\ Len(q) \in Nat
    BY <1>2, <2>1, LenProperties
  <2>. QED BY <1>2, <2>1, <2>2
<1> HIDE DEF q
<1>4. IsInjective(q)
  BY <1>2, <1>3, ListFacts
<1>5. ToSet(q) = Nodes
  <2>1. \A n \in Nodes : n \in 1..Len(q) /\ q[n] = n
    BY <1>2, <1>3 DEF Nodes
  <2>2. (\A k \in 1..Len(q) : q[k] \in ToSet(q)) /\ (\A x \in ToSet(q) : x \in Nodes)
    BY <1>3, ListFacts
  <2>. QED BY <2>1, <2>2
<1>6. <<>> \in Seq(Nodes) /\ Len(<<>>) = 0
  BY EmptySeq
<1>7. ToSet(<<>>) = {} /\ IsInjective(<<>>)
  BY <1>6, ListFacts
<1>8. Holders = {} /\ Hand = {} /\ ~HasNode
  BY <1>1 DEF Holders, Holding, Hand, HasNode
<1>9. Apart
  BY <1>1, <1>4, <1>7, <1>8 DEF Apart
<1>10. Everywhere
  BY <1>1, <1>5, <1>7, <1>8 DEF Everywhere
<1>11. Counted
  BY <1>1, <1>2, <1>3, <1>6, <1>8, FS_EmptySet DEF Counted
<1>. QED BY <1>1, <1>9, <1>10, <1>11 DEF NodesInv, Loaded

LEMMA NodesNext == WakeInv /\ NodesInv /\ [Next]_vars => NodesInv'
<1> SUFFICES ASSUME WakeInv, NodesInv, [Next]_vars PROVE NodesInv'
  OBVIOUS
<1> SUFFICES ASSUME Quiet' PROVE NodesInv'
  BY DEF NodesInv
<1>1. Quiet /\ Exclusive
  BY QuietBefore
<1>2. TypeInv'
  BY TypeNext DEF WakeInv
<1>3. ASSUME NEW t \in Threads, Client(t) PROVE NodesInv'
  BY <1>1, <1>2, <1>3, NodesClient
<1>4. CASE Sched
  BY <1>1, <1>2, <1>4, NodesSched
<1>5. CASE Cancel \/ UNCHANGED vars
  <2>1. UNCHANGED <<frees, pending, pc, srn, wpc, rn, nextp>>
    BY <1>5 DEF Cancel, vars, lists, clients, worker
  <2>2. /\ Holders' = Holders /\ Hand' = Hand /\ HasNode' = HasNode /\ Loaded' /\ wpc' # "ub"
    BY <1>1, <2>1 DEF Holders, Holding, Hand, HasNode, Loaded, NodesInv
  <2>. QED BY <1>1, <2>1, <2>2, NodesSame DEF WakeInv
<1>. QED BY <1>3, <1>4, <1>5 DEF Next

\* Until a race, rq_get_first_locked, rq_add_node_locked, rq_put_locked and the
\* splice of _rq_reset lose no rq_node and link none twice.
THEOREM NodesKept == Spec => []NodesConserved
<1>1. WakeInv /\ NodesInv => NodesConserved
  <2> SUFFICES ASSUME WakeInv, NodesInv, Quiet PROVE NodesConserved
    BY DEF NodesConserved, Quiet
  <2>1. Everywhere /\ Counted /\ TypeInv /\ wpc # "dead"
    BY DEF NodesInv, WakeInv, Quiet
  <2>2. \A n \in Nodes : n # Nil
    BY NqAssumption DEF Nodes, Nil
  <2>3. InHand = Hand
    BY <2>1, <2>2, NodesFacts DEF InHand, Hand, HasNode
  <2>4. Cardinality(InHand) = IF HasNode THEN 1 ELSE 0
    BY <2>3, FS_Singleton, FS_EmptySet DEF Hand
  <2>5. {t \in Threads : Held(t) # {}} = Holders
    BY DEF Held, Holders, Holding
  <2>6. UNION {Held(t) : t \in Threads} = {srn[t] : t \in Holders}
    <3>1. \A t \in Threads : Held(t) = IF t \in Holders THEN {srn[t]} ELSE {}
      BY DEF Held, Holders, Holding
    <3>2. Holders \subseteq Threads
      BY DEF Holders
    <3>. QED BY <3>1, <3>2
  <2>. QED BY <2>1, <2>3, <2>4, <2>5, <2>6 DEF NodesConserved, Everywhere, Counted
<1>2. Spec => [](WakeInv /\ NodesInv)
  BY WakeInit, NodesInit, WakeNext, NodesNext, PTL DEF Spec
<1>. QED BY <1>1, <1>2, PTL


-----------------------------------------------------------------------------
(* Every accepted job is waiting, done or discarded. *)

\* A job whose submission has not linked its node yet is not accepted.
LEMMA PreLinkFacts ==
  ASSUME TypeInv, Calls, Account, NEW t \in Threads, pc[t] \in PreLink
  PROVE  /\ op[t] \in Jobs /\ op[t] # NoJob /\ ret[op[t]] = "none"
         /\ ~Accepted(op[t]) /\ op[t] \notin WaitingJobs /\ runs[op[t]] = 0
         /\ op[t] \notin dropped
         /\ \A u \in Threads : u # t => op[u] # op[t]
<1>1. op[t] \in Jobs /\ op[t] # NoJob
  BY JobsAssumption DEF TypeInv, HeldOK, PreLink
<1>2. ret[op[t]] = "none" /\ \A u \in Threads : u # t => op[u] # op[t]
  BY <1>1 DEF Calls
<1>3. pc[t] # "unlock"
  BY DEF PreLink
<1>4. ~Accepted(op[t])
  BY <1>2, <1>3 DEF Accepted
<1>. QED BY <1>1, <1>2, <1>4 DEF Account

\* A step that neither calls, returns, links nor runs anything.
LEMMA JobsMove ==
  ASSUME TypeInv, Calls, Carries, Account, Copies, NEW t \in Threads, NEW w \in PreLink,
         pc[t] \in PreLink, pc' = [pc EXCEPT ![t] = w],
         UNCHANGED <<op, ret, runs, dropped, bufs, wpc, rn, fn, pending>>,
         \A n \in Linked : exec'[n] = exec[n],
         w \in {"relock", "test", "add"} => exec'[srn'[t]] = op[t],
         \A u \in Holders \ {t} : exec'[srn'[u]] = exec[srn[u]]
  PROVE  JobsInv'
<1>1. \A u \in Threads : u # t => pc'[u] = pc[u]
  BY DEF TypeInv, TypeOK
<1>2. pc'[t] = w
  BY DEF TypeInv, TypeOK
<1>3. Linked' = Linked
  BY DEF Linked
<1>4. WaitingJobs' = WaitingJobs
  BY <1>3 DEF WaitingJobs
<1>5. \A j \in Jobs : Accepted(j)' <=> Accepted(j)
  <2>1. w # "unlock" /\ pc[t] # "unlock"
    BY DEF PreLink
  <2>. QED BY <1>1, <1>2, <2>1 DEF Accepted
<1>6. Calls'
  <2>1. w \notin {"idle", "splice"}
    BY DEF PreLink
  <2>. QED BY <1>1, <1>2, <2>1 DEF Calls
<1>7. Carries'
  <2>1. ASSUME NEW u \in Threads, pc'[u] \in {"relock", "test", "add"} PROVE exec'[srn'[u]] = op[u]
    <3>1. CASE u = t
      BY <1>2, <2>1, <3>1
    <3>2. CASE u # t
      <4>1. pc[u] \in {"relock", "test", "add"} /\ u \in Holders \ {t}
        BY <1>1, <2>1, <3>2 DEF Holders, Holding
      <4>. QED BY <4>1 DEF Carries
    <3>. QED BY <3>1, <3>2
  <2>2. wpc \in {"unlock", "run"} => exec'[rn] = exec[rn]
    BY DEF Linked
  <2>. QED BY <1>3, <2>1, <2>2 DEF Carries
<1>8. Account'
  BY <1>4, <1>5 DEF Account
<1>9. Copies'
  <2>1. \A u \in Threads : pc'[u] \in PreLink => pc[u] \in PreLink
    BY <1>1
  <2>. QED BY <1>3, <1>4, <2>1 DEF Copies
<1>. QED BY <1>6, <1>7, <1>8, <1>9 DEF JobsInv

\* A step of the service thread that runs nothing.
LEMMA JobsIdle ==
  ASSUME JobsInv, Quiet' => Quiet, UNCHANGED <<pc, op, srn, exec, ret, runs, dropped, bufs>>,
         Quiet' => Linked' = Linked, wpc' \in {"unlock", "run"} => fn' = exec[rn']
  PROVE  JobsInv'
<1> SUFFICES ASSUME Quiet' PROVE JobsInv'
  BY DEF JobsInv
<1>1. Calls /\ Carries /\ Account /\ Copies /\ Linked' = Linked
  BY DEF JobsInv
<1>2. WaitingJobs' = WaitingJobs
  BY <1>1 DEF WaitingJobs
<1>3. \A j : Accepted(j)' <=> Accepted(j)
  BY DEF Accepted
<1>4. Calls' /\ Carries'
  BY <1>1 DEF Calls, Carries
<1>5. Account' /\ Copies'
  BY <1>1, <1>2, <1>3 DEF Account, Copies
<1>. QED BY <1>4, <1>5 DEF JobsInv

LEMMA JobsCall ==
  ASSUME TypeInv, Calls, Carries, Account, Copies, NEW t \in Threads, SubmitCall(t)
  PROVE  JobsInv'
<1>1. PICK j \in Jobs : /\ ret[j] = "none" /\ \A u \in Threads : op[u] # j
                        /\ op' = [op EXCEPT ![t] = j] /\ bufs' = bufs \cup ({j} \cap Copied)
  BY DEF SubmitCall
<1>2. /\ pc[t] = "idle" /\ pc' = [pc EXCEPT ![t] = "lock"]
      /\ UNCHANGED <<pending, exec, srn, wpc, rn, fn, ret, runs, dropped>>
  BY DEF SubmitCall, Goto, lists, worker
<1>3. /\ op'[t] = j /\ pc'[t] = "lock" /\ op[t] = NoJob
      /\ \A u \in Threads : u # t => op'[u] = op[u] /\ pc'[u] = pc[u]
  BY <1>1, <1>2 DEF TypeInv, TypeOK, Calls
<1>4. Linked' = Linked /\ WaitingJobs' = WaitingJobs
  BY <1>2 DEF Linked, WaitingJobs
<1>5. NoJob \notin Jobs
  BY JobsAssumption
<1>6. \A k \in Jobs : Accepted(k)' <=> Accepted(k)
  BY <1>1, <1>2, <1>3, <1>5 DEF Accepted
<1>7. Calls'
  <2>1. \A u \in Threads : op'[u] \in Jobs => ret[op'[u]] = "none"
    BY <1>1, <1>3 DEF Calls
  <2>2. \A u \in Threads : pc'[u] \in {"idle", "splice"} => op'[u] = NoJob
    BY <1>3 DEF Calls
  <2>3. \A u, v \in Threads : op'[u] = op'[v] /\ op'[u] # NoJob => u = v
    BY <1>1, <1>3 DEF Calls
  <2>. QED BY <1>2, <2>1, <2>2, <2>3 DEF Calls
<1>8. Carries'
  BY <1>2, <1>3, <1>4 DEF Carries
<1>9. Account'
  BY <1>2, <1>4, <1>6 DEF Account
<1>10. ~Accepted(j)
  BY <1>1 DEF Accepted
<1>11. Copies'
  <2>1. \A n \in Linked : exec[n] \in Copied => exec[n] \in bufs'
    BY <1>1 DEF Copies
  <2>2. \A u \in Threads : pc'[u] \in PreLink /\ op'[u] \in Copied => op'[u] \in bufs'
    BY <1>1, <1>3 DEF Copies
  <2>3. runs[j] = 0
    BY <1>10 DEF Account
  <2>4. exec' = exec /\ runs' = runs /\ dropped' = dropped /\ WaitingJobs' = WaitingJobs
    BY <1>2, <1>4
  <2>5. \A n \in Linked' : exec'[n] \in Copied => exec'[n] \in bufs'
    BY <1>4, <2>1, <2>4
  <2>6. ASSUME NEW k \in bufs'
        PROVE  /\ k \in Jobs /\ runs'[k] = 0
               /\ (\E u \in Threads : op'[u] = k) \/ k \in WaitingJobs' \/ k \in dropped'
    <3>1. CASE k = j
      BY <1>3, <2>3, <2>4, <3>1
    <3>2. CASE k # j
      <4>1. k \in bufs
        BY <1>1, <3>2
      <4>2. /\ k \in Jobs /\ runs[k] = 0
            /\ (\E u \in Threads : op[u] = k) \/ k \in WaitingJobs \/ k \in dropped
        BY <4>1 DEF Copies
      <4>3. ASSUME NEW u \in Threads, op[u] = k PROVE op'[u] = k
        BY <1>3, <1>5, <4>2, <4>3
      <4>. QED BY <2>4, <4>2, <4>3
    <3>. QED BY <3>1, <3>2
  <2>. QED BY <2>2, <2>5, <2>6, Zenon DEF Copies
<1>. QED BY <1>7, <1>8, <1>9, <1>11 DEF JobsInv

LEMMA JobsBusy ==
  ASSUME TypeInv, Calls, Carries, Account, Copies, NEW t \in Threads, SubmitBusy(t)
  PROVE  JobsInv'
<1>1. /\ pc[t] = "full" /\ pc' = [pc EXCEPT ![t] = "idle"] /\ bufs' = bufs \ {op[t]}
      /\ ret' = [ret EXCEPT ![op[t]] = "EBUSY"] /\ op' = [op EXCEPT ![t] = NoJob]
      /\ UNCHANGED <<pending, exec, srn, wpc, rn, fn, runs, dropped>>
  BY DEF SubmitBusy, Goto, lists, worker
<1>2. /\ op[t] \in Jobs /\ ~Accepted(op[t]) /\ op[t] \notin WaitingJobs
      /\ \A u \in Threads : u # t => op[u] # op[t]
  BY <1>1, PreLinkFacts DEF PreLink
<1>3. /\ op'[t] = NoJob /\ pc'[t] = "idle" /\ ret'[op[t]] = "EBUSY"
      /\ \A u \in Threads : u # t => op'[u] = op[u] /\ pc'[u] = pc[u]
      /\ \A k \in Jobs : k # op[t] => ret'[k] = ret[k]
  BY <1>1, <1>2 DEF TypeInv, TypeOK
<1>4. Linked' = Linked /\ WaitingJobs' = WaitingJobs
  BY <1>1 DEF Linked, WaitingJobs
<1>5. NoJob \notin Jobs
  BY JobsAssumption
<1>6. \A k \in Jobs : Accepted(k)' <=> Accepted(k)
  BY <1>1, <1>2, <1>3, <1>5 DEF Accepted
<1>7. Calls'
  <2>1. \A u \in Threads : op'[u] \in Jobs => ret'[op'[u]] = "none"
    BY <1>2, <1>3, <1>5 DEF Calls
  <2>2. \A u \in Threads : pc'[u] \in {"idle", "splice"} => op'[u] = NoJob
    BY <1>3 DEF Calls
  <2>3. \A u, v \in Threads : op'[u] = op'[v] /\ op'[u] # NoJob => u = v
    BY <1>3 DEF Calls
  <2>. QED BY <2>1, <2>2, <2>3 DEF Calls
<1>8. Carries'
  BY <1>1, <1>3, <1>4 DEF Carries
<1>9. Account'
  BY <1>1, <1>4, <1>6 DEF Account
<1>10. Copies'
  <2>1. \A n \in Linked : exec[n] # op[t]
    BY <1>2 DEF WaitingJobs
  <2>2. \A n \in Linked : exec[n] \in Copied => exec[n] \in bufs'
    BY <1>1, <2>1 DEF Copies
  <2>3. \A u \in Threads : pc'[u] \in PreLink /\ op'[u] \in Copied => op'[u] \in bufs'
    <3>1. pc'[t] \notin PreLink
      BY <1>3 DEF PreLink
    <3>. QED BY <1>1, <1>2, <1>3, <3>1 DEF Copies
  <2>4. ASSUME NEW k \in bufs'
        PROVE  /\ k \in Jobs /\ runs[k] = 0
               /\ (\E u \in Threads : op'[u] = k) \/ k \in WaitingJobs \/ k \in dropped
    <3>1. k \in bufs /\ k # op[t]
      BY <1>1
    <3>2. /\ k \in Jobs /\ runs[k] = 0
          /\ (\E u \in Threads : op[u] = k) \/ k \in WaitingJobs \/ k \in dropped
      BY <3>1 DEF Copies
    <3>. QED BY <1>3, <3>1, <3>2
  <2>. QED BY <1>1, <1>4, <2>2, <2>3, <2>4 DEF Copies
<1>. QED BY <1>7, <1>8, <1>9, <1>10 DEF JobsInv


\* The node gets linked: from here on the job is accepted.
LEMMA JobsLink ==
  ASSUME TypeInv, NodesInv, Quiet, Calls, Carries, Account, Copies, NEW t \in Threads, AddLink(t)
  PROVE  JobsInv'
<1>1. /\ pc[t] = "add" /\ pc' = [pc EXCEPT ![t] = "unlock"]
      /\ pending' = ListAdd(pending, srn[t], op[t] \in Urgent)
      /\ UNCHANGED <<exec, srn, wpc, rn, fn, op, ret, runs, dropped, bufs>>
  BY DEF AddLink, Goto, worker, ledger
<1>2. /\ op[t] \in Jobs /\ ~Accepted(op[t]) /\ op[t] \notin WaitingJobs /\ runs[op[t]] = 0
      /\ op[t] \notin dropped /\ \A u \in Threads : u # t => op[u] # op[t]
  BY <1>1, PreLinkFacts DEF PreLink
<1>3. pc'[t] = "unlock" /\ \A u \in Threads : u # t => pc'[u] = pc[u]
  BY <1>1 DEF TypeInv, TypeOK
<1>4. exec[srn[t]] = op[t] /\ srn[t] \in Nodes
  BY <1>1 DEF Carries, TypeInv, HeldOK
<1>5. ToSet(pending') = ToSet(pending) \cup {srn[t]}
  <2>1. CASE op[t] \in Urgent
    BY <1>1, <1>4, <2>1, NodesFacts, PrependNode DEF ListAdd
  <2>2. CASE op[t] \notin Urgent
    BY <1>1, <1>4, <2>2, NodesFacts, AppendNode DEF ListAdd
  <2>. QED BY <2>1, <2>2
<1>6. Linked' = Linked \cup {srn[t]}
  BY <1>1, <1>5 DEF Linked
<1>7. WaitingJobs' = WaitingJobs \cup {op[t]}
  BY <1>1, <1>4, <1>6 DEF WaitingJobs
<1>8. \A k \in Jobs : Accepted(k)' <=> Accepted(k) \/ k = op[t]
  BY <1>1, <1>3 DEF Accepted
<1>9. Calls'
  BY <1>1, <1>3 DEF Calls
<1>10. Carries'
  <2>1. \A n \in Linked : exec[n] # op[t]
    BY <1>2 DEF WaitingJobs
  <2>2. \A n, m \in Linked' : exec[n] = exec[m] => n = m
    BY <1>4, <1>6, <2>1 DEF Carries
  <2>3. \A n \in Linked' : exec[n] \in Jobs
    BY <1>2, <1>4, <1>6 DEF Carries
  <2>4. \A u \in Threads : pc'[u] \in {"relock", "test", "add"} => exec[srn[u]] = op[u]
    BY <1>3 DEF Carries
  <2>5. wpc \in {"unlock", "run"} => fn = exec[rn]
    BY DEF Carries
  <2>. QED BY <1>1, <2>2, <2>3, <2>4, <2>5 DEF Carries
<1>11. Account'
  <2>1. ASSUME NEW k \in Jobs
        PROVE  \/ ~Accepted(k)' /\ k \notin WaitingJobs' /\ runs'[k] = 0 /\ k \notin dropped'
               \/ Accepted(k)' /\ k \in WaitingJobs' /\ runs'[k] = 0 /\ k \notin dropped'
               \/ Accepted(k)' /\ k \notin WaitingJobs' /\ runs'[k] = 1 /\ k \notin dropped'
               \/ Accepted(k)' /\ k \notin WaitingJobs' /\ runs'[k] = 0 /\ k \in dropped'
    <3>1. CASE k = op[t]
      BY <1>1, <1>2, <1>7, <1>8, <3>1
    <3>2. CASE k # op[t]
      BY <1>1, <1>7, <1>8, <3>2 DEF Account
    <3>. QED BY <3>1, <3>2
  <2>. QED BY <2>1 DEF Account
<1>12. Copies'
  <2>1. op[t] \in Copied => op[t] \in bufs
    BY <1>1 DEF Copies, PreLink
  <2>2. \A n \in Linked' : exec[n] \in Copied => exec[n] \in bufs
    BY <1>4, <1>6, <2>1 DEF Copies
  <2>3. \A u \in Threads : pc'[u] \in PreLink /\ op[u] \in Copied => op[u] \in bufs
    <3>1. "unlock" \notin PreLink
      BY DEF PreLink
    <3>. QED BY <1>3, <3>1 DEF Copies
  <2>4. \A k \in bufs : /\ k \in Jobs /\ runs[k] = 0
                        /\ \/ \E u \in Threads : op[u] = k
                           \/ k \in WaitingJobs' \/ k \in dropped
    BY <1>7 DEF Copies
  <2>. QED BY <1>1, <2>2, <2>3, <2>4 DEF Copies
<1>. QED BY <1>9, <1>10, <1>11, <1>12 DEF JobsInv

\* A reset discards the jobs of the pending nodes.
LEMMA JobsSplice ==
  ASSUME TypeInv, NodesInv, Quiet, Calls, Carries, Account, Copies, NEW t \in Threads,
         ResetSplice(t)
  PROVE  JobsInv'
<1> DEFINE gone == {exec[n] : n \in ToSet(pending)}
<1>1. /\ pc[t] = "splice" /\ pc' = [pc EXCEPT ![t] = "unlock"] /\ pending' = <<>>
      /\ dropped' = dropped \cup gone
      /\ UNCHANGED <<exec, srn, wpc, rn, fn, op, ret, runs, bufs>>
  BY DEF ResetSplice, Goto, worker
<1>2. op[t] = NoJob /\ NoJob \notin Jobs
  BY <1>1, JobsAssumption DEF Calls
<1>3. pc'[t] = "unlock" /\ \A u \in Threads : u # t => pc'[u] = pc[u]
  BY <1>1 DEF TypeInv, TypeOK
<1>4. ToSet(pending') = {}
  <2>1. <<>> \in Seq(Nodes)
    BY EmptySeq
  <2>. QED BY <1>1, <2>1, ListFacts
<1>5. Linked' = Linked \ ToSet(pending)
  <2>1. wpc \in {"unlock", "run"} => rn \notin ToSet(pending)
    BY DEF NodesInv, Apart, Hand, HasNode
  <2>. QED BY <1>1, <1>4, <2>1 DEF Linked
<1>6. ToSet(pending) \subseteq Linked
  BY DEF Linked
<1>7. WaitingJobs' = WaitingJobs \ gone
  <2>1. \A n, m \in Linked : exec[n] = exec[m] => n = m
    BY DEF Carries
  <2>. QED BY <1>1, <1>5, <1>6, <2>1 DEF WaitingJobs
<1>8. gone \subseteq WaitingJobs
  BY <1>6 DEF WaitingJobs
<1> HIDE DEF gone
<1>9. \A k \in Jobs : Accepted(k)' <=> Accepted(k)
  BY <1>1, <1>2, <1>3 DEF Accepted
<1>10. Calls'
  BY <1>1, <1>2, <1>3 DEF Calls
<1>11. Carries'
  BY <1>1, <1>3, <1>5 DEF Carries
<1>12. Account'
  BY <1>1, <1>7, <1>8, <1>9 DEF Account
<1>13. Copies'
  <2>1. \A n \in Linked' : exec[n] \in Copied => exec[n] \in bufs
    BY <1>5 DEF Copies
  <2>2. \A u \in Threads : pc'[u] \in PreLink /\ op[u] \in Copied => op[u] \in bufs
    <3>1. "unlock" \notin PreLink
      BY DEF PreLink
    <3>. QED BY <1>3, <3>1 DEF Copies
  <2>3. \A k \in bufs : /\ k \in Jobs /\ runs[k] = 0
                        /\ \/ \E u \in Threads : op[u] = k
                           \/ k \in WaitingJobs' \/ k \in dropped'
    BY <1>1, <1>7 DEF Copies
  <2>. QED BY <1>1, <2>1, <2>2, <2>3 DEF Copies
<1>. QED BY <1>10, <1>11, <1>12, <1>13 DEF JobsInv

\* A call returns.
LEMMA JobsUnlock ==
  ASSUME TypeInv, Calls, Carries, Account, Copies, NEW t \in Threads, Unlock(t)
  PROVE  JobsInv'
<1>1. /\ pc[t] = "unlock" /\ pc' = [pc EXCEPT ![t] = "idle"]
      /\ ret' = IF op[t] = NoJob THEN ret ELSE [ret EXCEPT ![op[t]] = "ok"]
      /\ op' = [op EXCEPT ![t] = NoJob] /\ srn' = [srn EXCEPT ![t] = Nil]
      /\ UNCHANGED <<pending, exec, wpc, rn, fn, runs, dropped, bufs>>
  BY DEF Unlock, Goto, lists, worker
<1>2. NoJob \notin Jobs /\ (op[t] # NoJob => op[t] \in Jobs)
  BY JobsAssumption DEF TypeInv, TypeOK, Work
<1>3. /\ op'[t] = NoJob /\ pc'[t] = "idle"
      /\ \A u \in Threads : u # t => op'[u] = op[u] /\ pc'[u] = pc[u] /\ srn'[u] = srn[u]
      /\ \A k \in Jobs : k # op[t] => ret'[k] = ret[k]
      /\ op[t] \in Jobs => ret'[op[t]] = "ok"
  BY <1>1, <1>2 DEF TypeInv, TypeOK
<1>4. Linked' = Linked /\ WaitingJobs' = WaitingJobs
  BY <1>1 DEF Linked, WaitingJobs
<1>5. \A k \in Jobs : Accepted(k)' <=> Accepted(k)
  <2>1. ASSUME NEW k \in Jobs, k = op[t] PROVE Accepted(k)' /\ Accepted(k)
    BY <1>1, <1>3, <2>1 DEF Accepted
  <2>2. ASSUME NEW k \in Jobs, k # op[t] PROVE Accepted(k)' <=> Accepted(k)
    BY <1>2, <1>3, <2>2 DEF Accepted
  <2>. QED BY <2>1, <2>2
<1>6. \A u \in Threads : u # t /\ op[u] \in Jobs => op[u] # op[t]
  BY <1>2 DEF Calls
<1>7. Calls'
  <2>1. \A u \in Threads : op'[u] \in Jobs => ret'[op'[u]] = "none"
    BY <1>2, <1>3, <1>6 DEF Calls
  <2>2. \A u \in Threads : pc'[u] \in {"idle", "splice"} => op'[u] = NoJob
    BY <1>3 DEF Calls
  <2>3. \A u, v \in Threads : op'[u] = op'[v] /\ op'[u] # NoJob => u = v
    BY <1>3 DEF Calls
  <2>. QED BY <2>1, <2>2, <2>3 DEF Calls
<1>8. Carries'
  <2>1. \A u \in Threads : pc'[u] \in {"relock", "test", "add"} => exec[srn'[u]] = op'[u]
    BY <1>3 DEF Carries
  <2>. QED BY <1>1, <1>4, <2>1 DEF Carries
<1>9. Account'
  BY <1>1, <1>4, <1>5 DEF Account
<1>10. Copies'
  <2>1. \A u \in Threads : pc'[u] \in PreLink /\ op'[u] \in Copied => op'[u] \in bufs
    <3>1. "idle" \notin PreLink
      BY DEF PreLink
    <3>. QED BY <1>3, <3>1 DEF Copies
  <2>2. ASSUME NEW k \in bufs
        PROVE  /\ k \in Jobs /\ runs[k] = 0
               /\ (\E u \in Threads : op'[u] = k) \/ k \in WaitingJobs \/ k \in dropped
    <3>1. /\ k \in Jobs /\ runs[k] = 0
          /\ (\E u \in Threads : op[u] = k) \/ k \in WaitingJobs \/ k \in dropped
      BY DEF Copies
    <3>2. CASE k = op[t]
      <4>1. Accepted(k)
        BY <1>1, <3>2 DEF Accepted
      <4>2. k \in WaitingJobs \/ k \in dropped
        BY <3>1, <4>1 DEF Account
      <4>. QED BY <3>1, <4>2
    <3>3. CASE k # op[t]
      BY <1>3, <3>1, <3>3
    <3>. QED BY <3>2, <3>3
  <2>3. \A n \in Linked : exec[n] \in Copied => exec[n] \in bufs
    BY DEF Copies
  <2>. QED BY <1>1, <1>4, <2>1, <2>2, <2>3 DEF Copies
<1>. QED BY <1>7, <1>8, <1>9, <1>10 DEF JobsInv

\* The service thread executes the job of its node and frees the copy.
LEMMA JobsRun ==
  ASSUME TypeInv, NodesInv, Quiet, Calls, Carries, Account, Copies, SchedRun
  PROVE  JobsInv'
<1> DEFINE j == exec[rn]
<1>1. /\ wpc = "run" /\ wpc' = "relock" /\ bufs' = bufs \ {j}
      /\ runs' = IF fn \in Jobs THEN [runs EXCEPT ![fn] = @ + 1] ELSE runs
      /\ UNCHANGED <<pending, exec, pc, op, srn, rn, ret, dropped>>
  BY DEF SchedRun, lists, clients
<1>2. rn \in Linked /\ fn = j /\ j \in Jobs /\ j \in WaitingJobs
  BY <1>1 DEF Linked, Carries, WaitingJobs
<1>3. rn \notin ToSet(pending)
  BY <1>1 DEF NodesInv, Apart, Hand, HasNode
<1>4. Linked' = Linked \ {rn}
  BY <1>1, <1>3 DEF Linked
<1>5. \A n \in Linked' : exec[n] # j
  BY <1>2, <1>4 DEF Carries
<1> HIDE DEF j
<1>6. WaitingJobs' = WaitingJobs \ {j}
  BY <1>1, <1>2, <1>4, <1>5 DEF WaitingJobs, j
<1>7. Accepted(j) /\ runs[j] = 0 /\ j \notin dropped
  BY <1>2 DEF Account
<1>8. runs'[j] = 1 /\ \A k \in Jobs : k # j => runs'[k] = runs[k]
  BY <1>1, <1>2, <1>7 DEF TypeInv, TypeOK
<1>9. \A k \in Jobs : Accepted(k)' <=> Accepted(k)
  BY <1>1 DEF Accepted
<1>10. Calls'
  BY <1>1 DEF Calls
<1>11. Carries'
  BY <1>1, <1>4 DEF Carries
<1>12. Account'
  <2>1. ASSUME NEW k \in Jobs
        PROVE  \/ ~Accepted(k)' /\ k \notin WaitingJobs' /\ runs'[k] = 0 /\ k \notin dropped'
               \/ Accepted(k)' /\ k \in WaitingJobs' /\ runs'[k] = 0 /\ k \notin dropped'
               \/ Accepted(k)' /\ k \notin WaitingJobs' /\ runs'[k] = 1 /\ k \notin dropped'
               \/ Accepted(k)' /\ k \notin WaitingJobs' /\ runs'[k] = 0 /\ k \in dropped'
    <3>1. CASE k = j
      BY <1>1, <1>6, <1>7, <1>8, <1>9, <3>1
    <3>2. CASE k # j
      BY <1>1, <1>6, <1>8, <1>9, <3>2 DEF Account
    <3>. QED BY <3>1, <3>2
  <2>. QED BY <2>1 DEF Account
<1>13. Copies'
  <2>1. \A n \in Linked' : exec[n] \in Copied => exec[n] \in bufs'
    BY <1>1, <1>4, <1>5 DEF Copies
  <2>2. \A u \in Threads : pc[u] \in PreLink /\ op[u] \in Copied => op[u] \in bufs'
    BY <1>1, <1>7, PreLinkFacts DEF Copies
  <2>3. ASSUME NEW k \in bufs'
        PROVE  /\ k \in Jobs /\ runs'[k] = 0
               /\ (\E u \in Threads : op[u] = k) \/ k \in WaitingJobs' \/ k \in dropped
    <3>1. k \in bufs /\ k # j
      BY <1>1
    <3>2. /\ k \in Jobs /\ runs[k] = 0
          /\ (\E u \in Threads : op[u] = k) \/ k \in WaitingJobs \/ k \in dropped
      BY <3>1 DEF Copies
    <3>. QED BY <1>6, <1>8, <3>1, <3>2
  <2>. QED BY <1>1, <2>1, <2>2, <2>3 DEF Copies
<1>. QED BY <1>10, <1>11, <1>12, <1>13 DEF JobsInv


LEMMA JobsClient ==
  ASSUME WakeInv, NodesInv, JobsInv, Quiet, NEW t \in Threads, Client(t)
  PROVE  JobsInv'
<1> USE DEF Goto, lists, clients, worker, ledger
<1>1. TypeInv /\ Calls /\ Carries /\ Account /\ Copies /\ Apart
  BY DEF WakeInv, JobsInv, NodesInv
<1>2. /\ Linked \subseteq ToSet(pending) \cup Hand
      /\ \A u \in Holders : srn[u] \in Nodes /\ srn[u] \notin Linked
  <2>1. Linked \subseteq ToSet(pending) \cup Hand
    BY DEF Linked, Hand, HasNode
  <2>. QED BY <1>1, <2>1, NodesFacts DEF Apart
<1>3. CASE SubmitCall(t)
  BY <1>1, <1>3, JobsCall
<1>4. CASE SubmitLock(t)
  <2>1. /\ pc[t] = "lock" /\ pc' = [pc EXCEPT ![t] = "get"]
        /\ UNCHANGED <<op, ret, runs, dropped, bufs, wpc, rn, fn, pending, exec, srn>>
    BY <1>4 DEF SubmitLock
  <2>2. pc[t] \in PreLink /\ "get" \in PreLink
    BY <2>1 DEF PreLink
  <2>. QED BY <1>1, <2>1, <2>2, JobsMove
<1>5. CASE SubmitGet(t)
  <2>1. /\ pc[t] = "get" /\ t \notin Holders
        /\ UNCHANGED <<op, ret, runs, dropped, bufs, wpc, rn, fn, pending>>
    BY <1>5 DEF SubmitGet, Holders, Holding
  <2>2. pc[t] \in PreLink /\ "full" \in PreLink /\ "fill" \in PreLink /\ "test" \in PreLink
    BY <2>1 DEF PreLink
  <2>3. CASE frees = <<>>
    <3>1. pc' = [pc EXCEPT ![t] = "full"] /\ UNCHANGED <<exec, srn>>
      BY <1>5, <2>3 DEF SubmitGet
    <3>. QED BY <1>1, <2>1, <2>2, <3>1, JobsMove
  <2>4. CASE frees # <<>>
    <3> DEFINE n == Head(frees)
    <3>1. n \in Nodes /\ n \in ToSet(frees)
      BY <1>1, <2>4, NodesFacts, RemoveFirstNode DEF Apart
    <3>2. n \notin Linked /\ \A u \in Holders : srn[u] # n
      BY <1>1, <1>2, <3>1 DEF Apart
    <3>3. /\ srn' = [srn EXCEPT ![t] = n]
          /\ \/ pc' = [pc EXCEPT ![t] = "fill"] /\ exec' = exec
             \/ pc' = [pc EXCEPT ![t] = "test"] /\ exec' = [exec EXCEPT ![n] = op[t]]
      BY <1>5, <2>4 DEF SubmitGet
    <3> HIDE DEF n
    <3>4. srn'[t] = n /\ \A u \in Holders : srn'[u] = srn[u]
      BY <2>1, <3>3 DEF TypeInv, TypeOK, Holders, WakeInv
    <3>5. CASE pc' = [pc EXCEPT ![t] = "fill"] /\ exec' = exec
      BY <1>1, <2>1, <2>2, <3>4, <3>5, JobsMove
    <3>6. CASE pc' = [pc EXCEPT ![t] = "test"] /\ exec' = [exec EXCEPT ![n] = op[t]]
      <4>1. \A m \in Nodes : exec'[m] = IF m = n THEN op[t] ELSE exec[m]
        BY <1>1, <3>1, <3>6 DEF TypeInv, TypeOK
      <4>2. Linked \subseteq Nodes
        BY <1>1, <1>2, NodesFacts
      <4>3. \A m \in Linked : exec'[m] = exec[m]
        BY <3>2, <4>1, <4>2
      <4>4. exec'[srn'[t]] = op[t] /\ \A u \in Holders \ {t} : exec'[srn'[u]] = exec[srn[u]]
        BY <1>2, <3>1, <3>2, <3>4, <4>1
      <4>. QED BY <1>1, <2>1, <2>2, <3>6, <4>3, <4>4, JobsMove
    <3>. QED BY <3>3, <3>5, <3>6
  <2>. QED BY <2>3, <2>4
<1>6. CASE SubmitBusy(t)
  BY <1>1, <1>6, JobsBusy
<1>7. CASE SubmitFill(t)
  <2>1. /\ pc[t] = "fill" /\ pc' = [pc EXCEPT ![t] = "relock"] /\ exec' = [exec EXCEPT ![srn[t]] = op[t]]
        /\ UNCHANGED <<op, ret, runs, dropped, bufs, wpc, rn, fn, pending, srn>> /\ t \in Holders
    BY <1>7 DEF SubmitFill, Holders, Holding
  <2>2. pc[t] \in PreLink /\ "relock" \in PreLink
    BY <2>1 DEF PreLink
  <2>3. \A m \in Nodes : exec'[m] = IF m = srn[t] THEN op[t] ELSE exec[m]
    BY <1>1, <2>1 DEF TypeInv, TypeOK
  <2>4. Linked \subseteq Nodes
    BY <1>1, <1>2, NodesFacts
  <2>5. \A m \in Linked : exec'[m] = exec[m]
    BY <1>2, <2>1, <2>3, <2>4
  <2>6. exec'[srn[t]] = op[t]
    BY <1>2, <2>1, <2>3
  <2>7. \A u \in Holders \ {t} : exec'[srn[u]] = exec[srn[u]]
    <3>1. \A u \in Holders \ {t} : srn[u] # srn[t]
      BY <1>1, <2>1 DEF Apart
    <3>. QED BY <1>2, <2>3, <3>1
  <2>. QED BY <1>1, <2>1, <2>2, <2>5, <2>6, <2>7, JobsMove
<1>8. CASE SubmitRelock(t)
  <2>1. /\ pc[t] = "relock" /\ pc' = [pc EXCEPT ![t] = "test"]
        /\ UNCHANGED <<op, ret, runs, dropped, bufs, wpc, rn, fn, pending, exec, srn>>
    BY <1>8 DEF SubmitRelock
  <2>2. pc[t] \in PreLink /\ "test" \in PreLink
    BY <2>1 DEF PreLink
  <2>3. exec'[srn'[t]] = op[t]
    BY <1>1, <2>1 DEF Carries
  <2>. QED BY <1>1, <2>1, <2>2, <2>3, JobsMove
<1>9. CASE AddTest(t)
  <2>1. /\ pc[t] = "test" /\ pc' = [pc EXCEPT ![t] = "add"]
        /\ UNCHANGED <<op, ret, runs, dropped, bufs, wpc, rn, fn, pending, exec, srn>>
    BY <1>9 DEF AddTest
  <2>2. pc[t] \in PreLink /\ "add" \in PreLink
    BY <2>1 DEF PreLink
  <2>3. exec'[srn'[t]] = op[t]
    BY <1>1, <2>1 DEF Carries
  <2>. QED BY <1>1, <2>1, <2>2, <2>3, JobsMove
<1>10. CASE AddLink(t)
  BY <1>1, <1>10, JobsLink
<1>11. CASE ResetLock(t)
  <2>1. /\ pc[t] = "idle" /\ pc' = [pc EXCEPT ![t] = "splice"]
        /\ UNCHANGED <<op, ret, runs, dropped, bufs, wpc, rn, fn, pending, exec, srn>>
    BY <1>11 DEF ResetLock
  <2>2. pc'[t] = "splice" /\ \A u \in Threads : u # t => pc'[u] = pc[u]
    BY <1>1, <2>1 DEF TypeInv, TypeOK
  <2>3. Linked' = Linked /\ WaitingJobs' = WaitingJobs
    BY <2>1 DEF Linked, WaitingJobs
  <2>4. \A k \in Jobs : Accepted(k)' <=> Accepted(k)
    BY <2>1, <2>2 DEF Accepted
  <2>5. Calls' /\ Carries' /\ Account'
    BY <1>1, <2>1, <2>2, <2>3, <2>4 DEF Calls, Carries, Account
  <2>6. Copies'
    <3>1. "splice" \notin PreLink
      BY DEF PreLink
    <3>. QED BY <1>1, <2>1, <2>2, <2>3, <3>1 DEF Copies
  <2>. QED BY <2>5, <2>6 DEF JobsInv
<1>12. CASE ResetSplice(t)
  BY <1>1, <1>12, JobsSplice
<1>13. CASE Unlock(t)
  BY <1>1, <1>13, JobsUnlock
<1>. QED BY <1>3, <1>4, <1>5, <1>6, <1>7, <1>8, <1>9, <1>10, <1>11, <1>12, <1>13 DEF Client

LEMMA JobsSched ==
  ASSUME WakeInv, NodesInv, JobsInv, Quiet, Quiet', Sched
  PROVE  JobsInv'
<1> USE DEF lists, clients, worker, ledger
<1>1. TypeInv /\ Calls /\ Carries /\ Account /\ Copies /\ Apart /\ Loaded
  BY DEF WakeInv, JobsInv, NodesInv
<1>2. CASE SchedLock \/ SchedLoad \/ SchedUnlockEmpty \/ SchedWait \/ SchedRelock
  <2>1. /\ UNCHANGED <<pc, op, srn, exec, ret, runs, dropped, bufs, pending>>
        /\ wpc \notin {"unlock", "run"} /\ wpc' \notin {"unlock", "run"}
    BY <1>2 DEF SchedLock, SchedLoad, SchedUnlockEmpty, SchedWait, SchedRelock
  <2>2. Linked' = Linked
    BY <2>1 DEF Linked
  <2>. QED BY <2>1, <2>2, JobsIdle
<1>3. CASE SchedPut
  <2>1. /\ UNCHANGED <<pc, op, srn, exec, ret, runs, dropped, bufs, pending>>
        /\ wpc \notin {"unlock", "run"} /\ wpc' \notin {"unlock", "run"}
    BY <1>3 DEF SchedPut
  <2>2. Linked' = Linked
    BY <2>1 DEF Linked
  <2>. QED BY <2>1, <2>2, JobsIdle
<1>4. CASE SchedDel
  <2>1. wpc = "del" /\ pending # <<>> /\ rn = Head(pending) /\ nextp = SecondOf(pending)
    BY <1>1, <1>4 DEF SchedDel, Loaded
  <2>2. /\ ListDelFirst(pending, nextp) = Tail(pending)
        /\ nextp # Nil => nextp \in ToSet(pending)
    BY <1>1, <2>1, ListDelFirstIsTail, NodesFacts DEF Apart
  <2>3. /\ pending' = Tail(pending) /\ wpc' = "unlock" /\ rn' = rn /\ fn' = exec[rn]
        /\ UNCHANGED <<pc, op, srn, exec, ret, runs, dropped, bufs>>
    BY <1>4, <2>2 DEF SchedDel
  <2>4. ToSet(pending') = ToSet(pending) \ {rn} /\ rn \in ToSet(pending)
    BY <1>1, <2>1, <2>3, RemoveFirstNode, NodesFacts DEF Apart
  <2>5. Linked' = Linked
    BY <2>1, <2>3, <2>4 DEF Linked
  <2>. QED BY <2>3, <2>5, JobsIdle
<1>5. CASE SchedUnlock
  <2>1. /\ UNCHANGED <<pc, op, srn, exec, ret, runs, dropped, bufs, pending, rn, fn>>
        /\ wpc = "unlock" /\ wpc' = "run"
    BY <1>5 DEF SchedUnlock
  <2>2. Linked' = Linked /\ fn' = exec[rn']
    BY <1>1, <2>1 DEF Linked, Carries
  <2>. QED BY <2>1, <2>2, JobsIdle
<1>6. CASE SchedRun
  BY <1>1, <1>6, JobsRun
<1>7. CASE SchedCancelled
  BY <1>7 DEF SchedCancelled, Quiet
<1>. QED BY <1>2, <1>3, <1>4, <1>5, <1>6, <1>7 DEF Sched

LEMMA JobsInit == Init => JobsInv
<1> SUFFICES ASSUME Init PROVE JobsInv
  OBVIOUS
<1>1. /\ pending = <<>> /\ wpc = "start" /\ pc = [t \in Threads |-> "idle"]
      /\ op = [t \in Threads |-> NoJob] /\ ret = [j \in Jobs |-> "none"]
      /\ runs = [j \in Jobs |-> 0] /\ dropped = {} /\ bufs = {}
  BY DEF Init
<1>2. Linked = {}
  <2>1. <<>> \in Seq(Nodes)
    BY EmptySeq
  <2>2. ToSet(<<>>) = {}
    BY <2>1, ListFacts
  <2>. QED BY <1>1, <2>2 DEF Linked
<1>3. WaitingJobs = {}
  BY <1>2 DEF WaitingJobs
<1>4. \A j \in Jobs : ~Accepted(j)
  BY <1>1 DEF Accepted
<1>5. Calls
  BY <1>1, JobsAssumption DEF Calls
<1>6. Carries
  BY <1>1, <1>2 DEF Carries
<1>7. Account
  BY <1>1, <1>3, <1>4 DEF Account
<1>8. Copies
  BY <1>1, <1>2 DEF Copies, PreLink
<1>. QED BY <1>5, <1>6, <1>7, <1>8 DEF JobsInv

QueueInv == WakeInv /\ NodesInv /\ JobsInv

LEMMA QueueNext == QueueInv /\ [Next]_vars => QueueInv'
<1> SUFFICES ASSUME WakeInv, NodesInv, JobsInv, [Next]_vars PROVE QueueInv'
  BY DEF QueueInv
<1>1. WakeInv' /\ NodesInv'
  BY WakeNext, NodesNext
<1>2. ASSUME Quiet' PROVE JobsInv'
  <2>1. Quiet
    BY <1>2, QuietBefore
  <2>2. ASSUME NEW t \in Threads, Client(t) PROVE JobsInv'
    BY <2>1, <2>2, JobsClient
  <2>3. CASE Sched
    BY <1>2, <2>1, <2>3, JobsSched
  <2>4. CASE Cancel \/ UNCHANGED vars
    <3>1. UNCHANGED <<pending, pc, op, srn, exec, ret, runs, dropped, bufs, wpc, rn, fn>>
      BY <2>4 DEF Cancel, vars, lists, clients, worker, ledger
    <3>2. Linked' = Linked /\ (wpc' \in {"unlock", "run"} => fn' = exec[rn'])
      BY <2>1, <3>1 DEF Linked, JobsInv, Carries
    <3>. QED BY <2>1, <3>1, <3>2, JobsIdle
  <2>. QED BY <2>2, <2>3, <2>4 DEF Next
<1>3. JobsInv'
  BY <1>2 DEF JobsInv
<1>. QED BY <1>1, <1>3 DEF QueueInv

LEMMA QueueAlways == Spec => []QueueInv
<1>1. Init => QueueInv
  BY WakeInit, NodesInit, JobsInit DEF QueueInv
<1>. QED BY <1>1, QueueNext, PTL DEF Spec

\* What the service thread is about to run is what the linked nodes carry.
LEMMA WaitingIs ==
  ASSUME QueueInv, Quiet
  PROVE  Waiting = WaitingJobs
<1>1. Loaded /\ TypeInv /\ Apart
  BY DEF QueueInv, NodesInv, WakeInv
<1>2. wpc = "del" => rn \in ToSet(pending)
  BY <1>1, NodesFacts, RemoveFirstNode DEF Loaded, Apart
<1>3. WaitingJobs = {exec[n] : n \in ToSet(pending)}
                    \cup (IF wpc \in {"unlock", "run"} THEN {exec[rn]} ELSE {})
  BY DEF WaitingJobs, Linked
<1>4. wpc = "del" => exec[rn] \in {exec[n] : n \in ToSet(pending)}
  BY <1>2
<1>. QED BY <1>3, <1>4 DEF Waiting

\* Until a race, a job that _rq_submit accepted with 0 is waiting, has run once
\* or was discarded by _rq_reset, and one refused with -EBUSY never runs.
THEOREM JobsAccounted == Spec => []JobAccounting
<1>1. QueueInv => JobAccounting
  <2> SUFFICES ASSUME QueueInv, Quiet, NEW j \in Jobs
               PROVE  /\ ret[j] = "ok" =>
                           \/ j \in Waiting /\ runs[j] = 0 /\ j \notin dropped
                           \/ j \notin Waiting /\ runs[j] = 1 /\ j \notin dropped
                           \/ j \notin Waiting /\ runs[j] = 0 /\ j \in dropped
                      /\ ret[j] = "EBUSY" => j \notin Waiting /\ runs[j] = 0
    BY DEF JobAccounting, Quiet
  <2>1. Calls /\ Account
    BY DEF QueueInv, JobsInv
  <2>2. ret[j] = "EBUSY" => ~Accepted(j)
    BY <2>1 DEF Calls, Accepted
  <2>3. ret[j] = "ok" => Accepted(j)
    BY DEF Accepted
  <2>. QED BY <2>1, <2>2, <2>3, WaitingIs DEF Account
<1>. QED BY <1>1, QueueAlways, PTL

\* Until a race, no copy that _rq_submit_with_copy allocated outlives its job,
\* unless a reset discarded the job.
THEOREM CopiesFreed == Spec => []BufferLifetime
<1>1. QueueInv => BufferLifetime
  <2> SUFFICES ASSUME QueueInv, Quiet, NEW j \in bufs
               PROVE  \/ \E t \in Threads : op[t] = j
                      \/ j \in Waiting /\ runs[j] = 0
                      \/ j \in dropped
    BY DEF BufferLifetime, Quiet
  <2>1. Copies
    BY DEF QueueInv, JobsInv
  <2>. QED BY <2>1, WaitingIs DEF Copies
<1>. QED BY <1>1, QueueAlways, PTL

\* Until a race, the copy that exec_adaptor_cb hands to its function has not
\* been freed.
THEOREM CopiesLive == Spec => []NoUseAfterFree
<1>1. QueueInv => NoUseAfterFree
  <2> SUFFICES ASSUME QueueInv, ~raced, wpc = "run", exec[rn] \in Copied PROVE exec[rn] \in bufs
    BY DEF NoUseAfterFree
  <2>1. Copies /\ rn \in Linked
    BY DEF QueueInv, JobsInv, Quiet, Linked
  <2>. QED BY <2>1 DEF Copies
<1>. QED BY <1>1, QueueAlways, PTL


=============================================================================
