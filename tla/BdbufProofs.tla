---------------------------- MODULE BdbufProofs ----------------------------
(***************************************************************************)
(* Proofs about the block buffer cache for every number of tasks, workers, *)
(* devices, groups and buffers: its chains, its tree, the states and users *)
(* of its buffers and groups, its assertions, and the state diagram.       *)
(***************************************************************************)
EXTENDS Bdbuf, SequenceTheorems, FiniteSetTheorems, TLAPS

(* Lists of the C code as sequences: their length, the nodes on them, and that
   no node is linked twice. *)

\* The nodes on a list, and what it means that none is on it twice.
LEMMA ListFacts ==
  ASSUME NEW S, NEW s \in Seq(S)
  PROVE  /\ Len(s) \in Nat
         /\ \A k \in 1..Len(s) : s[k] \in S /\ s[k] \in ToSet(s)
         /\ \A x \in ToSet(s) : x \in S /\ \E k \in 1..Len(s) : s[k] = x
         /\ s = <<>> <=> Len(s) = 0
         /\ s = <<>> <=> ToSet(s) = {}
         /\ IsInjective(s) <=> \A k, l \in 1..Len(s) : s[k] = s[l] => k = l
<1>1. Len(s) \in Nat /\ DOMAIN s = 1..Len(s)
  BY LenProperties
<1>2. \A k \in 1..Len(s) : s[k] \in S /\ s[k] \in ToSet(s)
  BY <1>1, ElementOfSeq DEF ToSet
<1>3. \A x \in ToSet(s) : x \in S /\ \E k \in 1..Len(s) : s[k] = x
  BY <1>1, <1>2 DEF ToSet
<1>4. s = <<>> <=> Len(s) = 0
  BY EmptySeq
<1>5. s = <<>> <=> ToSet(s) = {}
  <2>1. ASSUME Len(s) # 0 PROVE ToSet(s) # {}
    <3>1. 1 \in 1..Len(s)
      BY <1>1, <2>1
    <3>. QED BY <1>2, <3>1
  <2>2. ASSUME Len(s) = 0 PROVE ToSet(s) = {}
    <3>1. 1..Len(s) = {}
      BY <2>2
    <3>. QED BY <1>3, <3>1
  <2>. QED BY <1>4, <2>1, <2>2
<1>6. IsInjective(s) <=> \A k, l \in 1..Len(s) : s[k] = s[l] => k = l
  BY <1>1 DEF IsInjective
<1>. QED BY <1>1, <1>2, <1>3, <1>4, <1>5, <1>6

\* list_add_tail: a node that is not on the list is on it once.
LEMMA AppendNode ==
  ASSUME NEW S, NEW s \in Seq(S), NEW x \in S
  PROVE  /\ Append(s, x) \in Seq(S) /\ Len(Append(s, x)) = Len(s) + 1
         /\ \A k \in 1..Len(s) : Append(s, x)[k] = s[k]
         /\ Append(s, x)[Len(s) + 1] = x
         /\ ToSet(Append(s, x)) = ToSet(s) \cup {x}
         /\ IsInjective(s) /\ x \notin ToSet(s) => IsInjective(Append(s, x))
<1> DEFINE r == Append(s, x)
<1>1. /\ r \in Seq(S) /\ Len(r) = Len(s) + 1 /\ r[Len(s) + 1] = x
      /\ \A k \in 1..Len(s) : r[k] = s[k]
  BY AppendProperties
<1> HIDE DEF r
<1>2. Len(s) \in Nat
  BY LenProperties
<1>3. ToSet(r) = ToSet(s) \cup {x}
  <2>1. ASSUME NEW y \in ToSet(r) PROVE y \in ToSet(s) \cup {x}
    <3>1. PICK k \in 1..Len(r) : r[k] = y
      BY <1>1, ListFacts
    <3>2. k \in 1..Len(s) \/ k = Len(s) + 1
      BY <1>1, <1>2
    <3>. QED BY <1>1, <3>1, <3>2, ListFacts
  <2>2. ASSUME NEW y \in ToSet(s) PROVE y \in ToSet(r)
    <3>1. PICK k \in 1..Len(s) : s[k] = y
      BY ListFacts
    <3>2. k \in 1..Len(r) /\ r[k] = y
      BY <1>1, <1>2, <3>1
    <3>. QED BY <1>1, <3>2, ListFacts
  <2>3. x \in ToSet(r)
    <3>1. Len(s) + 1 \in 1..Len(r)
      BY <1>1, <1>2
    <3>. QED BY <1>1, <3>1, ListFacts
  <2>. QED BY <2>1, <2>2, <2>3
<1>4. ASSUME IsInjective(s), x \notin ToSet(s) PROVE IsInjective(r)
  <2>1. ASSUME NEW k \in 1..Len(r), NEW l \in 1..Len(r), r[k] = r[l] PROVE k = l
    <3>1. /\ k \in 1..Len(s) \/ k = Len(s) + 1
          /\ l \in 1..Len(s) \/ l = Len(s) + 1
      BY <1>1, <1>2
    <3>2. \A m \in 1..Len(s) : s[m] # x
      BY <1>4, ListFacts
    <3>3. \A m, n \in 1..Len(s) : s[m] = s[n] => m = n
      BY <1>4, ListFacts
    <3>. QED BY <1>1, <2>1, <3>1, <3>2, <3>3
  <2>. QED BY <1>1, <2>1, ListFacts
<1>. QED BY <1>1, <1>3, <1>4 DEF r

\* list_del of the first node.
LEMMA RemoveFirstNode ==
  ASSUME NEW S, NEW s \in Seq(S), IsInjective(s), s # <<>>
  PROVE  /\ Tail(s) \in Seq(S) /\ IsInjective(Tail(s))
         /\ Len(Tail(s)) = Len(s) - 1 /\ 1 \in 1..Len(s) /\ Head(s) = s[1]
         /\ \A k \in 1..(Len(s) - 1) : Tail(s)[k] = s[k + 1]
         /\ ToSet(Tail(s)) = ToSet(s) \ {Head(s)} /\ Head(s) \in ToSet(s)
<1> DEFINE r == Tail(s)
<1>1. /\ Len(s) \in Nat /\ 1 \in 1..Len(s) /\ s[1] \in ToSet(s)
      /\ \A k, l \in 1..Len(s) : s[k] = s[l] => k = l
  BY ListFacts
<1>2. /\ r \in Seq(S) /\ Len(r) = Len(s) - 1
      /\ \A k \in 1..(Len(s) - 1) : r[k] = s[k + 1]
  BY HeadTailProperties
<1>3. Head(s) = s[1]
  OBVIOUS
<1> HIDE DEF r
<1>4. IsInjective(r)
  <2>1. ASSUME NEW k \in 1..Len(r), NEW l \in 1..Len(r), r[k] = r[l] PROVE k = l
    <3>1. k + 1 \in 1..Len(s) /\ l + 1 \in 1..Len(s)
      BY <1>1, <1>2
    <3>2. k + 1 = l + 1
      BY <1>1, <1>2, <2>1, <3>1
    <3>. QED BY <3>2
  <2>. QED BY <1>2, <2>1, ListFacts
<1>5. ASSUME NEW x \in ToSet(r) PROVE x \in ToSet(s) \ {s[1]}
  <2>1. PICK k \in 1..Len(r) : r[k] = x
    BY <1>2, ListFacts
  <2>2. k + 1 \in 1..Len(s) /\ s[k + 1] = x /\ k + 1 # 1
    BY <1>1, <1>2, <2>1
  <2>. QED BY <1>1, <2>2, ListFacts
<1>6. ASSUME NEW x \in ToSet(s) \ {s[1]} PROVE x \in ToSet(r)
  <2>1. PICK k \in 1..Len(s) : s[k] = x
    BY ListFacts
  <2>2. k - 1 \in 1..Len(r) /\ r[k - 1] = x
    BY <1>1, <1>2, <2>1
  <2>. QED BY <1>2, <2>2, ListFacts
<1>7. ToSet(r) = ToSet(s) \ {s[1]}
  BY <1>5, <1>6
<1>8. ToSet(r) = ToSet(s) \ {Head(s)} /\ Head(s) \in ToSet(s)
  BY <1>1, <1>3, <1>7, Zenon
<1>. QED BY <1>1, <1>2, <1>3, <1>4, <1>8, Zenon DEF r

\* list_splice: the nodes of both lists, once each.
LEMMA SpliceLists ==
  ASSUME NEW S, NEW s \in Seq(S), NEW r \in Seq(S)
  PROVE  /\ s \o r \in Seq(S) /\ Len(s \o r) = Len(s) + Len(r)
         /\ ToSet(s \o r) = ToSet(s) \cup ToSet(r)
         /\ IsInjective(s) /\ IsInjective(r) /\ ToSet(s) \cap ToSet(r) = {} => IsInjective(s \o r)
<1> DEFINE q == s \o r
<1>1. /\ q \in Seq(S) /\ Len(q) = Len(s) + Len(r)
      /\ \A k \in 1..Len(s) + Len(r) : q[k] = IF k <= Len(s) THEN s[k] ELSE r[k - Len(s)]
  BY ConcatProperties
<1> HIDE DEF q
<1>2. Len(s) \in Nat /\ Len(r) \in Nat
  BY LenProperties
<1>3. ASSUME NEW k \in 1..Len(q)
      PROVE  \/ k \in 1..Len(s) /\ q[k] = s[k]
             \/ k - Len(s) \in 1..Len(r) /\ q[k] = r[k - Len(s)]
  BY <1>1, <1>2
<1>4. ToSet(q) = ToSet(s) \cup ToSet(r)
  <2>1. ASSUME NEW x \in ToSet(q) PROVE x \in ToSet(s) \cup ToSet(r)
    <3>1. PICK k \in 1..Len(q) : q[k] = x
      BY <1>1, ListFacts
    <3>2. CASE k \in 1..Len(s) /\ q[k] = s[k]
      BY <3>1, <3>2, ListFacts
    <3>3. CASE k - Len(s) \in 1..Len(r) /\ q[k] = r[k - Len(s)]
      BY <3>1, <3>3, ListFacts
    <3>. QED BY <1>3, <3>2, <3>3
  <2>2. ASSUME NEW x \in ToSet(s) PROVE x \in ToSet(q)
    <3>1. PICK k \in 1..Len(s) : s[k] = x
      BY ListFacts
    <3>2. k \in 1..Len(q) /\ q[k] = x
      BY <1>1, <1>2, <3>1
    <3>. QED BY <1>1, <3>2, ListFacts
  <2>3. ASSUME NEW x \in ToSet(r) PROVE x \in ToSet(q)
    <3>1. PICK k \in 1..Len(r) : r[k] = x
      BY ListFacts
    <3> DEFINE j == k + Len(s)
    <3>2. j \in 1..(Len(s) + Len(r)) /\ ~(j <= Len(s)) /\ j - Len(s) = k
      BY <1>2, <3>1
    <3> HIDE DEF j
    <3>3. j \in 1..Len(q) /\ q[j] = x
      BY <1>1, <3>1, <3>2
    <3>. QED BY <1>1, <3>3, ListFacts
  <2>. QED BY <2>1, <2>2, <2>3
<1>5. ASSUME IsInjective(s), IsInjective(r), ToSet(s) \cap ToSet(r) = {} PROVE IsInjective(q)
  <2>1. \A k, l \in 1..Len(s) : s[k] = s[l] => k = l
    BY <1>5, ListFacts
  <2>2. \A k, l \in 1..Len(r) : r[k] = r[l] => k = l
    BY <1>5, ListFacts
  <2>3. \A k \in 1..Len(s), l \in 1..Len(r) : s[k] # r[l]
    <3>1. (\A k \in 1..Len(s) : s[k] \in ToSet(s)) /\ (\A l \in 1..Len(r) : r[l] \in ToSet(r))
      BY ListFacts
    <3>. QED BY <1>5, <3>1
  <2>4. ASSUME NEW k \in 1..Len(q), NEW l \in 1..Len(q), q[k] = q[l] PROVE k = l
    <3>1. /\ \/ k \in 1..Len(s) /\ q[k] = s[k]
             \/ k - Len(s) \in 1..Len(r) /\ q[k] = r[k - Len(s)]
          /\ \/ l \in 1..Len(s) /\ q[l] = s[l]
             \/ l - Len(s) \in 1..Len(r) /\ q[l] = r[l - Len(s)]
      BY <1>3
    <3>2. CASE k - Len(s) \in 1..Len(r) /\ l - Len(s) \in 1..Len(r)
      <4>1. k \notin 1..Len(s) /\ l \notin 1..Len(s)
        BY <1>2, <3>2
      <4>2. k - Len(s) = l - Len(s)
        BY <2>2, <2>4, <3>1, <3>2, <4>1
      <4>. QED BY <1>1, <1>2, <4>2
    <3>. QED BY <2>1, <2>3, <2>4, <3>1, <3>2
  <2>. QED BY <1>1, <2>4, ListFacts
<1>. QED BY <1>1, <1>4, <1>5 DEF q

\* list_add: a node that is not on the list is on it once.
LEMMA PrependNode ==
  ASSUME NEW S, NEW s \in Seq(S), NEW x \in S
  PROVE  /\ <<x>> \o s \in Seq(S) /\ Len(<<x>> \o s) = Len(s) + 1
         /\ ToSet(<<x>> \o s) = ToSet(s) \cup {x}
         /\ IsInjective(s) /\ x \notin ToSet(s) => IsInjective(<<x>> \o s)
<1>1. <<x>> \in Seq(S) /\ Len(<<x>>) = 1 /\ Len(s) \in Nat
  BY LenProperties
<1>2. ToSet(<<x>>) = {x} /\ IsInjective(<<x>>)
  <2>1. \A k \in 1..Len(<<x>>) : k = 1 /\ <<x>>[k] = x
    BY <1>1
  <2>2. 1 \in 1..Len(<<x>>)
    BY <1>1
  <2> DEFINE q == <<x>>
  <2>3. q \in Seq(S) /\ 1 \in 1..Len(q) /\ \A k \in 1..Len(q) : k = 1 /\ q[k] = x
    BY <1>1, <2>1, <2>2
  <2> HIDE DEF q
  <2>4. ToSet(q) = {x}
    BY <2>3, ListFacts
  <2>5. IsInjective(q)
    BY <2>3, ListFacts
  <2>. QED BY <2>4, <2>5 DEF q
<1>3. x \notin ToSet(s) => ToSet(<<x>>) \cap ToSet(s) = {}
  BY <1>2
<1>4. /\ <<x>> \o s \in Seq(S) /\ Len(<<x>> \o s) = Len(<<x>>) + Len(s)
      /\ ToSet(<<x>> \o s) = ToSet(<<x>>) \cup ToSet(s)
      /\ IsInjective(<<x>>) /\ IsInjective(s) /\ ToSet(<<x>>) \cap ToSet(s) = {}
           => IsInjective(<<x>> \o s)
  BY <1>1, SpliceLists
<1>. QED BY <1>1, <1>2, <1>3, <1>4

\* s is a chain of nodes of T: each member of X is on it once, and nothing else.
IsList(T, s, X) == s \in Seq(T) /\ IsInjective(s) /\ ToSet(s) = X

\* Counting those before it gives every element of a set a place of its own.
LEMMA InOrderFacts ==
  ASSUME NEW S, S \subseteq Int, IsFiniteSet(S), NEW key \in [S -> Int]
  PROVE  /\ Cardinality(S) \in Nat
         /\ InOrder(S, key) \in [1..Cardinality(S) -> S]
         /\ IsInjective(InOrder(S, key))
         /\ \A x \in S : \E k \in 1..Cardinality(S) : InOrder(S, key)[k] = x
<1> DEFINE D(x) == {y \in S : key[y] < key[x] \/ (key[y] = key[x] /\ y <= x)}
           r == [x \in S |-> Cardinality(D(x))]
           n == Cardinality(S)
<1>1. \A x \in S : IsFiniteSet(D(x)) /\ Cardinality(D(x)) \in Nat /\ Cardinality(D(x)) <= n
  <2>1. TAKE x \in S
  <2>2. D(x) \in SUBSET S
    OBVIOUS
  <2> HIDE DEF D
  <2>. QED BY <2>2, FS_Subset, FS_CardinalityType
<1>2. n \in Nat
  BY FS_CardinalityType
<1>3. \A x \in S : Cardinality(D(x)) \in 1..n
  <2>1. TAKE x \in S
  <2>2. x \in D(x)
    OBVIOUS
  <2> HIDE DEF D
  <2>3. Cardinality(D(x)) # 0
    BY <2>2, <1>1, FS_EmptySet
  <2>. QED BY <2>3, <1>1, <1>2
<1>4. ASSUME NEW x \in S, NEW y \in S, x # y, Cardinality(D(x)) = Cardinality(D(y))
      PROVE  FALSE
  <2>1. ASSUME NEW a \in S, NEW b \in S, key[a] < key[b] \/ (key[a] = key[b] /\ a < b),
               Cardinality(D(a)) = Cardinality(D(b))
        PROVE  FALSE
    <3>0. a \in Int /\ b \in Int /\ key[a] \in Int /\ key[b] \in Int
      OBVIOUS
    <3>1. ASSUME NEW z \in D(a) PROVE z \in D(b)
      <4>1. z \in S /\ z \in Int /\ key[z] \in Int
        OBVIOUS
      <4>. QED BY <4>1, <3>0, <2>1
    <3>2. b \in D(b) /\ b \notin D(a)
      BY <2>1, <3>0
    <3> HIDE DEF D
    <3>3. D(a) \in SUBSET D(b) /\ D(a) # D(b)
      BY <3>1, <3>2
    <3>. QED BY <3>3, <1>1, <2>1, FS_Subset
  <2>2. key[x] \in Int /\ key[y] \in Int /\ x \in Int /\ y \in Int
    OBVIOUS
  <2>3. \/ key[x] < key[y] \/ (key[x] = key[y] /\ x < y)
        \/ key[y] < key[x] \/ (key[y] = key[x] /\ y < x)
    BY <2>2, <1>4
  <2> HIDE DEF D
  <2>. QED BY <2>1, <2>3, <1>4
<1>5. r \in Injection(S, 1..n)
  <2>1. r \in [S -> 1..n]
    BY <1>3
  <2>2. \A x, y \in S : r[x] = r[y] => x = y
    BY <1>4
  <2> HIDE DEF r
  <2>. QED BY <2>1, <2>2 DEF Injection, IsInjective
<1>6. r \in Surjection(S, 1..n)
  <2>1. IsFiniteSet(1..n) /\ Cardinality(1..n) = n
    BY <1>2, FS_Interval
  <2> HIDE DEF r
  <2>. QED BY <2>1, <1>5, FS_Injection
<1>7. \A k \in 1..n : \E x \in S : Cardinality(D(x)) = k
  <2>1. \A k \in 1..n : \E x \in S : r[x] = k
    <3> HIDE DEF r
    <3>. QED BY <1>6 DEF Surjection
  <2>. QED BY <2>1
<1> DEFINE o == InOrder(S, key)
<1>8. o = [k \in 1..n |-> CHOOSE x \in S : Cardinality(D(x)) = k]
  BY DEF InOrder
<1>9. \A k \in 1..n : o[k] \in S /\ Cardinality(D(o[k])) = k
  <2> HIDE DEF D, n
  <2>. QED BY <1>7, <1>8
<1>10. o \in [1..n -> S]
  <2> HIDE DEF D, n
  <2>. QED BY <1>8, <1>9
<1> HIDE DEF o
<1>11. IsInjective(o)
  <2>1. DOMAIN o = 1..n
    BY <1>10
  <2> HIDE DEF D, n
  <2>. QED BY <2>1, <1>9 DEF IsInjective
<1>12. ASSUME NEW x \in S PROVE \E k \in 1..n : o[k] = x
  <2>1. Cardinality(D(x)) \in 1..n
    BY <1>3
  <2>2. o[Cardinality(D(x))] \in S /\ Cardinality(D(o[Cardinality(D(x))])) = Cardinality(D(x))
    BY <2>1, <1>9
  <2> HIDE DEF D
  <2>3. o[Cardinality(D(x))] = x
    BY <2>2, <1>4
  <2>. QED BY <2>1, <2>3
<1>. QED BY <1>2, <1>10, <1>11, <1>12 DEF o

\* A chain made of a set of numbers by their order.
LEMMA OrderedList ==
  ASSUME NEW S, S \subseteq Int, IsFiniteSet(S), NEW T, S \subseteq T, NEW key \in [S -> Int]
  PROVE  IsList(T, InOrder(S, key), S)
<1> DEFINE o == InOrder(S, key)
           n == Cardinality(S)
<1>1. /\ n \in Nat /\ o \in [1..n -> S] /\ IsInjective(o)
      /\ \A x \in S : \E k \in 1..n : o[k] = x
  BY InOrderFacts, ZenonT(60)
<1> HIDE DEF o, n
<1>2. o \in Seq(T)
  <2>1. \A k \in 1..n : o[k] \in T
    BY <1>1
  <2>2. o \in [1..n -> T]
    BY <1>1, <2>1
  <2>. QED BY <1>1, <2>2, SeqDef
<1>3. ToSet(o) = S
  BY <1>1 DEF ToSet
<1>. QED BY <1>1, <1>2, <1>3 DEF IsList, o

\* Extracting nodes keeps the others, each once.
LEMMA OnlyFacts ==
  ASSUME NEW T, NEW X, NEW s, IsList(T, s, X), NEW S
  PROVE  IsList(T, Only(s, S), X \cap S)
<1> DEFINE I == Places(s, S)
           n == Cardinality(I)
           o == Ascending(I)
           q == Only(s, S)
<1>1. s \in Seq(T) /\ Len(s) \in Nat /\ DOMAIN s = 1..Len(s) /\ ToSet(s) = X /\ IsInjective(s)
      /\ \A i \in 1..Len(s) : s[i] \in T
  BY LenProperties, ElementOfSeq DEF IsList
<1>2. I \subseteq 1..Len(s) /\ \A i \in 1..Len(s) : i \in I <=> s[i] \in S
  BY <1>1 DEF Places
<1>3. I \subseteq Int /\ IsFiniteSet(I)
  <2>1. 1 \in Int /\ Len(s) \in Int /\ 1..Len(s) \subseteq Int
    BY <1>1
  <2>2. IsFiniteSet(1..Len(s))
    BY <2>1, FS_Interval, Zenon
  <2> HIDE DEF I
  <2>. QED BY <2>1, <2>2, <1>2, FS_Subset
<1>4. q = [k \in 1..n |-> s[o[k]]]
  BY DEF Only
<1> HIDE DEF I, q, n
<1>5. /\ n \in Nat /\ o \in [1..n -> I] /\ IsInjective(o)
      /\ \A x \in I : \E k \in 1..n : o[k] = x
  <2>1. [x \in I |-> x] \in [I -> Int]
    BY <1>3
  <2>. QED BY <1>3, <2>1, InOrderFacts, ZenonT(60) DEF Ascending, n
<1> HIDE DEF o
<1>6. \A k \in 1..n : o[k] \in 1..Len(s) /\ s[o[k]] \in S /\ s[o[k]] \in T /\ q[k] = s[o[k]]
  BY <1>1, <1>2, <1>4, <1>5
<1>7. q \in Seq(T) /\ DOMAIN q = 1..n
  BY <1>4, <1>5, <1>6, SeqDef
<1>8. IsInjective(q)
  <2>1. ASSUME NEW k \in 1..n, NEW l \in 1..n, q[k] = q[l] PROVE k = l
    <3>1. o[k] = o[l]
      BY <2>1, <1>1, <1>6 DEF IsInjective
    <3>. QED BY <3>1, <1>5 DEF IsInjective
  <2>. QED BY <2>1, <1>7 DEF IsInjective
<1>9. ASSUME NEW x PROVE x \in ToSet(q) <=> x \in X \cap S
  <2>1. ASSUME x \in ToSet(q) PROVE x \in X \cap S
    <3>1. PICK k \in 1..n : q[k] = x
      BY <2>1, <1>7 DEF ToSet
    <3>. QED BY <3>1, <1>1, <1>6 DEF ToSet
  <2>2. ASSUME x \in X \cap S PROVE x \in ToSet(q)
    <3>1. PICK i \in 1..Len(s) : s[i] = x
      BY <2>2, <1>1 DEF ToSet
    <3>2. PICK k \in 1..n : o[k] = i
      BY <2>2, <3>1, <1>2, <1>5
    <3>. QED BY <3>1, <3>2, <1>6, <1>7 DEF ToSet
  <2>. QED BY <2>1, <2>2
<1>. QED BY <1>7, <1>8, <1>9 DEF IsList, q

\* rtems_chain_extract_unprotected on the buffers of S leaves a list of the others.
LEMMA WithoutFacts ==
  ASSUME NEW T, NEW X, NEW s, IsList(T, s, X), NEW S
  PROVE  IsList(T, Without(s, S), X \ S)
<1>1. IsList(T, Only(s, ToSet(s) \ S), X \cap (ToSet(s) \ S))
  BY OnlyFacts
<1>2. X \cap (ToSet(s) \ S) = X \ S
  BY DEF IsList
<1>. QED BY <1>1, <1>2 DEF Without

\* The write list, filled at its head, is a list of the same buffers.
LEMMA ReverseFacts ==
  ASSUME NEW T, NEW X, NEW s, IsList(T, s, X)
  PROVE  IsList(T, Reverse(s), X)
<1> DEFINE q == Reverse(s)
           n == Len(s)
<1>1. s \in Seq(T) /\ n \in Nat /\ DOMAIN s = 1..n /\ ToSet(s) = X /\ IsInjective(s)
      /\ \A i \in 1..n : s[i] \in T
  BY LenProperties, ElementOfSeq DEF IsList
<1>2. q = [i \in 1..n |-> s[(n - i) + 1]]
  BY DEF Reverse
<1> HIDE DEF q, n
<1>3. \A i \in 1..n : (n - i) + 1 \in 1..n /\ q[i] = s[(n - i) + 1] /\ q[(n - i) + 1] = s[i]
  <2>1. \A i \in 1..n : (n - i) + 1 \in 1..n /\ (n - ((n - i) + 1)) + 1 = i
    BY <1>1
  <2>. QED BY <2>1, <1>2
<1>4. q \in Seq(T) /\ DOMAIN q = 1..n
  <2>1. q \in [1..n -> T]
    BY <1>1, <1>2, <1>3
  <2>. QED BY <2>1, <1>1, SeqDef
<1>5. IsInjective(q)
  <2>1. ASSUME NEW k \in 1..n, NEW l \in 1..n, q[k] = q[l] PROVE k = l
    <3>1. (n - k) + 1 = (n - l) + 1
      BY <2>1, <1>1, <1>3 DEF IsInjective
    <3>. QED BY <3>1, <1>1
  <2>. QED BY <2>1, <1>4 DEF IsInjective
<1>6. ToSet(q) = X
  <2>1. \A i \in 1..n : \E k \in 1..n : q[k] = s[i]
    BY <1>3
  <2>2. \A i \in 1..n : \E k \in 1..n : s[k] = q[i]
    BY <1>3
  <2>3. X = {s[i] : i \in 1..n} /\ ToSet(q) = {q[i] : i \in 1..n}
    BY <1>1, <1>4 DEF ToSet
  <2>4. ASSUME NEW x PROVE x \in X <=> x \in ToSet(q)
    <3>1. x \in X <=> \E i \in 1..n : s[i] = x
      BY <2>3
    <3>2. x \in ToSet(q) <=> \E i \in 1..n : q[i] = x
      BY <2>3
    <3>. QED BY <3>1, <3>2, <2>1, <2>2
  <2>. QED BY <2>4
<1>. QED BY <1>4, <1>5, <1>6 DEF IsList, q

\* The insertion of bdbuf.c:2565-2579 orders the write list and neither loses nor repeats a buffer.
LEMMA SortedFacts ==
  ASSUME NEW T, NEW X, NEW s, IsList(T, s, X), NEW key \in [DOMAIN s -> Int]
  PROVE  IsList(T, Sorted(s, key), X)
<1> DEFINE q == Sorted(s, key)
           n == Len(s)
           o == InOrder(1..n, key)
<1>1. s \in Seq(T) /\ n \in Nat /\ DOMAIN s = 1..n /\ ToSet(s) = X /\ IsInjective(s)
      /\ \A i \in 1..n : s[i] \in T
  BY LenProperties, ElementOfSeq DEF IsList
<1>2. q = [k \in 1..n |-> s[o[k]]]
  BY <1>1 DEF Sorted
<1> HIDE DEF q, n
<1>3. IsFiniteSet(1..n) /\ Cardinality(1..n) = n /\ 1..n \subseteq Int
  BY <1>1, FS_Interval
<1>4. /\ o \in [1..n -> 1..n] /\ IsInjective(o)
      /\ \A x \in 1..n : \E k \in 1..n : o[k] = x
  <2> DEFINE R == 1..n
  <2>1. key \in [R -> Int] /\ R \subseteq Int /\ IsFiniteSet(R)
    BY <1>1, <1>3
  <2>2. o = InOrder(R, key) /\ Cardinality(R) = n
    BY <1>3
  <2> HIDE DEF R, o
  <2>3. /\ InOrder(R, key) \in [1..Cardinality(R) -> R] /\ IsInjective(InOrder(R, key))
        /\ \A x \in R : \E k \in 1..Cardinality(R) : InOrder(R, key)[k] = x
    BY <2>1, InOrderFacts, ZenonT(60)
  <2>. QED BY <2>2, <2>3 DEF R
<1> HIDE DEF o
<1>5. q \in Seq(T) /\ DOMAIN q = 1..n
  <2>1. q \in [1..n -> T]
    BY <1>1, <1>2, <1>4
  <2>. QED BY <2>1, <1>1, SeqDef
<1>6. IsInjective(q)
  <2>1. ASSUME NEW k \in 1..n, NEW l \in 1..n, q[k] = q[l] PROVE k = l
    <3>1. o[k] = o[l]
      BY <2>1, <1>1, <1>2, <1>4 DEF IsInjective
    <3>. QED BY <3>1, <1>4 DEF IsInjective
  <2>. QED BY <2>1, <1>5 DEF IsInjective
<1>7. ToSet(q) = X
  <2>1. \A i \in 1..n : \E k \in 1..n : q[k] = s[i]
    BY <1>2, <1>4
  <2>2. \A i \in 1..n : \E k \in 1..n : s[k] = q[i]
    BY <1>2, <1>4
  <2>3. X = {s[i] : i \in 1..n} /\ ToSet(q) = {q[i] : i \in 1..n}
    BY <1>1, <1>5 DEF ToSet
  <2>4. ASSUME NEW x PROVE x \in X <=> x \in ToSet(q)
    <3>1. x \in X <=> \E i \in 1..n : s[i] = x
      BY <2>3
    <3>2. x \in ToSet(q) <=> \E i \in 1..n : q[i] = x
      BY <2>3
    <3>. QED BY <3>1, <3>2, <2>1, <2>2
  <2>. QED BY <2>4
<1>. QED BY <1>5, <1>6, <1>7 DEF IsList, q

\* list_add_tail, list_add and splicing, on chains without repetition.
LEMMA ListOps ==
  ASSUME NEW T, NEW X, NEW s, IsList(T, s, X)
  PROVE  /\ \A x \in T \ X : IsList(T, Append(s, x), X \cup {x}) /\ IsList(T, <<x>> \o s, X \cup {x})
         /\ \A r, Y : IsList(T, r, Y) /\ X \cap Y = {} => IsList(T, s \o r, X \cup Y)
         /\ s # <<>> => /\ Head(s) \in X /\ Head(s) = s[1]
                        /\ IsList(T, Tail(s), X \ {Head(s)})
         /\ (s = <<>>) <=> (X = {})
         /\ X \subseteq T
         /\ \A i \in 1..Len(s) : s[i] \in X
         /\ IsFiniteSet(X) /\ Cardinality(X) = Len(s)
<1>1. s \in Seq(T) /\ ToSet(s) = X /\ IsInjective(s)
  BY DEF IsList
<1>2. ASSUME NEW x \in T \ X
      PROVE  IsList(T, Append(s, x), X \cup {x}) /\ IsList(T, <<x>> \o s, X \cup {x})
  BY <1>1, AppendNode, PrependNode DEF IsList
<1>3. ASSUME NEW r, NEW Y, IsList(T, r, Y), X \cap Y = {}
      PROVE  IsList(T, s \o r, X \cup Y)
  BY <1>1, <1>3, SpliceLists DEF IsList
<1>4. ASSUME s # <<>>
      PROVE  /\ Head(s) \in X /\ Head(s) = s[1] /\ IsList(T, Tail(s), X \ {Head(s)})
  BY <1>1, <1>4, RemoveFirstNode DEF IsList
<1>5. /\ (s = <<>>) <=> (X = {})
      /\ X \subseteq T /\ \A i \in 1..Len(s) : s[i] \in X
      /\ Len(s) \in Nat /\ \A x \in X : \E k \in 1..Len(s) : s[k] = x
      /\ \A k, l \in 1..Len(s) : s[k] = s[l] => k = l
  BY <1>1, ListFacts
<1>6. IsFiniteSet(X) /\ Cardinality(X) = Len(s)
  <2>0. 1 \in Int /\ Len(s) \in Int
    BY <1>5
  <2>1. IsFiniteSet(1..Len(s)) /\ Cardinality(1..Len(s)) = Len(s)
    <3> DEFINE m == Len(s)
    <3>1. m \in Int /\ m \in Nat
      BY <1>5
    <3> HIDE DEF m
    <3>2. IsFiniteSet(1..m) /\ Cardinality(1..m) = IF 1 > m THEN 0 ELSE m - 1 + 1
      BY <3>1, <2>0, FS_Interval, Zenon
    <3>3. Cardinality(1..m) = m
      BY <3>1, <3>2
    <3>. QED BY <3>2, <3>3 DEF m
  <2>2. s \in [1..Len(s) -> X] /\ IsInjective(s)
    <3>1. DOMAIN s = 1..Len(s) /\ s = [i \in DOMAIN s |-> s[i]]
      BY <1>1, LenProperties
    <3>. QED BY <3>1, <1>1, <1>5
  <2>3. s \in Surjection(1..Len(s), X) /\ s \in Injection(1..Len(s), X)
    BY <2>2, <1>5 DEF Surjection, Injection
  <2>. QED BY <2>1, <2>3, FS_Surjection
<1>. QED BY <1>2, <1>3, <1>4, <1>5, <1>6

\* The empty list.
LEMMA NoNodes ==
  ASSUME NEW T PROVE IsList(T, <<>>, {})
<1>1. <<>> \in Seq(T) /\ Len(<<>>) = 0
  BY EmptySeq
<1>. QED BY <1>1, ListFacts DEF IsList

\* A list of one node.
LEMMA OneNode ==
  ASSUME NEW T, NEW x \in T PROVE IsList(T, <<x>>, {x})
<1>1. IsList(T, Append(<<>>, x), {} \cup {x})
  BY NoNodes, ListOps
<1>2. Append(<<>>, x) = <<x>>
  OBVIOUS
<1>. QED BY <1>1, <1>2

\* The orders in which a traversal may find the members of a finite set.
LEMMA SetToSeqsFacts ==
  ASSUME NEW T, NEW S \in SUBSET T, IsFiniteSet(S), NEW s \in SetToSeqs(S)
  PROVE  IsList(T, s, S)
<1> DEFINE n == Cardinality(S)
<1>1. n \in Nat /\ s \in [1..n -> S] /\ \A i, j \in 1..n : i # j => s[i] # s[j]
  BY FS_CardinalityType DEF SetToSeqs
<1>2. IsFiniteSet(1..n) /\ Cardinality(1..n) = n
  BY <1>1, FS_Interval
<1> HIDE DEF n
<1>3. IsInjective(s)
  BY <1>1 DEF IsInjective
<1>4. s \in Injection(1..n, S)
  BY <1>1, <1>3 DEF Injection
<1>5. s \in Surjection(1..n, S)
  BY <1>2, <1>4, FS_Injection DEF n
<1>6. ToSet(s) = S
  BY <1>1, <1>5 DEF ToSet, Surjection
<1>7. s \in Seq(T)
  <2>1. s \in [1..n -> T]
    BY <1>1
  <2>. QED BY <1>1, <2>1, SeqDef
<1>. QED BY <1>3, <1>6, <1>7 DEF IsList

\* The members of a finite set, one after the other, are a list of them.
LEMMA SetToSeqFacts ==
  ASSUME NEW S, IsFiniteSet(S)
  PROVE  IsList(S, SetToSeq(S), S)
<1> DEFINE n == Cardinality(S)
<1>1. n \in Nat /\ ExistsBijection(1..n, S)
  BY FS_CardinalityType
<1>2. \E f \in [1..n -> S] : IsInjective(f)
  BY <1>1 DEF ExistsBijection, Bijection, Injection
<1>3. SetToSeq(S) \in [1..n -> S] /\ IsInjective(SetToSeq(S))
  BY <1>2 DEF SetToSeq
<1>4. SetToSeq(S) \in SetToSeqs(S)
  BY <1>3 DEF SetToSeqs, IsInjective
<1>. QED BY <1>4, SetToSeqsFacts

BdRec == [state : States, dd : Devs \cup {NoDev}, block : Int, hold : Int,
          val : [0 .. MaxBdsPerGroup - 1 -> Int]]
BdFun == [Bds -> BdRec]
GroupFun == [Groups -> [bds_per_group : 1 .. MaxBdsPerGroup, users : Int]]
DevFun == [Devs -> [bds_per_group : 1 .. MaxBdsPerGroup, trigger : Int, next : Int,
                    nr_blocks : Int]]
DiskFun == [Devs -> [0 .. MediaBlocks - 1 -> Int]]
OwnPc == {"holding", "wantsync", "addmod"}
TaskPc == OwnPc \cup BdWait \cup {"idle", "reading", "buf", "search", "syncwait", "syncdone", "resize"}
TaskRec == [pc : TaskPc, op : {"none", "get", "read", "syncdev", "resize"}, dd : Devs \cup {NoDev},
            block : Int, media : Int, bd : Int, cv : {"none", "access", "transfer", "buffer"}]
TaskFun == [Tasks -> TaskRec]

\* What the variables hold.
TypeOK ==
    /\ bd \in BdFun /\ tree \in SUBSET Bds /\ group \in GroupFun /\ dev \in DevFun
    /\ disk \in DiskFun /\ task \in TaskFun
    /\ swap \in [pc : {"run", "write", "endsync", "wait", "einval"}, update : {swap.update}, bds : Seq(Bds)]
    /\ worker \in [Workers -> [pc : {"idle", "write", "back"}, bds : Seq(Bds)]]
    /\ free_workers \in Seq(Workers)
    /\ syncing \in [active : {syncing.active}, device : Devs \cup {NoDev},
                    requester : Tasks \cup {None}, lock : Tasks \cup {None}]
    /\ ahead \in [pc : {"wait", "run", "gather", "reading"}, sem : {ahead.sem}, chain : Seq(Devs),
                  dd : Devs \cup {NoDev}, count : {ahead.count}, req : Seq(Bds)]
    /\ hist \in [latest : {hist.latest}, lost : {hist.lost}, version : Int, orphan : {hist.orphan},
                 resized : {hist.resized}, pending : {hist.pending}, stale : {hist.stale}]

\* Buffers and groups
LEMMA GroupFacts ==
  /\ IsFiniteSet(Bds) /\ Bds \subseteq Int
  /\ \A b \in Bds : GroupOf(b) \in Groups
  /\ \A g \in Groups, n \in 1 .. MaxBdsPerGroup :
       /\ FirstBd(g) \in LiveIn(g, n)
       /\ \A b \in LiveIn(g, n) : b \in Bds /\ GroupOf(b) = g
  /\ \A b \in Bds : b \in LiveIn(GroupOf(b), MaxBdsPerGroup)
<1> DEFINE M == MaxBdsPerGroup
<1>0. M \in Nat /\ M > 0 /\ GroupCount \in Nat /\ GroupCount > 0
  BY BdbufAssumption
<1>00. GroupCount * M \in Nat
  BY <1>0
<1> HIDE DEF M
<1>1. IsFiniteSet(Bds) /\ Bds \subseteq Int
  <2>1. 0 \in Int /\ GroupCount * M - 1 \in Int
    BY <1>00
  <2>2. Bds = 0 .. GroupCount * M - 1
    BY DEF Bds, M
  <2>3. IsFiniteSet(Bds)
    BY <2>1, <2>2, FS_Interval, Zenon
  <2>. QED BY <2>1, <2>2, <2>3
<1>2. ASSUME NEW b \in Bds PROVE GroupOf(b) \in Groups
  <2>1. b \in Int /\ 0 <= b /\ b < GroupCount * M
    BY <1>00 DEF Bds, M
  <2>2. b \div M \in Int /\ 0 <= b \div M /\ (b \div M) * M <= b
    BY <2>1, <1>0
  <2>3. b \div M < GroupCount
    <3>1. SUFFICES ASSUME b \div M >= GroupCount PROVE FALSE
      BY <2>2, <1>0
    <3>2. (b \div M) * M >= GroupCount * M
      BY <3>1, <2>2, <1>0
    <3>. QED BY <3>2, <2>1, <2>2, <1>0
  <2>. QED BY <2>2, <2>3, <1>0 DEF GroupOf, Groups, M
<1>3. ASSUME NEW g \in Groups, NEW n \in 1 .. M, NEW i \in 0 .. n - 1
      PROVE  /\ FirstBd(g) + i * (M \div n) \in Bds
             /\ GroupOf(FirstBd(g) + i * (M \div n)) = g
  <2> DEFINE q == M \div n
             x == g * M + i * q
  <2>1. g \in Int /\ 0 <= g /\ g <= GroupCount - 1 /\ n \in Int /\ 1 <= n /\ i \in Int /\ 0 <= i /\ i <= n - 1
    BY <1>0 DEF Groups
  <2>2. q \in Int /\ q >= 1 /\ n * q <= M
    BY <2>1, <1>0
  <2> HIDE DEF q
  <2>3. i * q \in Int /\ 0 <= i * q /\ i * q <= (n - 1) * q
    BY <2>1, <2>2
  <2>4. (n - 1) * q = n * q - q
    BY <2>1, <2>2
  <2>5. i * q <= M - 1
    BY <2>1, <2>2, <2>3, <2>4, <1>0
  <2>6. g * M \in Int /\ g * M >= 0 /\ (g + 1) * M = g * M + M
    BY <2>1, <1>0
  <2>7. (g + 1) * M <= GroupCount * M
    BY <2>1, <1>0
  <2>8. x \in Int /\ g * M <= x /\ x < (g + 1) * M
    BY <2>3, <2>5, <2>6, <1>0
  <2>9. x \div M = g
    <3> HIDE DEF x
    <3>1. x \div M \in Int /\ (x \div M) * M <= x /\ x < (x \div M) * M + M
      BY <2>8, <2>6, <1>0
    <3> DEFINE e == x \div M
    <3> HIDE DEF e
    <3>2. e \in Int /\ e * M <= x /\ x < e * M + M
      BY <3>1 DEF e
    <3>3. ~(e < g)
      <4>1. SUFFICES ASSUME e + 1 <= g PROVE FALSE
        BY <3>2, <2>1
      <4>2. (e + 1) * M <= g * M
        BY <4>1, <3>2, <2>1, <1>0
      <4>3. (e + 1) * M = e * M + M
        BY <3>2, <1>0
      <4>4. e * M \in Int
        BY <3>2, <1>0
      <4>. QED BY <4>2, <4>3, <4>4, <3>2, <2>8, <2>6, <1>0
    <3>4. ~(e > g)
      <4>1. SUFFICES ASSUME g + 1 <= e PROVE FALSE
        BY <3>2, <2>1
      <4>2. (g + 1) * M <= e * M
        BY <4>1, <3>2, <2>1, <1>0
      <4>4. e * M \in Int
        BY <3>2, <1>0
      <4>. QED BY <4>2, <4>4, <3>2, <2>8, <2>6, <1>0
    <3>. QED BY <3>2, <3>3, <3>4, <2>1 DEF e
  <2>10. FirstBd(g) + i * (M \div n) = x
    BY DEF FirstBd, x, q, M
  <2>11. x \in Bds
    <3> HIDE DEF x
    <3> DEFINE A == (g + 1) * M
               B == GroupCount * M
    <3>0. A \in Int /\ B \in Int /\ A <= B /\ x < A /\ x \in Int /\ 0 <= x
      BY <2>7, <2>8, <2>6, <1>00, <2>1, <1>0
    <3> HIDE DEF A, B
    <3>01. 0 <= x /\ x < B
      BY <3>0
    <3>1. 0 <= x /\ x < GroupCount * M
      BY <3>01 DEF B
    <3>2. x \in 0 .. GroupCount * M - 1
      BY <3>1, <2>8, <1>00
    <3>. QED BY <3>2 DEF Bds, M
  <2>. QED BY <2>9, <2>10, <2>11 DEF GroupOf, M
<1>4. ASSUME NEW g \in Groups, NEW n \in 1 .. M
      PROVE  FirstBd(g) \in LiveIn(g, n)
  <2>1. 0 \in 0 .. n - 1
    BY <1>0
  <2>2. FirstBd(g) + 0 * (M \div n) = FirstBd(g)
    <3>1. M \div n \in Int
      BY <1>0
    <3>2. 0 * (M \div n) = 0
      BY <3>1
    <3>3. FirstBd(g) \in Int
      BY <1>0 DEF FirstBd, Groups, M
    <3>. QED BY <3>2, <3>3
  <2>. QED BY <2>1, <2>2 DEF LiveIn, M
<1>5. ASSUME NEW b \in Bds PROVE b \in LiveIn(GroupOf(b), M)
  <2>1. b \in Int /\ 0 <= b
    BY <1>00 DEF Bds, M
  <2>2. M \div M = 1
    BY <1>0
  <2> DEFINE e == b \div M
             i == b - e * M
  <2>3. e \in Int /\ e * M <= b /\ b < e * M + M
    BY <2>1, <1>0
  <2> HIDE DEF e
  <2>4. i \in 0 .. M - 1 /\ b = e * M + i /\ i * 1 = i /\ e * M \in Int
    BY <2>1, <2>3, <1>0
  <2>5. i * (M \div M) = i
    BY <2>2, <2>4
  <2>6. FirstBd(GroupOf(b)) = e * M
    BY DEF FirstBd, GroupOf, M, e
  <2> HIDE DEF i
  <2>7. b = FirstBd(GroupOf(b)) + i * (M \div M)
    BY <2>4, <2>5, <2>6
  <2>. QED BY <2>4, <2>7 DEF LiveIn, M
<1>6. \A g \in Groups, n \in 1 .. M : \A b \in LiveIn(g, n) : b \in Bds /\ GroupOf(b) = g
  BY <1>3 DEF LiveIn, M
<1>. QED BY <1>1, <1>2, <1>4, <1>5, <1>6 DEF M

\* Which descriptors are buffers.
LEMMA LiveFacts ==
  ASSUME group \in GroupFun
  PROVE  /\ Live \subseteq Bds
         /\ \A b \in Bds : b \in Live <=> b \in LiveIn(GroupOf(b), group[GroupOf(b)].bds_per_group)
         /\ \A g \in Groups : /\ LiveIn(g, group[g].bds_per_group) \subseteq Live
                              /\ group[g].bds_per_group \in 1 .. MaxBdsPerGroup
         /\ \A g \in Groups : \A b \in LiveIn(g, group[g].bds_per_group) : b \in Bds /\ GroupOf(b) = g
<1>1. \A g \in Groups : group[g].bds_per_group \in 1 .. MaxBdsPerGroup
  BY DEF GroupFun
<1>2. \A g \in Groups : \A b \in LiveIn(g, group[g].bds_per_group) : b \in Bds /\ GroupOf(b) = g
  BY <1>1, GroupFacts
<1>3. \A x : x \in Live <=> \E g \in Groups : x \in LiveIn(g, group[g].bds_per_group)
  BY DEF Live
<1>. QED BY <1>1, <1>2, <1>3, GroupFacts

\* The buffers in one of the states S.
In(S) == {b \in Live : bd[b].state \in S}
NotFree == States \ {"FREE"}
InUse == Access \cup Transferring \cup {"MODIFIED"}
AtDriver == {"TRANSFER", "TRANSFER_PURGED"}

\* The tasks that have buffer b, the drivers at work on it, the tasks that wait for it.
Owners(b) == {t \in Tasks : task[t].pc \in OwnPc /\ task[t].bd = b}
Drivers(b) ==
    {t \in Tasks : task[t].pc = "reading" /\ task[t].bd = b}
    \cup {w \in Workers : b \in ToSet(worker[w].bds)}
    \cup (IF b \in ToSet(swap.bds) THEN {"swapout"} ELSE {})
    \cup (IF b \in ToSet(ahead.req) THEN {"ahead"} ELSE {})
Waiting(b) == {t \in Tasks : task[t].pc \in BdWait /\ task[t].bd = b}

\* The state of a buffer tells who has it and who may wait for it.
BufferInv(b) ==
    /\ (b \in Live /\ bd[b].state \in Access) =>
          Drivers(b) = {} /\ \E t \in Tasks : Owners(b) = {t}
    /\ (b \in Live /\ bd[b].state \in AtDriver) =>
          Owners(b) = {} /\ \E h : Drivers(b) = {h}
    /\ (b \notin Live \/ bd[b].state \notin Access \cup AtDriver) =>
          Drivers(b) = {} /\ Owners(b) = {}
    /\ Waiting(b) # {} => b \in Live /\ bd[b].state # "FREE"
    /\ (b \in Live /\ bd[b].state = "EMPTY") => Waiting(b) # {}
    /\ b \notin Live => bd[b].state \in {"FREE", "CACHED"}
    /\ bd[b].state # "FREE" => bd[b].dd \in Devs
    /\ b \in tree => b \in Live /\ bd[b].state # "FREE"
    /\ (Sound /\ b \in Live /\ bd[b].state # "FREE") => b \in tree

ListsInv ==
    /\ IsList(Bds, lru, In({"FREE", "CACHED"}))
    /\ IsList(Bds, modified, In({"MODIFIED"}))
    /\ IsList(Bds, sync, In({"SYNC"}))

KeysInv == \A a, b \in tree : (bd[a].dd = bd[b].dd /\ bd[a].block = bd[b].block) => a = b

TasksInv ==
    \A t \in Tasks :
        /\ task[t].pc \in OwnPc \cup BdWait \cup {"reading"} => task[t].bd \in Bds
        /\ task[t].pc # "idle" => task[t].dd \in Devs

RequestsInv ==
    /\ IsInjective(swap.bds) /\ (swap.pc # "write" => swap.bds = <<>>)
    /\ \A w \in Workers : /\ IsInjective(worker[w].bds)
                          /\ worker[w].pc # "write" => worker[w].bds = <<>>
    /\ IsInjective(ahead.req)
    /\ ahead.pc \in {"wait", "run"} => ahead.req = <<>>
    /\ ahead.pc \in {"gather", "reading"} => ahead.req # <<>> /\ ahead.dd \in Devs
    /\ IsInjective(free_workers)
    /\ \A w \in ToSet(free_workers) : worker[w].pc = "idle"

\* The users of a group
Used(g) == {b \in LiveIn(g, group[g].bds_per_group) : bd[b].state \in InUse}
Sleepers(g) == {t \in Tasks : task[t].pc \in BdWait /\ GroupOf(task[t].bd) = g}
CountInv == \A g \in Groups : group[g].users = Cardinality(Used(g)) + Cardinality(Sleepers(g))

\* Before the block size is changed there is only one.
SizesInv ==
    ~hist.resized =>
        /\ \A d \in Devs : dev[d].bds_per_group = MaxBdsPerGroup
        /\ \A g \in Groups : group[g].bds_per_group = MaxBdsPerGroup
        /\ \A t \in Tasks : task[t].pc \notin {"rec", "search"}

Inv ==
    /\ TypeOK /\ ListsInv /\ KeysInv /\ TasksInv /\ RequestsInv /\ CountInv /\ SizesInv
    /\ \A b \in Bds : BufferInv(b)

\* What a task does to its record, and others to theirs when they are woken.
OthersKept(t) ==
    \A u \in Tasks \ {t} :
        /\ task'[u].pc = task[u].pc /\ task'[u].bd = task[u].bd /\ task'[u].dd = task[u].dd
        /\ task'[u].op = task[u].op /\ task'[u].block = task[u].block /\ task'[u].media = task[u].media

\* A broadcast changes only the condition variable of the tasks that sleep on it.
LEMMA WokenFacts ==
  ASSUME NEW tk \in TaskFun, NEW cvs
  PROVE  /\ Woken(cvs, tk) \in TaskFun
         /\ \A u \in Tasks :
              /\ Woken(cvs, tk)[u].pc = tk[u].pc /\ Woken(cvs, tk)[u].bd = tk[u].bd
              /\ Woken(cvs, tk)[u].dd = tk[u].dd /\ Woken(cvs, tk)[u].op = tk[u].op
              /\ Woken(cvs, tk)[u].block = tk[u].block /\ Woken(cvs, tk)[u].media = tk[u].media
              /\ Woken(cvs, tk)[u].cv = IF tk[u].cv \in cvs THEN "none" ELSE tk[u].cv
<1> DEFINE W == Woken(cvs, tk)
<1>1. \A u \in Tasks : tk[u] \in TaskRec
  BY DEF TaskFun
<1>2. \A u \in Tasks : W[u] = IF tk[u].cv \in cvs THEN [tk[u] EXCEPT !.cv = "none"] ELSE tk[u]
  BY DEF Woken
<1>3. W = [u \in Tasks |-> W[u]]
  BY DEF Woken
<1> HIDE DEF W
<1>4. \A u \in Tasks : [tk[u] EXCEPT !.cv = "none"] \in TaskRec
  BY <1>1 DEF TaskRec
<1>5. W \in TaskFun
  BY <1>1, <1>2, <1>3, <1>4 DEF TaskFun
<1>6. ASSUME NEW u \in Tasks
      PROVE  /\ W[u].pc = tk[u].pc /\ W[u].bd = tk[u].bd
             /\ W[u].dd = tk[u].dd /\ W[u].op = tk[u].op
             /\ W[u].block = tk[u].block /\ W[u].media = tk[u].media
             /\ W[u].cv = IF tk[u].cv \in cvs THEN "none" ELSE tk[u].cv
  BY <1>1, <1>2 DEF TaskRec
<1>. QED BY <1>5, <1>6 DEF W

\* A task that changes its own record and wakes others: what the others keep.
LEMMA TaskStep ==
  ASSUME task \in TaskFun, NEW t \in Tasks, NEW r \in TaskRec, NEW cvs,
         task' = Woken(cvs, [task EXCEPT ![t] = r])
  PROVE  /\ task' \in TaskFun /\ OthersKept(t)
         /\ task'[t].pc = r.pc /\ task'[t].bd = r.bd /\ task'[t].dd = r.dd /\ task'[t].op = r.op
         /\ task'[t].block = r.block /\ task'[t].media = r.media
         /\ task'[t].cv = IF r.cv \in cvs THEN "none" ELSE r.cv
         /\ \A u \in Tasks \ {t} : task'[u].cv = IF task[u].cv \in cvs THEN "none" ELSE task[u].cv
<1> DEFINE k == [task EXCEPT ![t] = r]
<1>1. k \in TaskFun /\ k[t] = r /\ \A u \in Tasks \ {t} : k[u] = task[u]
  BY DEF TaskFun
<1> HIDE DEF k
<1>2. task' = Woken(cvs, k)
  BY DEF k
<1> DEFINE W == Woken(cvs, k)
<1>3. /\ W \in TaskFun
      /\ \A u \in Tasks :
           /\ W[u].pc = k[u].pc /\ W[u].bd = k[u].bd /\ W[u].dd = k[u].dd /\ W[u].op = k[u].op
           /\ W[u].block = k[u].block /\ W[u].media = k[u].media
           /\ W[u].cv = IF k[u].cv \in cvs THEN "none" ELSE k[u].cv
  BY <1>1, WokenFacts
<1> HIDE DEF W
<1>4. task' = W
  BY <1>2 DEF W
<1>. QED BY <1>1, <1>3, <1>4, ZenonT(60) DEF OthersKept

\* A broadcast on no condition variable wakes nobody.
LEMMA WokenNone ==
  ASSUME NEW tk \in TaskFun
  PROVE  Woken({}, tk) = tk
BY DEF Woken, TaskFun

\* rtems_bdbuf_set_state changes the state and nothing else of a buffer.
LEMMA SetStateFacts ==
  ASSUME NEW f \in BdFun, NEW S, NEW st \in States
  PROVE  /\ SetState(f, S, st) \in BdFun
         /\ \A b \in Bds :
              /\ SetState(f, S, st)[b].state = IF b \in S THEN st ELSE f[b].state
              /\ SetState(f, S, st)[b].dd = f[b].dd /\ SetState(f, S, st)[b].block = f[b].block
              /\ SetState(f, S, st)[b].hold = f[b].hold /\ SetState(f, S, st)[b].val = f[b].val
<1> DEFINE W == SetState(f, S, st)
<1>1. \A b \in Bds : f[b] \in BdRec
  BY DEF BdFun
<1>2. \A b \in Bds : W[b] = IF b \in S THEN [f[b] EXCEPT !.state = st] ELSE f[b]
  BY DEF SetState
<1>3. W = [b \in Bds |-> W[b]]
  BY DEF SetState
<1> HIDE DEF W
<1>4. \A b \in Bds : [f[b] EXCEPT !.state = st] \in BdRec
  BY <1>1 DEF BdRec
<1>5. W \in BdFun
  BY <1>1, <1>2, <1>3, <1>4 DEF BdFun
<1>6. ASSUME NEW b \in Bds
      PROVE  /\ W[b].state = IF b \in S THEN st ELSE f[b].state
             /\ W[b].dd = f[b].dd /\ W[b].block = f[b].block
             /\ W[b].hold = f[b].hold /\ W[b].val = f[b].val
  BY <1>1, <1>2 DEF BdRec
<1>. QED BY <1>5, <1>6 DEF W

\* Counting users of a group leaves its size and the other groups alone.
LEMMA UsersFacts ==
  ASSUME NEW f \in GroupFun, NEW g \in Groups, NEW n \in Int
  PROVE  /\ Users(f, g, n) \in GroupFun
         /\ \A h \in Groups :
              /\ Users(f, g, n)[h].bds_per_group = f[h].bds_per_group
              /\ Users(f, g, n)[h].users = IF h = g THEN f[h].users + n ELSE f[h].users
<1> DEFINE R == [bds_per_group : 1 .. MaxBdsPerGroup, users : Int]
           W == Users(f, g, n)
<1>1. \A h \in Groups : f[h] \in R /\ f[h].users \in Int
  BY DEF GroupFun
<1>2. W = [f EXCEPT ![g] = [f[g] EXCEPT !.users = f[g].users + n]]
  BY DEF Users
<1> DEFINE r == [f[g] EXCEPT !.users = f[g].users + n]
<1>3. r \in R /\ r.users = f[g].users + n /\ r.bds_per_group = f[g].bds_per_group
  BY <1>1
<1> HIDE DEF r, W
<1>4. W \in GroupFun /\ W[g] = r /\ \A h \in Groups \ {g} : W[h] = f[h]
  BY <1>2, <1>3 DEF GroupFun, r
<1>. QED BY <1>3, <1>4 DEF W

\* A task that goes to a place in the code with a buffer keeps its request.
LEMMA AtFacts ==
  ASSUME NEW c \in TaskRec, NEW pc \in TaskPc, NEW b \in Int,
         NEW cv \in {"none", "access", "transfer", "buffer"}
  PROVE  /\ At(c, pc, b, cv) \in TaskRec
         /\ At(c, pc, b, cv).pc = pc /\ At(c, pc, b, cv).bd = b /\ At(c, pc, b, cv).cv = cv
         /\ At(c, pc, b, cv).dd = c.dd /\ At(c, pc, b, cv).op = c.op
         /\ At(c, pc, b, cv).block = c.block /\ At(c, pc, b, cv).media = c.media
BY DEF At, TaskRec

\* A task that returns to its caller has no buffer and waits for nothing.
LEMMA IdleFacts ==
  ASSUME NEW c \in TaskRec
  PROVE  /\ Idle(c) \in TaskRec /\ Idle(c).pc = "idle" /\ Idle(c).bd = -1 /\ Idle(c).cv = "none"
         /\ Idle(c).dd = NoDev
<1>1. -1 \in Int /\ 0 \in Int
  OBVIOUS
<1>2. "idle" \in TaskPc
  BY DEF TaskPc
<1>. QED BY <1>1, <1>2 DEF Idle, TaskRec

SameRequests ==
    /\ \A w \in Workers : worker'[w].bds = worker[w].bds
    /\ swap'.bds = swap.bds /\ ahead'.req = ahead.req
SameSizes ==
    /\ \A g \in Groups : group'[g].bds_per_group = group[g].bds_per_group
    /\ \A d \in Devs : dev'[d].bds_per_group = dev[d].bds_per_group
    /\ hist'.resized = hist.resized

\* Who owns, waits for or transfers a buffer after a step of task t.
LEMMA HandsStep ==
  ASSUME NEW t \in Tasks, OthersKept(t), SameRequests
  PROVE  \A b :
           /\ Owners(b)' = IF task'[t].pc \in OwnPc /\ task'[t].bd = b
                           THEN Owners(b) \cup {t} ELSE Owners(b) \ {t}
           /\ Waiting(b)' = IF task'[t].pc \in BdWait /\ task'[t].bd = b
                            THEN Waiting(b) \cup {t} ELSE Waiting(b) \ {t}
           /\ Drivers(b)' = IF task'[t].pc = "reading" /\ task'[t].bd = b
                            THEN Drivers(b) \cup {t} ELSE Drivers(b) \ {t}
<1>0. t \notin Workers /\ t # "swapout" /\ t # "ahead"
  BY BdbufAssumption
<1>. TAKE b
<1>1. Owners(b)' = IF task'[t].pc \in OwnPc /\ task'[t].bd = b
                   THEN Owners(b) \cup {t} ELSE Owners(b) \ {t}
  BY DEF Owners, OthersKept
<1>2. Waiting(b)' = IF task'[t].pc \in BdWait /\ task'[t].bd = b
                    THEN Waiting(b) \cup {t} ELSE Waiting(b) \ {t}
  BY DEF Waiting, OthersKept
<1> DEFINE R == {u \in Tasks : task[u].pc = "reading" /\ task[u].bd = b}
           A == {w \in Workers : b \in ToSet(worker[w].bds)}
           B == IF b \in ToSet(swap.bds) THEN {"swapout"} ELSE {}
           C == IF b \in ToSet(ahead.req) THEN {"ahead"} ELSE {}
<1>3. R' = IF task'[t].pc = "reading" /\ task'[t].bd = b THEN R \cup {t} ELSE R \ {t}
  BY DEF OthersKept
<1>4. A' = A /\ B' = B /\ C' = C
  BY DEF SameRequests
<1>5. t \notin A /\ t \notin B /\ t \notin C
  BY <1>0
<1>6. Drivers(b) = R \cup A \cup B \cup C /\ Drivers(b)' = R' \cup A' \cup B' \cup C'
  BY DEF Drivers
<1> HIDE DEF R, A, B, C
<1>7. Drivers(b)' = IF task'[t].pc = "reading" /\ task'[t].bd = b
                    THEN Drivers(b) \cup {t} ELSE Drivers(b) \ {t}
  BY <1>3, <1>4, <1>5, <1>6
<1>. QED BY <1>1, <1>2, <1>7

\* A step that leaves a buffer alone.
SameBuffer(b) ==
    /\ bd'[b].state = bd[b].state /\ bd'[b].dd = bd[b].dd
    /\ b \in Live' <=> b \in Live
    /\ b \in tree' <=> b \in tree
    /\ Owners(b)' = Owners(b) /\ Drivers(b)' = Drivers(b) /\ Waiting(b)' = Waiting(b)

\* A buffer nobody touched keeps its invariant, whatever the step did elsewhere.
LEMMA BufferFrame ==
  ASSUME NEW b \in Bds, BufferInv(b), SameBuffer(b), hist.orphan => hist'.orphan
  PROVE  BufferInv(b)'
BY DEF BufferInv, SameBuffer, Sound

\* Only group_realloc changes which buffers there are.
LEMMA LiveFrame ==
  ASSUME \A g \in Groups : group'[g].bds_per_group = group[g].bds_per_group
  PROVE  Live' = Live
<1>1. \A x : x \in Live <=> \E g \in Groups : x \in LiveIn(g, group[g].bds_per_group)
  BY DEF Live
<1>2. \A x : x \in Live' <=> \E g \in Groups : x \in LiveIn(g, group'[g].bds_per_group)
  BY DEF Live
<1>. QED BY <1>1, <1>2

\* The buffers in given states when one buffer changed its state.
LEMMA InFrame ==
  ASSUME Live' = Live, NEW b \in Live,
         \A x \in Live \ {b} : bd'[x].state = bd[x].state
  PROVE  \A S : In(S)' = IF bd'[b].state \in S THEN In(S) \cup {b} ELSE In(S) \ {b}
BY DEF In

\* The buffers in given states when none changed its state.
LEMMA InSame ==
  ASSUME Live' = Live, \A x \in Live : bd'[x].state = bd[x].state
  PROVE  \A S : In(S)' = In(S)
BY DEF In

\* How the numbers of a group change when one buffer and one task do.
LEMMA CardOne ==
  ASSUME NEW S, IsFiniteSet(S), NEW x
  PROVE  /\ Cardinality(S) \in Nat /\ Cardinality(S \ {x}) \in Nat /\ Cardinality(S \cup {x}) \in Nat
         /\ IsFiniteSet(S \ {x}) /\ IsFiniteSet(S \cup {x})
         /\ x \in S => Cardinality(S \ {x}) = Cardinality(S) - 1 /\ S \cup {x} = S
         /\ x \notin S => Cardinality(S \cup {x}) = Cardinality(S) + 1 /\ S \ {x} = S
<1>1. IsFiniteSet(S \ {x}) /\ Cardinality(S \ {x}) = IF x \in S THEN Cardinality(S) - 1 ELSE Cardinality(S)
  BY FS_RemoveElement
<1>2. IsFiniteSet(S \cup {x}) /\ Cardinality(S \cup {x}) = IF x \in S THEN Cardinality(S) ELSE Cardinality(S) + 1
  BY FS_AddElement
<1>3. Cardinality(S) \in Nat /\ Cardinality(S \ {x}) \in Nat /\ Cardinality(S \cup {x}) \in Nat
  BY <1>1, <1>2, FS_CardinalityType
<1>. QED BY <1>1, <1>2, <1>3

\* The users of a group are finitely many buffers and tasks.
LEMMA FiniteGroups ==
  ASSUME group \in GroupFun, NEW g \in Groups
  PROVE  /\ IsFiniteSet(Used(g)) /\ IsFiniteSet(Sleepers(g))
         /\ Cardinality(Used(g)) \in Nat /\ Cardinality(Sleepers(g)) \in Nat
         /\ \A b \in Used(g) : b \in Bds /\ GroupOf(b) = g /\ b \in Live /\ bd[b].state \in InUse
         /\ \A b \in Live : bd[b].state \in InUse /\ GroupOf(b) = g => b \in Used(g)
<1>1. /\ \A b \in Used(g) : b \in Bds /\ GroupOf(b) = g /\ b \in Live /\ bd[b].state \in InUse
      /\ \A b \in Live : bd[b].state \in InUse /\ GroupOf(b) = g => b \in Used(g)
  BY LiveFacts DEF Used
<1>2. Used(g) \in SUBSET Bds /\ Sleepers(g) \in SUBSET Tasks
  BY <1>1 DEF Sleepers
<1>3. IsFiniteSet(Bds) /\ IsFiniteSet(Tasks)
  BY GroupFacts, BdbufAssumption
<1>4. IsFiniteSet(Used(g)) /\ IsFiniteSet(Sleepers(g))
  BY <1>2, <1>3, FS_Subset
<1>. QED BY <1>1, <1>4, FS_CardinalityType

\* The buffers in use of each group when one buffer changed its state.
LEMMA UsedFrame ==
  ASSUME group \in GroupFun, group' \in GroupFun,
         \A g \in Groups : group'[g].bds_per_group = group[g].bds_per_group,
         NEW b \in Live,
         \A x \in Bds \ {b} : bd'[x].state = bd[x].state
  PROVE  \A g \in Groups :
           Used(g)' = IF g # GroupOf(b) THEN Used(g)
                      ELSE IF bd'[b].state \in InUse THEN Used(g) \cup {b} ELSE Used(g) \ {b}
<1>1. Live' = Live
  BY LiveFrame
<1>. TAKE g \in Groups
<1>2. \A x \in LiveIn(g, group[g].bds_per_group) : x \in Bds /\ GroupOf(x) = g
  BY LiveFacts
<1>3. Used(g)' = {x \in LiveIn(g, group[g].bds_per_group) : bd'[x].state \in InUse}
  BY DEF Used
<1>4. Used(g) = {x \in LiveIn(g, group[g].bds_per_group) : bd[x].state \in InUse}
  BY DEF Used
<1>5. b \in Bds /\ b \in LiveIn(GroupOf(b), group[GroupOf(b)].bds_per_group)
  BY LiveFacts
<1>. QED BY <1>2, <1>3, <1>4, <1>5

\* The tasks that wait in each group when task t took a step.
LEMMA SleepersFrame ==
  ASSUME NEW t \in Tasks, OthersKept(t)
  PROVE  \A g : Sleepers(g)' = IF task'[t].pc \in BdWait /\ GroupOf(task'[t].bd) = g
                               THEN Sleepers(g) \cup {t} ELSE Sleepers(g) \ {t}
BY DEF Sleepers, OthersKept

One(p) == IF p THEN 1 ELSE 0

\* The groups f count everyone but t.
CountsWithout(t, f) ==
    /\ f \in GroupFun
    /\ \A h \in Groups :
         /\ f[h].bds_per_group = group[h].bds_per_group
         /\ f[h].users = Cardinality(Used(h)) + Cardinality(Sleepers(h) \ {t})

\* The user counts stay exact when one task works on one buffer and the group counts the difference.
LEMMA CountOneStep ==
  ASSUME Inv, group' \in GroupFun, NEW t \in Tasks, OthersKept(t), NEW b \in Live,
         \A g \in Groups : group'[g].bds_per_group = group[g].bds_per_group,
         \A x \in Bds \ {b} : bd'[x].state = bd[x].state,
         task'[t].pc \in BdWait => task'[t].bd = b,
         \A h \in Groups : group'[h].users =
            Cardinality(Used(h)) + Cardinality(Sleepers(h) \ {t})
            + IF h # GroupOf(b) THEN 0
              ELSE One(bd'[b].state \in InUse) - One(bd[b].state \in InUse)
                   + One(task'[t].pc \in BdWait)
  PROVE  CountInv'
<1>0. group \in GroupFun
  BY DEF Inv, TypeOK
<1>1. b \in Bds /\ GroupOf(b) \in Groups /\ Live \subseteq Bds
  BY <1>0, LiveFacts, GroupFacts
<1>. SUFFICES ASSUME NEW g \in Groups
              PROVE  group'[g].users = Cardinality(Used(g)') + Cardinality(Sleepers(g)')
  BY DEF CountInv
<1>2. /\ IsFiniteSet(Used(g)) /\ IsFiniteSet(Sleepers(g))
      /\ Cardinality(Used(g)) \in Nat /\ Cardinality(Sleepers(g)) \in Nat
      /\ g # GroupOf(b) => b \notin Used(g)
      /\ g = GroupOf(b) => (b \in Used(g) <=> bd[b].state \in InUse)
  BY <1>0, FiniteGroups
<1> DEFINE U == Used(g)
           S == Sleepers(g)
           V == Used(g)'
           W == Sleepers(g)'
<1>3. V = IF g # GroupOf(b) THEN U
          ELSE IF bd'[b].state \in InUse THEN U \cup {b} ELSE U \ {b}
  BY <1>0, UsedFrame
<1>4. W = IF task'[t].pc \in BdWait /\ GroupOf(b) = g THEN S \cup {t} ELSE S \ {t}
  BY SleepersFrame
<1>5. /\ IsFiniteSet(U) /\ IsFiniteSet(S) /\ Cardinality(U) \in Nat
      /\ g # GroupOf(b) => b \notin U
      /\ g = GroupOf(b) => (b \in U <=> bd[b].state \in InUse)
  BY <1>2
<1>6. group'[g].users = Cardinality(U) + Cardinality(S \ {t})
            + IF g # GroupOf(b) THEN 0
              ELSE One(bd'[b].state \in InUse) - One(bd[b].state \in InUse)
                   + One(task'[t].pc \in BdWait)
  OBVIOUS
<1> HIDE DEF U, S, V, W
<1>7. /\ Cardinality(U \ {b}) = Cardinality(U) - One(b \in U)
      /\ Cardinality(U \cup {b}) = Cardinality(U) + 1 - One(b \in U)
  <2>1. b \in U => Cardinality(U \ {b}) = Cardinality(U) - 1 /\ U \cup {b} = U
    BY <1>5, CardOne
  <2>2. b \notin U => Cardinality(U \cup {b}) = Cardinality(U) + 1 /\ U \ {b} = U
    BY <1>5, CardOne
  <2>3. CASE b \in U
    <3>1. One(b \in U) = 1
      BY <2>3 DEF One
    <3>2. Cardinality(U \cup {b}) = Cardinality(U) /\ Cardinality(U \ {b}) = Cardinality(U) - 1
      BY <2>1, <2>3
    <3>. QED BY <3>1, <3>2, <1>5
  <2>4. CASE b \notin U
    <3>1. One(b \in U) = 0
      BY <2>4 DEF One
    <3>2. Cardinality(U \cup {b}) = Cardinality(U) + 1 /\ Cardinality(U \ {b}) = Cardinality(U)
      BY <2>2, <2>4
    <3>. QED BY <3>1, <3>2, <1>5
  <2>. QED BY <2>3, <2>4
<1>8. IsFiniteSet(S \ {t}) /\ Cardinality(S \ {t}) \in Nat
  BY <1>5, CardOne
<1>9. Cardinality((S \ {t}) \cup {t}) = Cardinality(S \ {t}) + 1 /\ (S \ {t}) \cup {t} = S \cup {t}
  <2>1. t \notin S \ {t}
    OBVIOUS
  <2>. QED BY <2>1, <1>8, CardOne
<1>10. Cardinality(W) = Cardinality(S \ {t}) + One(task'[t].pc \in BdWait /\ GroupOf(b) = g)
  <2> DEFINE k == Cardinality(S \ {t})
  <2>1. k \in Nat /\ Cardinality(S \cup {t}) = k + 1
    BY <1>8, <1>9
  <2>2. CASE task'[t].pc \in BdWait /\ GroupOf(b) = g
    BY <2>1, <2>2, <1>4 DEF One
  <2>3. CASE ~(task'[t].pc \in BdWait /\ GroupOf(b) = g)
    BY <2>1, <2>3, <1>4 DEF One
  <2>. QED BY <2>2, <2>3
<1>11. Cardinality(V) = Cardinality(U) + IF g # GroupOf(b) THEN 0
              ELSE One(bd'[b].state \in InUse) - One(bd[b].state \in InUse)
  BY <1>3, <1>5, <1>7 DEF One
<1>12. Cardinality(V) \in Int /\ Cardinality(W) \in Int
  BY <1>5, <1>8, <1>10, <1>11 DEF One
<1>13. group'[g].users = Cardinality(V) + Cardinality(W)
  BY <1>5, <1>6, <1>8, <1>10, <1>11, <1>12 DEF One
<1>. QED BY <1>13 DEF V, W

\* The counts without task t: its place is given up when its wait ends
\* (rtems_bdbuf_wait, bdbuf.c:943-952).
LEMMA WithoutTask ==
  ASSUME Inv, NEW t \in Tasks
  PROVE  /\ task[t].pc \notin BdWait => CountsWithout(t, group)
         /\ task[t].pc \in BdWait => CountsWithout(t, AfterWait(t))
<1>0. group \in GroupFun /\ task \in TaskFun
  BY DEF Inv, TypeOK
<1>1. \A g \in Groups : /\ IsFiniteSet(Sleepers(g)) /\ Cardinality(Sleepers(g)) \in Nat
                        /\ Cardinality(Used(g)) \in Nat
                        /\ group[g].users = Cardinality(Used(g)) + Cardinality(Sleepers(g))
  BY <1>0, FiniteGroups DEF Inv, CountInv
<1>2. ASSUME task[t].pc \notin BdWait PROVE CountsWithout(t, group)
  <2>1. \A g \in Groups : Sleepers(g) \ {t} = Sleepers(g)
    BY <1>2 DEF Sleepers
  <2>. QED BY <2>1, <1>0, <1>1 DEF CountsWithout
<1>3. ASSUME task[t].pc \in BdWait PROVE CountsWithout(t, AfterWait(t))
  <2>1. PICK b \in Bds : b = task[t].bd
    BY <1>3 DEF Inv, TasksInv
  <2>2. GroupOf(b) \in Groups
    BY GroupFacts
  <2>3. \A g \in Groups : t \in Sleepers(g) <=> g = GroupOf(b)
    BY <1>3, <2>1 DEF Sleepers
  <2> DEFINE f == Users(group, GroupOf(b), -1)
  <2>4. /\ f \in GroupFun
        /\ \A h \in Groups :
              /\ f[h].bds_per_group = group[h].bds_per_group
              /\ f[h].users = IF h = GroupOf(b) THEN group[h].users + (-1) ELSE group[h].users
    BY <1>0, <2>2, UsersFacts
  <2> HIDE DEF f
  <2>5. ASSUME NEW h \in Groups
        PROVE  f[h].users = Cardinality(Used(h)) + Cardinality(Sleepers(h) \ {t})
    <3>1. Cardinality(Sleepers(h) \ {t}) = IF h = GroupOf(b) THEN Cardinality(Sleepers(h)) - 1 ELSE Cardinality(Sleepers(h))
      BY <1>1, <2>3, CardOne
    <3> DEFINE u == Cardinality(Used(h))
               s == Cardinality(Sleepers(h))
    <3>2. u \in Int /\ s \in Int /\ group[h].users = u + s
      BY <1>1
    <3> HIDE DEF u, s
    <3>3. Cardinality(Sleepers(h) \ {t}) = IF h = GroupOf(b) THEN s - 1 ELSE s
      BY <3>1 DEF s
    <3>4. f[h].users = u + Cardinality(Sleepers(h) \ {t})
      BY <3>2, <3>3, <2>4
    <3>. QED BY <3>4 DEF u
  <2>6. AfterWait(t) = f
    BY <2>1 DEF AfterWait, f
  <2>. QED BY <2>4, <2>5, <2>6 DEF CountsWithout
<1>. QED BY <1>2, <1>3

\* A step of task t on buffer b, the one it has, waits for or goes for.
Place(t) == task[t].pc \in OwnPc \cup BdWait \cup {"reading"}
OnBuffer(t, b) ==
    /\ OthersKept(t) /\ SameRequests /\ SameSizes
    /\ hist.orphan => hist'.orphan
    /\ \A x \in Bds \ {b} : bd'[x].state = bd[x].state /\ (x \in tree' <=> x \in tree)
    /\ \A x \in Bds : bd'[x].dd = bd[x].dd /\ bd'[x].block = bd[x].block
    /\ Place(t) => task[t].bd = b
    /\ Place(t)' => task'[t].bd = b
    /\ task'[t].pc # "idle" => task'[t].dd \in Devs
    /\ task'[t].pc \in {"rec", "search"} => hist.resized
    /\ tree' \subseteq tree
    /\ swap'.pc = swap.pc /\ free_workers' = free_workers
    /\ \A w \in Workers : worker'[w].pc = worker[w].pc
    /\ ahead'.pc = ahead.pc /\ ahead'.dd = ahead.dd

\* What a step of task t on buffer b keeps: every other buffer, the keys, the requests, the sizes.
LEMMA OnBufferStep ==
  ASSUME Inv, TypeOK', NEW t \in Tasks, NEW b \in Live, OnBuffer(t, b)
  PROVE  /\ \A x \in Bds \ {b} : BufferInv(x)'
         /\ Live' = Live
         /\ \A S : In(S)' = IF bd'[b].state \in S THEN In(S) \cup {b} ELSE In(S) \ {b}
         /\ KeysInv' /\ TasksInv' /\ RequestsInv' /\ SizesInv'
         /\ Owners(b)' = IF task'[t].pc \in OwnPc THEN Owners(b) \cup {t} ELSE Owners(b) \ {t}
         /\ Waiting(b)' = IF task'[t].pc \in BdWait THEN Waiting(b) \cup {t} ELSE Waiting(b) \ {t}
         /\ Drivers(b)' = IF task'[t].pc = "reading" THEN Drivers(b) \cup {t} ELSE Drivers(b) \ {t}
<1>1. OthersKept(t) /\ SameRequests /\ SameSizes
  BY DEF OnBuffer
<1>2. Live' = Live
  BY <1>1, LiveFrame DEF SameSizes
<1>3. Live \subseteq Bds /\ b \in Bds
  BY LiveFacts DEF Inv, TypeOK
<1>4. \A S : In(S)' = IF bd'[b].state \in S THEN In(S) \cup {b} ELSE In(S) \ {b}
  BY <1>2, <1>3, InFrame DEF OnBuffer
<1>5. \A x :
        /\ Owners(x)' = IF task'[t].pc \in OwnPc /\ task'[t].bd = x
                        THEN Owners(x) \cup {t} ELSE Owners(x) \ {t}
        /\ Waiting(x)' = IF task'[t].pc \in BdWait /\ task'[t].bd = x
                         THEN Waiting(x) \cup {t} ELSE Waiting(x) \ {t}
        /\ Drivers(x)' = IF task'[t].pc = "reading" /\ task'[t].bd = x
                         THEN Drivers(x) \cup {t} ELSE Drivers(x) \ {t}
  BY <1>1, HandsStep
<1>6. task'[t].pc \in OwnPc \cup BdWait \cup {"reading"} => task'[t].bd = b
  BY DEF OnBuffer, Place
<1>7. ASSUME NEW x \in Bds \ {b} PROVE BufferInv(x)'
  <2>1. t \notin Owners(x) /\ t \notin Waiting(x)
    BY <1>7 DEF OnBuffer, Place, Owners, Waiting
  <2>2. t \notin Drivers(x)
    BY BdbufAssumption DEF OnBuffer, Place, Drivers
  <2>3. Owners(x)' = Owners(x) /\ Waiting(x)' = Waiting(x) /\ Drivers(x)' = Drivers(x)
    BY <1>5, <1>6, <2>1, <2>2
  <2>4. SameBuffer(x)
    BY <2>3, <1>2 DEF SameBuffer, OnBuffer
  <2>5. BufferInv(x) /\ (hist.orphan => hist'.orphan)
    BY DEF Inv, OnBuffer
  <2>. QED BY <2>4, <2>5, BufferFrame
<1>8. KeysInv'
  <2>1. tree' \subseteq tree /\ tree \subseteq Bds
    BY DEF OnBuffer, Inv, TypeOK
  <2>. QED BY <2>1 DEF OnBuffer, Inv, KeysInv
<1>9. TasksInv'
  <2>1. ASSUME NEW u \in Tasks \ {t}
        PROVE  /\ task'[u].pc \in OwnPc \cup BdWait \cup {"reading"} => task'[u].bd \in Bds
               /\ task'[u].pc # "idle" => task'[u].dd \in Devs
    BY <1>1 DEF OthersKept, Inv, TasksInv
  <2>2. /\ task'[t].pc \in OwnPc \cup BdWait \cup {"reading"} => task'[t].bd \in Bds
        /\ task'[t].pc # "idle" => task'[t].dd \in Devs
    BY <1>3, <1>6 DEF OnBuffer
  <2>. QED BY <2>1, <2>2 DEF TasksInv
<1>10. RequestsInv'
  <2>1. RequestsInv
    BY DEF Inv
  <2>2. \A w \in ToSet(free_workers) : w \in Workers
    BY ListFacts DEF Inv, TypeOK
  <2>. QED BY <1>1, <2>1, <2>2 DEF OnBuffer, RequestsInv, SameRequests
<1>11. SizesInv'
  <2>1. \A u \in Tasks \ {t} : task'[u].pc = task[u].pc
    BY <1>1 DEF OthersKept
  <2>2. task'[t].pc \in {"rec", "search"} => hist.resized
    BY DEF OnBuffer
  <2>3. SizesInv
    BY DEF Inv
  <2>. QED BY <1>1, <2>1, <2>2, <2>3 DEF SizesInv, SameSizes
<1>. QED BY <1>2, <1>4, <1>5, <1>6, <1>7, <1>8, <1>9, <1>10, <1>11

\* The part of a list whose members are in S is a list of the same kind.
LEMMA OnlyType ==
  ASSUME NEW T, NEW s \in Seq(T), NEW S
  PROVE  Only(s, S) \in Seq(T)
<1> DEFINE I == Places(s, S)
           n == Cardinality(I)
           o == Ascending(I)
           q == Only(s, S)
<1>1. Len(s) \in Nat /\ DOMAIN s = 1..Len(s) /\ \A i \in 1..Len(s) : s[i] \in T
  BY LenProperties, ElementOfSeq
<1>2. I \subseteq 1..Len(s)
  BY <1>1 DEF Places
<1>3. I \subseteq Int /\ IsFiniteSet(I)
  <2>1. 1 \in Int /\ Len(s) \in Int /\ 1..Len(s) \subseteq Int
    BY <1>1
  <2>2. IsFiniteSet(1..Len(s))
    BY <2>1, FS_Interval, Zenon
  <2> HIDE DEF I
  <2>. QED BY <2>1, <2>2, <1>2, FS_Subset
<1>4. q = [k \in 1..n |-> s[o[k]]]
  BY DEF Only
<1> HIDE DEF I, q, n
<1>5. n \in Nat /\ o \in [1..n -> I]
  <2>1. [x \in I |-> x] \in [I -> Int]
    BY <1>3
  <2>. QED BY <1>3, <2>1, InOrderFacts DEF Ascending, n
<1> HIDE DEF o
<1>6. q \in [1..n -> T]
  BY <1>1, <1>2, <1>4, <1>5
<1>. QED BY <1>5, <1>6, SeqDef DEF q

\* The read-ahead control, apart from its chain of devices
AheadRec(a) == a \in [pc : {"wait", "run", "gather", "reading"}, sem : {a.sem}, chain : Seq(Devs),
                      dd : Devs \cup {NoDev}, count : {a.count}, req : Seq(Bds)]
SameAhead(a, b) == a.pc = b.pc /\ a.req = b.req /\ a.dd = b.dd /\ a.count = b.count
DevRec == [bds_per_group : 1 .. MaxBdsPerGroup, trigger : Int, next : Int, nr_blocks : Int]

\* Taking a device off the read-ahead chain leaves the request of the read-ahead task alone.
LEMMA CancelledFacts ==
  ASSUME NEW a, AheadRec(a), NEW d \in Devs
  PROVE  AheadRec(Cancelled(a, d)) /\ SameAhead(Cancelled(a, d), a)
<1>1. a.chain \in Seq(Devs)
  BY DEF AheadRec
<1>2. Without(a.chain, {d}) \in Seq(Devs)
  BY <1>1, OnlyType DEF Without
<1> DEFINE c == Without(a.chain, {d})
<1>3. Cancelled(a, d) = [a EXCEPT !.chain = c]
  BY DEF Cancelled
<1> HIDE DEF c
<1>. QED BY <1>2, <1>3 DEF AheadRec, SameAhead, c

\* Putting a device on the read-ahead chain leaves the request of the read-ahead task alone.
LEMMA AddedToChainFacts ==
  ASSUME NEW a, AheadRec(a), NEW d \in Devs
  PROVE  AheadRec(AddedToChain(a, d)) /\ SameAhead(AddedToChain(a, d), a)
<1>1. a.chain \in Seq(Devs)
  BY DEF AheadRec
<1>2. Append(a.chain, d) \in Seq(Devs)
  BY <1>1, AppendProperties
<1> DEFINE c == Append(a.chain, d)
           s == IF a.chain = <<>> /\ a.sem < SemMax THEN a.sem + 1 ELSE a.sem
<1>3. AddedToChain(a, d) = [a EXCEPT !.chain = c, !.sem = s]
  BY DEF AddedToChain
<1> HIDE DEF c, s
<1>. QED BY <1>2, <1>3 DEF AheadRec, SameAhead, c

\* The read-ahead trigger keeps its type, the request in progress and the block size of the device.
LEMMA TriggerFacts ==
  ASSUME NEW a, AheadRec(a), NEW d \in Devs, NEW k \in Int, NEW v \in DevRec
  PROVE  /\ AheadRec(CheckTrigger(a, v, d, k)) /\ SameAhead(CheckTrigger(a, v, d, k), a)
         /\ AheadRec(SetTriggerChain(a, d, k)) /\ SameAhead(SetTriggerChain(a, d, k), a)
         /\ CheckSize(a, v, d, k) \in DevRec /\ CheckSize(a, v, d, k).bds_per_group = v.bds_per_group
         /\ SetTrigger(v, k) \in DevRec /\ SetTrigger(v, k).bds_per_group = v.bds_per_group
<1>1. SameAhead(a, a)
  BY DEF SameAhead
<1>2. AheadRec(CheckTrigger(a, v, d, k)) /\ SameAhead(CheckTrigger(a, v, d, k), a)
  BY <1>1, AddedToChainFacts DEF CheckTrigger
<1>3. AheadRec(SetTriggerChain(a, d, k)) /\ SameAhead(SetTriggerChain(a, d, k), a)
  BY <1>1, CancelledFacts DEF SetTriggerChain
<1>4. AutoSize \in Int /\ k + 1 \in Int /\ k + 2 \in Int
  BY DEF AutoSize
<1>5. CheckSize(a, v, d, k) \in DevRec /\ CheckSize(a, v, d, k).bds_per_group = v.bds_per_group
  BY <1>4 DEF CheckSize, DevRec
<1>6. SetTrigger(v, k) \in DevRec /\ SetTrigger(v, k).bds_per_group = v.bds_per_group
  BY <1>4 DEF SetTrigger, DevRec
<1>. QED BY <1>2, <1>3, <1>5, <1>6

\* The transitions taken
LEMMA TransitionFacts ==
  /\ \A x \in {"FREE", "CACHED", "EMPTY"} :
       /\ <<x, "ACCESS_EMPTY">> \in Transitions /\ <<x, "TRANSFER">> \in Transitions
  /\ <<"FREE", "EMPTY">> \in Transitions
  /\ <<"CACHED", "ACCESS_CACHED">> \in Transitions /\ <<"MODIFIED", "ACCESS_MODIFIED">> \in Transitions
  /\ \A x \in {"CACHED", "TRANSFER", "TRANSFER_PURGED", "MODIFIED", "SYNC", "ACCESS_EMPTY", "ACCESS_PURGED"} :
       <<x, "EMPTY">> \in Transitions /\ <<x, "FREE">> \in Transitions
  /\ <<"EMPTY", "FREE">> \in Transitions
  /\ <<"TRANSFER", "CACHED">> \in Transitions /\ <<"TRANSFER", "TRANSFER_PURGED">> \in Transitions
  /\ <<"TRANSFER", "ACCESS_CACHED">> \in Transitions
  /\ <<"MODIFIED", "TRANSFER">> \in Transitions /\ <<"SYNC", "TRANSFER">> \in Transitions
  /\ <<"MODIFIED", "SYNC">> \in Transitions
  /\ <<"ACCESS_CACHED", "CACHED">> \in Transitions
  /\ \A x \in {"ACCESS_CACHED", "ACCESS_EMPTY", "ACCESS_MODIFIED"} :
       /\ <<x, "ACCESS_PURGED">> \in Transitions /\ <<x, "SYNC">> \in Transitions
  /\ \A x \in Access \ {"ACCESS_PURGED"} : <<x, "MODIFIED">> \in Transitions
<1>1. \A x, y : <<x, y>> \in Diagram => <<x, y>> \in Transitions
  BY DEF Transitions
<1>2. ASSUME NEW x, NEW y, <<x, "EMPTY">> \in Diagram, <<"EMPTY", y>> \in Diagram
      PROVE  <<x, y>> \in Transitions
  <2> DEFINE p == <<x, "EMPTY">>
             q == <<"EMPTY", y>>
  <2>1. p \in {e \in Diagram : e[2] = "EMPTY"} /\ p[1] = x
    BY <1>2
  <2>2. q \in {e \in Diagram : e[1] = "EMPTY"} /\ q[2] = y
    BY <1>2
  <2>3. x \in {e[1] : e \in {i \in Diagram : i[2] = "EMPTY"}}
    BY <2>1
  <2>4. y \in {e[2] : e \in {i \in Diagram : i[1] = "EMPTY"}}
    BY <2>2
  <2>5. <<x, y>> \in ThroughEmpty
    BY <2>3, <2>4 DEF ThroughEmpty
  <2>. QED BY <2>5 DEF Transitions
<1>3. <<"EMPTY", "ACCESS_EMPTY">> \in Diagram /\ <<"EMPTY", "TRANSFER">> \in Diagram
      /\ <<"EMPTY", "FREE">> \in Diagram /\ <<"FREE", "EMPTY">> \in Diagram
  BY DEF Diagram
<1>4. \A x \in {"CACHED", "TRANSFER", "TRANSFER_PURGED", "MODIFIED", "SYNC", "ACCESS_EMPTY", "ACCESS_PURGED"} :
        <<x, "EMPTY">> \in Diagram
  BY DEF Diagram
<1>5. /\ <<"CACHED", "ACCESS_CACHED">> \in Diagram /\ <<"MODIFIED", "ACCESS_MODIFIED">> \in Diagram
      /\ <<"TRANSFER", "CACHED">> \in Diagram /\ <<"TRANSFER", "TRANSFER_PURGED">> \in Diagram
      /\ <<"MODIFIED", "TRANSFER">> \in Diagram /\ <<"SYNC", "TRANSFER">> \in Diagram
      /\ <<"MODIFIED", "SYNC">> \in Diagram
      /\ <<"ACCESS_CACHED", "CACHED">> \in Diagram
  BY DEF Diagram
<1>6. \A x \in {"ACCESS_CACHED", "ACCESS_EMPTY", "ACCESS_MODIFIED"} :
        /\ <<x, "ACCESS_PURGED">> \in Diagram /\ <<x, "SYNC">> \in Diagram
  BY DEF Diagram
<1>7. \A x \in Access \ {"ACCESS_PURGED"} : <<x, "MODIFIED">> \in Diagram
  BY DEF Access, Diagram
<1>8. <<"TRANSFER", "ACCESS_CACHED">> \in Transitions
  BY DEF Transitions
<1>. QED BY <1>1, <1>2, <1>3, <1>4, <1>5, <1>6, <1>7, <1>8

\* A task that changes its own record and wakes nobody.
LEMMA PlainStep ==
  ASSUME task \in TaskFun, NEW t \in Tasks, NEW r \in TaskRec, task' = [task EXCEPT ![t] = r]
  PROVE  /\ task' \in TaskFun /\ OthersKept(t) /\ task'[t] = r
         /\ \A u \in Tasks \ {t} : task'[u] = task[u]
BY DEF TaskFun, OthersKept

\* What every step must do: keep the invariant, follow the diagram but for the
\* one deviation, not fail but for an invalid deadline.
Moves ==
    \A x \in Bds :
        \/ bd'[x].state = bd[x].state \/ <<bd[x].state, bd'[x].state>> \in Transitions
        \/ ReleasedLate(x)
Good ==
    /\ Inv'
    /\ ~hist'.orphan => Moves
    /\ fatal' => fatal \/ hist'.orphan \/ hist'.resized \/ swap'.pc = "einval"

CountHyp(t, b) ==
    \A h \in Groups : group'[h].users =
            Cardinality(Used(h)) + Cardinality(Sleepers(h) \ {t})
            + IF h # GroupOf(b) THEN 0
              ELSE One(bd'[b].state \in InUse) - One(bd[b].state \in InUse)
                   + One(task'[t].pc \in BdWait)

\* The invariant after a step on one buffer, from its lists, its own clause and the counts.
LEMMA Closing ==
  ASSUME Inv, TypeOK', NEW t \in Tasks, NEW b \in Live, OnBuffer(t, b),
         ListsInv', BufferInv(b)', CountHyp(t, b)
  PROVE  Inv'
<1>1. /\ \A x \in Bds \ {b} : BufferInv(x)'
      /\ KeysInv' /\ TasksInv' /\ RequestsInv' /\ SizesInv'
  BY OnBufferStep
<1>2. \A x \in Bds : BufferInv(x)'
  BY <1>1
<1>3. CountInv'
  <2>1. group' \in GroupFun
    BY DEF TypeOK
  <2>2. task'[t].pc \in BdWait => task'[t].bd = b
    BY DEF OnBuffer, Place
  <2>. QED BY <2>1, <2>2, CountOneStep DEF OnBuffer, SameSizes, CountHyp
<1>. QED BY <1>1, <1>2, <1>3 DEF Inv

\* The groups as they are counted after t has come to wait, or b in or out of use.
Counted(g, b, n) ==
    /\ group' \in GroupFun
    /\ \A h \in Groups :
         /\ group'[h].bds_per_group = g[h].bds_per_group
         /\ group'[h].users = IF h = GroupOf(b) THEN g[h].users + n ELSE g[h].users

\* rtems_bdbuf_group_obtain and group_release count in the group of the buffer only.
LEMMA CountedUsers ==
  ASSUME NEW g \in GroupFun, NEW b \in Bds, NEW n \in Int, group' = Users(g, GroupOf(b), n)
  PROVE  Counted(g, b, n)
<1>1. GroupOf(b) \in Groups
  BY GroupFacts
<1>. QED BY <1>1, UsersFacts DEF Counted

\* The counts that CountOneStep needs, from what the step adds to the group.
LEMMA CountedStep ==
  ASSUME NEW t, NEW b \in Bds, NEW g, CountsWithout(t, g), NEW n \in Int,
         Counted(g, b, n),
         n = One(bd'[b].state \in InUse) - One(bd[b].state \in InUse) + One(task'[t].pc \in BdWait)
  PROVE  CountHyp(t, b) /\ group' \in GroupFun
         /\ \A h \in Groups : group'[h].bds_per_group = group[h].bds_per_group
<1>1. g \in GroupFun /\ GroupOf(b) \in Groups
  BY GroupFacts DEF CountsWithout
<1>2. /\ group' \in GroupFun
      /\ \A h \in Groups :
              /\ group'[h].bds_per_group = g[h].bds_per_group
              /\ group'[h].users = IF h = GroupOf(b) THEN g[h].users + n ELSE g[h].users
  BY DEF Counted
<1>3. \A h \in Groups : /\ g[h].bds_per_group = group[h].bds_per_group
                        /\ g[h].users \in Int
                        /\ g[h].users = Cardinality(Used(h)) + Cardinality(Sleepers(h) \ {t})
  BY <1>1 DEF CountsWithout, GroupFun
<1>4. ASSUME NEW h \in Groups
      PROVE  group'[h].users = Cardinality(Used(h)) + Cardinality(Sleepers(h) \ {t})
            + IF h # GroupOf(b) THEN 0
              ELSE One(bd'[b].state \in InUse) - One(bd[b].state \in InUse)
                   + One(task'[t].pc \in BdWait)
  <2> DEFINE k == Cardinality(Used(h)) + Cardinality(Sleepers(h) \ {t})
             e == One(bd'[b].state \in InUse) - One(bd[b].state \in InUse) + One(task'[t].pc \in BdWait)
  <2>1. k \in Int /\ g[h].users = k
    BY <1>3
  <2>2. e = n
    OBVIOUS
  <2> HIDE DEF k, e
  <2>3. group'[h].users = k + IF h # GroupOf(b) THEN 0 ELSE e
    BY <1>2, <2>1, <2>2
  <2>. QED BY <2>3 DEF k, e
<1>. QED BY <1>2, <1>3, <1>4 DEF CountHyp

Aside == UNCHANGED <<disk, swap, worker, free_workers, syncing>>

\* Who may come for a buffer: t does not have one, and g counts the others.
Comes(t, c, b, g) ==
    /\ c \in TaskRec /\ c.dd \in Devs
    /\ b \in Live /\ bd[b].state # "FREE"
    /\ CountsWithout(t, g)
    /\ task[t].pc \notin OwnPc \cup {"reading"}
    /\ task[t].pc \in BdWait => task[t].bd = b

\* wait_for_access, wait_for_recycle and wait_for_sync going to sleep on a buffer.
LEMMA SleepStep ==
  ASSUME Inv, NEW t \in Tasks, NEW c, NEW b, NEW g, Comes(t, c, b, g),
         NEW pc \in BdWait, NEW cv \in {"access", "transfer"}, pc = "rec" => hist.resized,
         bd[b].state # "EMPTY",
         Sleep(t, c, pc, b, cv, g), UNCHANGED <<bd, lists, fatal>>, Aside
  PROVE  Good
<1>1. c \in TaskRec /\ c.dd \in Devs /\ b \in Live /\ bd[b].state # "FREE" /\ CountsWithout(t, g)
  BY DEF Comes
<1>2. TypeOK /\ ListsInv
  BY DEF Inv
<1>3. b \in Bds /\ GroupOf(b) \in Groups /\ b \in Int
  BY <1>1, <1>2, LiveFacts, GroupFacts DEF TypeOK
<1>4. pc \in TaskPc /\ cv \in {"none", "access", "transfer", "buffer"}
  BY DEF TaskPc
<1> DEFINE r == At(c, pc, b, cv)
<1>5. r \in TaskRec /\ r.pc = pc /\ r.bd = b /\ r.dd = c.dd
  BY <1>1, <1>3, <1>4, AtFacts
<1>6. task' = [task EXCEPT ![t] = r]
  BY DEF Sleep
<1> HIDE DEF r
<1>7. /\ task' \in TaskFun /\ OthersKept(t)
      /\ task'[t].pc = pc /\ task'[t].bd = b /\ task'[t].dd \in Devs
  <2>1. task \in TaskFun
    BY <1>2 DEF TypeOK
  <2>2. task' \in TaskFun /\ OthersKept(t) /\ task'[t] = r
    BY <2>1, <1>5, <1>6, PlainStep
  <2>. QED BY <1>1, <1>5, <2>2
<1>8. group' = Users(g, GroupOf(b), 1) /\ UNCHANGED <<bd, tree, lru, modified, sync, dev, ahead, hist>>
  BY DEF Sleep, lists
<1>9. 1 = One(bd'[b].state \in InUse) - One(bd[b].state \in InUse) + One(task'[t].pc \in BdWait)
  BY <1>7, <1>8 DEF One
<1>10. CountHyp(t, b) /\ group' \in GroupFun
       /\ \A h \in Groups : group'[h].bds_per_group = group[h].bds_per_group
  <2>1. Counted(g, b, 1)
    BY <1>1, <1>3, <1>8, CountedUsers DEF CountsWithout
  <2>. QED BY <1>1, <1>3, <1>9, <2>1, CountedStep
<1>11. TypeOK'
  BY <1>2, <1>7, <1>8, <1>10 DEF TypeOK, Aside
<1>12. OnBuffer(t, b)
  <2>1. SameRequests /\ SameSizes
    BY <1>8, <1>10 DEF SameRequests, SameSizes, Aside
  <2>2. Place(t) => task[t].bd = b
    BY DEF Comes, Place
  <2>3. task'[t].pc \in {"rec", "search"} => hist.resized
    BY <1>7 DEF BdWait
  <2>4. task'[t].pc \in BdWait /\ task'[t].bd = b
    BY <1>7
  <2>. QED BY <1>7, <1>8, <2>1, <2>2, <2>3, <2>4 DEF OnBuffer, Aside, Place
<1>13. /\ Live' = Live
       /\ \A S : In(S)' = IF bd'[b].state \in S THEN In(S) \cup {b} ELSE In(S) \ {b}
       /\ Owners(b)' = IF task'[t].pc \in OwnPc THEN Owners(b) \cup {t} ELSE Owners(b) \ {t}
       /\ Waiting(b)' = IF task'[t].pc \in BdWait THEN Waiting(b) \cup {t} ELSE Waiting(b) \ {t}
       /\ Drivers(b)' = IF task'[t].pc = "reading" THEN Drivers(b) \cup {t} ELSE Drivers(b) \ {t}
  BY <1>1, <1>11, <1>12, OnBufferStep
<1>14. \A S : In(S)' = In(S)
  BY <1>8, <1>13, InSame
<1>15. ListsInv'
  BY <1>2, <1>8, <1>14 DEF ListsInv
<1>16. BufferInv(b)'
  <2>1. BufferInv(b)
    BY <1>3 DEF Inv
  <2>2. t \notin Owners(b) /\ t \notin Drivers(b)
    BY BdbufAssumption DEF Comes, Owners, Drivers
  <2>3. pc \notin OwnPc /\ pc # "reading"
    BY DEF BdWait, OwnPc
  <2>4. Owners(b)' = Owners(b) /\ Drivers(b)' = Drivers(b) /\ Waiting(b)' = Waiting(b) \cup {t}
    BY <1>7, <1>13, <2>2, <2>3
  <2>. QED BY <1>1, <1>8, <1>13, <2>1, <2>4 DEF BufferInv, Sound
<1>17. Inv'
  BY <1>1, <1>10, <1>11, <1>12, <1>15, <1>16, Closing
<1>. QED BY <1>8, <1>17 DEF Good, Moves

HistRec(h) ==
    h \in [latest : {h.latest}, lost : {h.lost}, version : Int, orphan : {h.orphan},
           resized : {h.resized}, pending : {h.pending}, stale : {h.stale}]

\* What get and read make of the buffer they return: accessed, or handed to the driver.
LEMMA GrantFacts ==
  ASSUME TypeOK, NEW t \in Tasks, NEW c \in TaskRec, c.dd \in Devs, NEW b \in Bds, NEW f \in BdFun,
         f[b].state \in {"EMPTY", "CACHED", "MODIFIED"}, NEW g, NEW cvs,
         Grant(t, c, b, f, g, cvs)
  PROVE  /\ bd' \in BdFun
         /\ \A x \in Bds \ {b} : bd'[x] = f[x]
         /\ bd'[b].dd = f[b].dd /\ bd'[b].block = f[b].block /\ bd'[b].val = f[b].val
         /\ \/ /\ f[b].state = "EMPTY" /\ bd'[b].state = "TRANSFER" /\ task'[t].pc = "reading"
            \/ /\ f[b].state = "EMPTY" /\ bd'[b].state = "ACCESS_EMPTY" /\ task'[t].pc = "holding"
            \/ /\ f[b].state = "CACHED" /\ bd'[b].state = "ACCESS_CACHED" /\ task'[t].pc = "holding"
            \/ /\ f[b].state = "MODIFIED" /\ bd'[b].state = "ACCESS_MODIFIED" /\ task'[t].pc = "holding"
         /\ group' = Users(g, GroupOf(b), 1)
         /\ task' \in TaskFun /\ OthersKept(t)
         /\ task'[t].bd = b /\ task'[t].dd = c.dd /\ task'[t].cv = "none"
         /\ \A u \in Tasks \ {t} : task'[u].cv = IF task[u].cv \in cvs THEN "none" ELSE task[u].cv
         /\ dev' \in DevFun /\ \A d \in Devs : dev'[d].bds_per_group = dev[d].bds_per_group
         /\ AheadRec(ahead') /\ SameAhead(ahead', ahead)
         /\ HistRec(hist') /\ hist'.orphan = hist.orphan /\ hist'.resized = hist.resized
         /\ hist'.latest = hist.latest /\ hist'.lost = hist.lost /\ hist'.version = hist.version
         /\ hist'.stale = hist.stale
         /\ hist'.pending = {p \in hist.pending :
                ~(p.dd = f[b].dd /\ p.m \in Extent(f[b].block, g[GroupOf(b)].bds_per_group))}
         /\ owner' = None
<1> DEFINE d == c.dd
           miss == c.op = "read" /\ f[b].state = "EMPTY"
           v == IF miss THEN SetTrigger(dev[d], c.block) ELSE dev[d]
           a == IF miss THEN SetTriggerChain(ahead, d, c.block) ELSE ahead
           st == IF miss THEN "TRANSFER" ELSE AccessOf[f[b].state]
           pc == IF miss THEN "reading" ELSE "holding"
           r == At(c, pc, b, "none")
           W == {p \in hist.pending : ~(p.dd = f[b].dd /\ p.m \in Extent(f[b].block, g[GroupOf(b)].bds_per_group))}
<1>1. /\ bd' = [f EXCEPT ![b].state = st]
      /\ group' = Users(g, GroupOf(b), 1)
      /\ task' = Woken(cvs, [task EXCEPT ![t] = r])
      /\ \/ /\ dev' = [dev EXCEPT ![d] = CheckSize(a, v, d, c.block)]
            /\ ahead' = CheckTrigger(a, v, d, c.block)
         \/ dev' = [dev EXCEPT ![d] = v] /\ ahead' = a
      /\ hist' = [hist EXCEPT !.pending = W]
      /\ owner' = None
  BY DEF Grant
<1>2. /\ d \in Devs /\ dev[d] \in DevRec /\ c.block \in Int /\ AheadRec(ahead) /\ SameAhead(ahead, ahead)
      /\ task \in TaskFun /\ dev \in DevFun /\ HistRec(hist) /\ b \in Int
  <2>1. b \in Int
    BY GroupFacts
  <2>. QED BY <2>1 DEF TypeOK, DevFun, DevRec, AheadRec, SameAhead, HistRec, TaskRec
<1>3. v \in DevRec /\ v.bds_per_group = dev[d].bds_per_group /\ AheadRec(a) /\ SameAhead(a, ahead)
  <2>1. /\ SetTrigger(dev[d], c.block) \in DevRec
        /\ SetTrigger(dev[d], c.block).bds_per_group = dev[d].bds_per_group
        /\ AheadRec(SetTriggerChain(ahead, d, c.block)) /\ SameAhead(SetTriggerChain(ahead, d, c.block), ahead)
    BY <1>2, TriggerFacts
  <2>2. CASE miss
    <3>1. v = SetTrigger(dev[d], c.block) /\ a = SetTriggerChain(ahead, d, c.block)
      BY <2>2
    <3> HIDE DEF v, a
    <3>. QED BY <2>1, <3>1
  <2>3. CASE ~miss
    <3>1. v = dev[d] /\ a = ahead
      BY <2>3
    <3> HIDE DEF v, a
    <3>. QED BY <1>2, <3>1
  <2>. QED BY <2>2, <2>3
<1> HIDE DEF v, a
<1>4. /\ dev' \in DevFun /\ \A e \in Devs : dev'[e].bds_per_group = dev[e].bds_per_group
  <2>1. PICK u \in DevRec : u.bds_per_group = dev[d].bds_per_group /\ dev' = [dev EXCEPT ![d] = u]
    BY <1>1, <1>2, <1>3, TriggerFacts
  <2>. QED BY <2>1, <1>2 DEF DevFun, DevRec
<1>5. AheadRec(ahead') /\ SameAhead(ahead', ahead)
  <2>1. AheadRec(CheckTrigger(a, v, d, c.block)) /\ SameAhead(CheckTrigger(a, v, d, c.block), a)
    BY <1>2, <1>3, TriggerFacts
  <2>. QED BY <1>1, <1>3, <2>1 DEF SameAhead
<1>6. /\ st \in States
      /\ \/ /\ f[b].state = "EMPTY" /\ st = "TRANSFER" /\ pc = "reading"
         \/ /\ f[b].state = "EMPTY" /\ st = "ACCESS_EMPTY" /\ pc = "holding"
         \/ /\ f[b].state = "CACHED" /\ st = "ACCESS_CACHED" /\ pc = "holding"
         \/ /\ f[b].state = "MODIFIED" /\ st = "ACCESS_MODIFIED" /\ pc = "holding"
  BY DEF AccessOf, States, Access, Transferring
<1>7. pc \in TaskPc /\ "none" \in {"none", "access", "transfer", "buffer"}
  BY DEF TaskPc, OwnPc
<1> HIDE DEF st, pc
<1>8. r \in TaskRec /\ r.pc = pc /\ r.bd = b /\ r.dd = d /\ r.cv = "none"
  BY <1>2, <1>7, AtFacts
<1> HIDE DEF r
<1>9. /\ task' \in TaskFun /\ OthersKept(t)
      /\ task'[t].pc = pc /\ task'[t].bd = b /\ task'[t].dd = d
      /\ task'[t].cv = "none"
      /\ \A u \in Tasks \ {t} : task'[u].cv = IF task[u].cv \in cvs THEN "none" ELSE task[u].cv
  <2>1. task' = Woken(cvs, [task EXCEPT ![t] = r])
    BY <1>1
  <2>2. /\ task' \in TaskFun /\ OthersKept(t)
        /\ task'[t].pc = r.pc /\ task'[t].bd = r.bd /\ task'[t].dd = r.dd
        /\ task'[t].cv = IF r.cv \in cvs THEN "none" ELSE r.cv
        /\ \A u \in Tasks \ {t} : task'[u].cv = IF task[u].cv \in cvs THEN "none" ELSE task[u].cv
    BY <2>1, <1>2, <1>8, TaskStep, ZenonT(60)
  <2>. QED BY <2>2, <1>8
<1>10. /\ bd' \in BdFun
       /\ \A x \in Bds \ {b} : bd'[x] = f[x]
       /\ bd'[b].state = st
       /\ bd'[b].dd = f[b].dd /\ bd'[b].block = f[b].block /\ bd'[b].val = f[b].val
  <2> DEFINE u == [f[b] EXCEPT !.state = st]
  <2>1. f[b] \in BdRec
    BY DEF BdFun
  <2>2. u \in BdRec /\ u.state = st /\ u.dd = f[b].dd /\ u.block = f[b].block /\ u.val = f[b].val
    BY <2>1, <1>6 DEF BdRec
  <2>3. bd' = [f EXCEPT ![b] = u]
    BY <1>1
  <2> HIDE DEF u
  <2>. QED BY <2>2, <2>3 DEF BdFun
<1>11. /\ HistRec(hist') /\ hist'.orphan = hist.orphan /\ hist'.resized = hist.resized
       /\ hist'.latest = hist.latest /\ hist'.lost = hist.lost /\ hist'.version = hist.version
       /\ hist'.stale = hist.stale /\ hist'.pending = W
  <2> HIDE DEF W
  <2>1. hist' = [hist EXCEPT !.pending = W]
    BY <1>1
  <2>. QED BY <2>1, <1>2, Zenon DEF HistRec
<1>. QED BY <1>1, <1>4, <1>5, <1>6, <1>9, <1>10, <1>11

\* Two counts in one group add up.
LEMMA TwoUsers ==
  ASSUME NEW g \in GroupFun, NEW b \in Bds, NEW m \in Int, NEW n \in Int,
         group' = Users(Users(g, GroupOf(b), m), GroupOf(b), n)
  PROVE  Counted(g, b, m + n)
<1>1. GroupOf(b) \in Groups
  BY GroupFacts
<1> DEFINE k == Users(g, GroupOf(b), m)
<1>2. /\ k \in GroupFun
      /\ \A h \in Groups :
            /\ k[h].bds_per_group = g[h].bds_per_group
            /\ k[h].users = IF h = GroupOf(b) THEN g[h].users + m ELSE g[h].users
  BY <1>1, UsersFacts
<1> HIDE DEF k
<1>3. /\ group' \in GroupFun
      /\ \A h \in Groups :
            /\ group'[h].bds_per_group = k[h].bds_per_group
            /\ group'[h].users = IF h = GroupOf(b) THEN k[h].users + n ELSE k[h].users
  BY <1>1, <1>2, UsersFacts DEF k
<1>4. \A h \in Groups : g[h].users \in Int
  BY DEF GroupFun
<1>. QED BY <1>2, <1>3, <1>4 DEF Counted

\* The buffer a task came for is given to it.
LEMMA GrantStep ==
  ASSUME Inv, NEW t \in Tasks, NEW c, NEW b, NEW g, Comes(t, c, b, g),
         bd[b].state \in {"MODIFIED", "CACHED", "EMPTY"},
         modified' = Without(modified, {b}), lru' = Without(lru, {b}),
         Grant(t, c, b, bd, IF bd[b].state = "MODIFIED" THEN Users(g, GroupOf(b), -1) ELSE g, {}),
         UNCHANGED <<tree, sync, fatal>>, Aside
  PROVE  Good
<1>1. c \in TaskRec /\ c.dd \in Devs /\ b \in Live /\ bd[b].state # "FREE" /\ CountsWithout(t, g) /\ g \in GroupFun
  BY DEF Comes, CountsWithout
<1>2. TypeOK /\ ListsInv /\ bd \in BdFun
  BY DEF Inv, TypeOK
<1>3. b \in Bds /\ GroupOf(b) \in Groups
  BY <1>1, <1>2, LiveFacts, GroupFacts DEF TypeOK
<1> DEFINE k == IF bd[b].state = "MODIFIED" THEN Users(g, GroupOf(b), -1) ELSE g
<1>4. /\ bd' \in BdFun
      /\ \A x \in Bds \ {b} : bd'[x] = bd[x]
      /\ bd'[b].dd = bd[b].dd /\ bd'[b].block = bd[b].block
      /\ \/ /\ bd[b].state = "EMPTY" /\ bd'[b].state = "TRANSFER" /\ task'[t].pc = "reading"
         \/ /\ bd[b].state = "EMPTY" /\ bd'[b].state = "ACCESS_EMPTY" /\ task'[t].pc = "holding"
         \/ /\ bd[b].state = "CACHED" /\ bd'[b].state = "ACCESS_CACHED" /\ task'[t].pc = "holding"
         \/ /\ bd[b].state = "MODIFIED" /\ bd'[b].state = "ACCESS_MODIFIED" /\ task'[t].pc = "holding"
      /\ group' = Users(k, GroupOf(b), 1)
      /\ task' \in TaskFun /\ OthersKept(t)
      /\ task'[t].bd = b /\ task'[t].dd = c.dd
      /\ dev' \in DevFun /\ \A d \in Devs : dev'[d].bds_per_group = dev[d].bds_per_group
      /\ AheadRec(ahead') /\ SameAhead(ahead', ahead)
      /\ HistRec(hist') /\ hist'.orphan = hist.orphan /\ hist'.resized = hist.resized
  <2> HIDE DEF k
  <2>1. Grant(t, c, b, bd, k, {})
    BY DEF k
  <2>. QED BY <1>1, <1>2, <1>3, <2>1, GrantFacts
<1>5. bd'[b].state \in InUse /\ task'[t].pc \notin BdWait
      /\ bd'[b].state \notin {"FREE", "CACHED"} /\ bd'[b].state # "MODIFIED" /\ bd'[b].state # "SYNC"
  BY <1>4 DEF InUse, Access, Transferring, BdWait
<1>6. CountHyp(t, b) /\ group' \in GroupFun
       /\ \A h \in Groups : group'[h].bds_per_group = group[h].bds_per_group
  <2>1. CASE bd[b].state = "MODIFIED"
    <3>1. group' = Users(Users(g, GroupOf(b), -1), GroupOf(b), 1) /\ -1 \in Int /\ 1 \in Int
      BY <1>4, <2>1
    <3>2. Counted(g, b, (-1) + 1) /\ (-1) + 1 = 0 /\ 0 \in Int
      BY <1>1, <1>3, <3>1, TwoUsers
    <3>3. 0 = One(bd'[b].state \in InUse) - One(bd[b].state \in InUse) + One(task'[t].pc \in BdWait)
      BY <1>5, <2>1 DEF One, InUse
    <3>. QED BY <1>1, <1>3, <3>2, <3>3, CountedStep
  <2>2. CASE bd[b].state # "MODIFIED"
    <3>1. group' = Users(g, GroupOf(b), 1) /\ 1 \in Int
      BY <1>4, <2>2
    <3>2. Counted(g, b, 1)
      BY <1>1, <1>3, <3>1, CountedUsers
    <3>3. 1 = One(bd'[b].state \in InUse) - One(bd[b].state \in InUse) + One(task'[t].pc \in BdWait)
      <4>1. bd[b].state \notin InUse
        BY <2>2 DEF InUse, Access, Transferring
      <4>. QED BY <1>5, <4>1 DEF One
    <3>. QED BY <1>1, <1>3, <3>1, <3>2, <3>3, CountedStep
  <2>. QED BY <2>1, <2>2
<1> HIDE DEF k
<1>7. lru' \in Seq(Bds)
  BY <1>2, OnlyType DEF Without, ListsInv, IsList
<1>8. TypeOK'
  BY <1>2, <1>4, <1>6 DEF TypeOK, Aside, AheadRec, HistRec
<1>9. OnBuffer(t, b)
  <2>1. SameRequests /\ SameSizes
    BY <1>4, <1>6 DEF SameRequests, SameSizes, Aside, SameAhead
  <2>2. Place(t) => task[t].bd = b
    BY DEF Comes, Place
  <2>3. task'[t].pc \notin {"rec", "search"} /\ task'[t].dd \in Devs
    BY <1>1, <1>4
  <2>. QED BY <1>4, <2>1, <2>2, <2>3 DEF OnBuffer, Aside, Place, SameAhead
<1>13. /\ Live' = Live
       /\ \A S : In(S)' = IF bd'[b].state \in S THEN In(S) \cup {b} ELSE In(S) \ {b}
       /\ Owners(b)' = IF task'[t].pc \in OwnPc THEN Owners(b) \cup {t} ELSE Owners(b) \ {t}
       /\ Waiting(b)' = IF task'[t].pc \in BdWait THEN Waiting(b) \cup {t} ELSE Waiting(b) \ {t}
       /\ Drivers(b)' = IF task'[t].pc = "reading" THEN Drivers(b) \cup {t} ELSE Drivers(b) \ {t}
  BY <1>1, <1>8, <1>9, OnBufferStep
<1>15. ListsInv'
  <2>1. /\ In({"FREE", "CACHED"})' = In({"FREE", "CACHED"}) \ {b}
        /\ In({"MODIFIED"})' = In({"MODIFIED"}) \ {b}
        /\ In({"SYNC"})' = In({"SYNC"}) \ {b}
    BY <1>13, <1>5
  <2>2. b \notin In({"SYNC"})
    BY DEF In
  <2>3. IsList(Bds, Without(lru, {b}), In({"FREE", "CACHED"}) \ {b})
        /\ IsList(Bds, Without(modified, {b}), In({"MODIFIED"}) \ {b})
    BY <1>2, WithoutFacts DEF ListsInv
  <2>4. In({"SYNC"})' = In({"SYNC"})
    BY <2>1, <2>2
  <2>. QED BY <1>2, <2>1, <2>3, <2>4 DEF ListsInv
<1>16. BufferInv(b)'
  <2>1. BufferInv(b)
    BY <1>3 DEF Inv
  <2>2. Owners(b) = {} /\ Drivers(b) = {}
    BY <2>1 DEF BufferInv, Access, AtDriver
  <2>3. /\ task'[t].pc = "reading" => Owners(b)' = {} /\ Drivers(b)' = {t}
        /\ task'[t].pc = "holding" => Owners(b)' = {t} /\ Drivers(b)' = {}
    BY <1>13, <2>2 DEF OwnPc
  <2>4. bd'[b].state # "EMPTY" /\ bd'[b].state # "FREE"
    BY <1>4
  <2>5. bd[b].dd \in Devs /\ (Sound => b \in tree)
    BY <1>1, <2>1 DEF BufferInv
  <2>6. CASE bd'[b].state = "TRANSFER"
    <3>1. bd'[b].state \in AtDriver /\ bd'[b].state \notin Access /\ task'[t].pc = "reading"
      BY <1>4, <2>6 DEF AtDriver, Access
    <3>. QED BY <1>1, <1>4, <1>13, <2>3, <2>4, <2>5, <3>1 DEF BufferInv, Sound
  <2>7. CASE bd'[b].state # "TRANSFER"
    <3>1. bd'[b].state \notin AtDriver /\ bd'[b].state \in Access /\ task'[t].pc = "holding"
      BY <1>4, <2>7 DEF AtDriver, Access
    <3>. QED BY <1>1, <1>4, <1>13, <2>3, <2>4, <2>5, <3>1 DEF BufferInv, Sound
  <2>. QED BY <2>6, <2>7
<1>17. Inv'
  BY <1>1, <1>6, <1>8, <1>9, <1>15, <1>16, Closing
<1>18. Moves
  <2>1. <<bd[b].state, bd'[b].state>> \in Transitions
    BY <1>4, TransitionFacts
  <2>. QED BY <1>4, <2>1 DEF Moves
<1>. QED BY <1>17, <1>18 DEF Good

\* A step that touches none of the variables of the invariant.
LEMMA InvFrame ==
  ASSUME Inv, UNCHANGED <<bd, tree, lru, modified, sync, group, dev, disk, task, swap, worker,
                          free_workers, syncing, ahead, hist>>
  PROVE  Inv' /\ Moves
<1>1. TypeOK'
  BY DEF Inv, TypeOK
<1>2. ListsInv' /\ KeysInv'
  BY DEF Inv, ListsInv, KeysInv, In, Live
<1>3. TasksInv' /\ RequestsInv' /\ SizesInv'
  BY DEF Inv, TasksInv, RequestsInv, SizesInv
<1>4. CountInv'
  BY DEF Inv, CountInv, Used, Sleepers
<1>5. ASSUME NEW b \in Bds PROVE BufferInv(b)'
  <2>1. Live' = Live
    BY LiveFrame
  <2>2. Owners(b)' = Owners(b) /\ Waiting(b)' = Waiting(b)
    BY DEF Owners, Waiting
  <2>3. Drivers(b)' = Drivers(b)
    BY DEF Drivers
  <2>4. SameBuffer(b)
    BY <2>1, <2>2, <2>3 DEF SameBuffer
  <2>. QED BY <2>4, BufferFrame DEF Inv
<1>. QED BY <1>1, <1>2, <1>3, <1>4, <1>5 DEF Inv, Moves

\* An assertion that ends the program leaves the cache as it was.
LEMMA FatalStep ==
  ASSUME Inv, Fatal, Aside, hist.orphan \/ hist.resized
  PROVE  Good
<1>1. UNCHANGED <<bd, tree, lru, modified, sync, group, dev, disk, task, swap, worker,
                          free_workers, syncing, ahead, hist>>
  BY DEF Fatal, Aside, lists
<1>. QED BY <1>1, InvFrame DEF Good

\* Waited, as a set
LEMMA WaitedFacts ==
  ASSUME NEW t, NEW b
  PROVE  Waited(t, b) <=> Waiting(b) \ {t} # {}
BY DEF Waited, Waiting

\* rtems_bdbuf_wait_for_access, from a first look or after a wake-up.
LEMMA WaitForAccessStep ==
  ASSUME Inv, NEW t \in Tasks, NEW c, NEW b, NEW g, Comes(t, c, b, g),
         WaitForAccess(t, c, b, g), Aside
  PROVE  Good
<1>1. bd[b].state # "FREE"
  BY DEF Comes
<1>2. CASE /\ bd[b].state \in {"MODIFIED", "CACHED", "EMPTY"}
           /\ modified' = Without(modified, {b}) /\ lru' = Without(lru, {b})
           /\ Grant(t, c, b, bd, IF bd[b].state = "MODIFIED" THEN Users(g, GroupOf(b), -1) ELSE g, {})
           /\ UNCHANGED <<tree, sync, fatal>>
  BY <1>2, GrantStep
<1>3. CASE /\ bd[b].state \in Access
           /\ Sleep(t, c, "acc", b, "access", g)
           /\ UNCHANGED <<bd, lists, fatal>>
  <2>1. bd[b].state # "EMPTY" /\ "acc" \in BdWait
    BY <1>3 DEF Access, BdWait
  <2>. QED BY <1>3, <2>1, SleepStep
<1>4. CASE /\ bd[b].state \in Transferring
           /\ Sleep(t, c, "acc", b, "transfer", g)
           /\ UNCHANGED <<bd, lists, fatal>>
  <2>1. bd[b].state # "EMPTY" /\ "acc" \in BdWait
    BY <1>4 DEF Transferring, BdWait
  <2>. QED BY <1>4, <2>1, SleepStep
<1>. QED BY <1>1, <1>2, <1>3, <1>4 DEF WaitForAccess

\* A task that found no buffer to take wakes the swapout task and sleeps for any.
LEMMA SleepForBufferStep ==
  ASSUME Inv, NEW t \in Tasks, NEW c \in TaskRec, c.dd \in Devs, NEW b \in Live, NEW g,
         CountsWithout(t, g), task[t].pc \notin OwnPc \cup {"reading"},
         task[t].pc \in BdWait => task[t].bd = b /\ Waited(t, b),
         SleepForBuffer(t, c, g), Aside
  PROVE  Good
<1>2. TypeOK /\ ListsInv
  BY DEF Inv
<1>3. b \in Bds /\ GroupOf(b) \in Groups /\ -1 \in Int
  BY <1>2, LiveFacts, GroupFacts DEF TypeOK
<1>4. "buf" \in TaskPc /\ "buffer" \in {"none", "access", "transfer", "buffer"}
  BY DEF TaskPc
<1> DEFINE r == At(c, "buf", -1, "buffer")
<1>5. r \in TaskRec /\ r.pc = "buf" /\ r.dd = c.dd
  BY <1>3, <1>4, AtFacts
<1>6. task' = [task EXCEPT ![t] = r]
  BY DEF SleepForBuffer
<1> HIDE DEF r
<1>7. task' \in TaskFun /\ OthersKept(t) /\ task'[t].pc = "buf" /\ task'[t].dd \in Devs
  <2>1. task \in TaskFun
    BY <1>2 DEF TypeOK
  <2>2. task' \in TaskFun /\ OthersKept(t) /\ task'[t] = r
    BY <2>1, <1>5, <1>6, PlainStep
  <2>. QED BY <1>5, <2>2
<1>8. group' = g /\ UNCHANGED <<bd, tree, lru, modified, sync, dev, ahead, fatal>>
  BY DEF SleepForBuffer, lists
<1>18. HistRec(hist') /\ hist'.orphan = hist.orphan /\ hist'.resized = hist.resized
  <2>1. HistRec(hist)
    BY <1>2 DEF TypeOK, HistRec
  <2>2. hist' = [hist EXCEPT !.stale = @ \ {t}]
    BY DEF SleepForBuffer
  <2>. QED BY <2>1, <2>2 DEF HistRec
<1>9. task'[t].pc \notin BdWait /\ task'[t].pc \notin OwnPc /\ task'[t].pc # "reading"
  BY <1>7 DEF BdWait, OwnPc
<1>10. CountHyp(t, b) /\ group' \in GroupFun
       /\ \A h \in Groups : group'[h].bds_per_group = group[h].bds_per_group
  <2>1. Counted(g, b, 0)
    <3>1. g \in GroupFun /\ \A h \in Groups : g[h].users \in Int
      BY DEF CountsWithout, GroupFun
    <3>. QED BY <1>8, <3>1 DEF Counted
  <2>2. 0 = One(bd'[b].state \in InUse) - One(bd[b].state \in InUse) + One(task'[t].pc \in BdWait) /\ 0 \in Int
    BY <1>8, <1>9 DEF One
  <2>. QED BY <1>3, <2>1, <2>2, CountedStep
<1>11. TypeOK'
  BY <1>2, <1>7, <1>8, <1>10, <1>18 DEF TypeOK, Aside, HistRec
<1>12. OnBuffer(t, b)
  <2>1. SameRequests /\ SameSizes
    BY <1>8, <1>10, <1>18 DEF SameRequests, SameSizes, Aside
  <2>2. Place(t) => task[t].bd = b
    BY DEF Place
  <2>. QED BY <1>7, <1>8, <1>9, <1>18, <2>1, <2>2 DEF OnBuffer, Aside, Place
<1>13. /\ Live' = Live
       /\ Owners(b)' = Owners(b) \ {t} /\ Waiting(b)' = Waiting(b) \ {t} /\ Drivers(b)' = Drivers(b) \ {t}
  BY <1>9, <1>11, <1>12, OnBufferStep
<1>14. \A S : In(S)' = In(S)
  BY <1>8, <1>13, InSame
<1>15. ListsInv'
  BY <1>2, <1>8, <1>14 DEF ListsInv
<1>16. BufferInv(b)'
  <2>1. BufferInv(b)
    BY <1>3 DEF Inv
  <2>2. t \notin Owners(b) /\ t \notin Drivers(b)
    BY BdbufAssumption DEF Owners, Drivers
  <2>3. t \in Waiting(b) => Waiting(b) \ {t} # {}
    BY WaitedFacts DEF Waiting
  <2>4. Owners(b)' = Owners(b) /\ Drivers(b)' = Drivers(b) /\ (Waiting(b)' # {} <=> Waiting(b) # {})
    BY <1>13, <2>2, <2>3
  <2>. QED BY <1>8, <1>13, <1>18, <2>1, <2>4 DEF BufferInv, Sound
<1>17. Inv'
  BY <1>10, <1>11, <1>12, <1>15, <1>16, Closing
<1>. QED BY <1>8, <1>17 DEF Good, Moves

\* The lists after the state of b has changed.
Linked(b) ==
    /\ IsList(Bds, lru', IF bd'[b].state \in {"FREE", "CACHED"} THEN In({"FREE", "CACHED"}) \cup {b}
                                                                 ELSE In({"FREE", "CACHED"}) \ {b})
    /\ IsList(Bds, modified', IF bd'[b].state = "MODIFIED" THEN In({"MODIFIED"}) \cup {b}
                                                            ELSE In({"MODIFIED"}) \ {b})
    /\ IsList(Bds, sync', IF bd'[b].state = "SYNC" THEN In({"SYNC"}) \cup {b} ELSE In({"SYNC"}) \ {b})

\* The invariant after a step on one buffer that moved it to the list its state names.
LEMMA Settling ==
  ASSUME Inv, TypeOK', NEW t \in Tasks, NEW b \in Live, OnBuffer(t, b),
         Linked(b), BufferInv(b)', CountHyp(t, b)
  PROVE  Inv'
<1>1. \A S : In(S)' = IF bd'[b].state \in S THEN In(S) \cup {b} ELSE In(S) \ {b}
  BY OnBufferStep
<1>2. /\ In({"FREE", "CACHED"})' = IF bd'[b].state \in {"FREE", "CACHED"} THEN In({"FREE", "CACHED"}) \cup {b}
                                   ELSE In({"FREE", "CACHED"}) \ {b}
      /\ In({"MODIFIED"})' = IF bd'[b].state = "MODIFIED" THEN In({"MODIFIED"}) \cup {b} ELSE In({"MODIFIED"}) \ {b}
      /\ In({"SYNC"})' = IF bd'[b].state = "SYNC" THEN In({"SYNC"}) \cup {b} ELSE In({"SYNC"}) \ {b}
  BY <1>1
<1>3. ListsInv'
  BY <1>2 DEF ListsInv, Linked
<1>. QED BY <1>3, Closing

\* The buffer a task has, or has read into it.
LEMMA OwnerFacts ==
  ASSUME Inv, NEW t \in Tasks
  PROVE  /\ task[t].pc \in OwnPc =>
              /\ task[t].bd \in Live /\ task[t].bd \in Bds /\ bd[task[t].bd].state \in Access
              /\ Owners(task[t].bd) = {t} /\ Drivers(task[t].bd) = {}
         /\ task[t].pc = "reading" =>
              /\ task[t].bd \in Live /\ task[t].bd \in Bds /\ bd[task[t].bd].state \in AtDriver
              /\ Owners(task[t].bd) = {} /\ Drivers(task[t].bd) = {t}
<1>1. ASSUME task[t].pc \in OwnPc
      PROVE  /\ task[t].bd \in Live /\ task[t].bd \in Bds /\ bd[task[t].bd].state \in Access
             /\ Owners(task[t].bd) = {t} /\ Drivers(task[t].bd) = {}
  <2>1. PICK b \in Bds : b = task[t].bd
    BY <1>1 DEF Inv, TasksInv
  <2>2. t \in Owners(b) /\ BufferInv(b)
    BY <1>1, <2>1 DEF Owners, Inv
  <2>3. b \in Live /\ bd[b].state \in Access
    BY <2>2 DEF BufferInv
  <2>4. Drivers(b) = {} /\ \E u \in Tasks : Owners(b) = {u}
    BY <2>2, <2>3 DEF BufferInv
  <2>. QED BY <2>1, <2>2, <2>3, <2>4
<1>2. ASSUME task[t].pc = "reading"
      PROVE  /\ task[t].bd \in Live /\ task[t].bd \in Bds /\ bd[task[t].bd].state \in AtDriver
             /\ Owners(task[t].bd) = {} /\ Drivers(task[t].bd) = {t}
  <2>1. PICK b \in Bds : b = task[t].bd
    BY <1>2 DEF Inv, TasksInv
  <2>2. t \in Drivers(b) /\ BufferInv(b)
    BY <1>2, <2>1 DEF Drivers, Inv
  <2>3. b \in Live /\ bd[b].state \in AtDriver
    BY <2>2 DEF BufferInv
  <2>4. Owners(b) = {} /\ \E u : Drivers(b) = {u}
    BY <2>2, <2>3 DEF BufferInv
  <2>. QED BY <2>1, <2>2, <2>3, <2>4
<1>. QED BY <1>1, <1>2

\* A task gives up the buffer it has.
LEMMA GiveBack ==
  ASSUME Inv, TypeOK', NEW t \in Tasks, NEW b \in Bds, task[t].pc \in OwnPc \cup {"reading"},
         task[t].bd = b, OnBuffer(t, b), task'[t].pc \notin OwnPc \cup {"reading"},
         bd'[b].state \in {"CACHED", "MODIFIED", "SYNC", "EMPTY", "FREE"},
         bd'[b].state = "EMPTY" => Waited(t, b),
         bd'[b].state = "FREE" => ~Waited(t, b) /\ task'[t].pc \notin BdWait,
         b \in tree' <=> (b \in tree /\ bd'[b].state # "FREE"),
         Linked(b),
         Counted(group, b, One(bd'[b].state \in InUse) - 1 + One(task'[t].pc \in BdWait))
  PROVE  Inv'
<1>1. /\ b \in Live /\ bd[b].state \in Access \cup AtDriver
      /\ \/ Owners(b) = {t} /\ Drivers(b) = {}
         \/ Owners(b) = {} /\ Drivers(b) = {t}
  BY OwnerFacts
<1>2. task[t].pc \notin BdWait
  BY DEF BdWait, OwnPc
<1>3. CountHyp(t, b)
  <2>1. CountsWithout(t, group)
    BY <1>2, WithoutTask
  <2>2. bd[b].state \in InUse
    BY <1>1 DEF InUse, AtDriver, Transferring
  <2> DEFINE n == One(bd'[b].state \in InUse) - 1 + One(task'[t].pc \in BdWait)
  <2>3. n \in Int /\ n = One(bd'[b].state \in InUse) - One(bd[b].state \in InUse) + One(task'[t].pc \in BdWait)
    BY <2>2 DEF One
  <2>4. Counted(group, b, n)
    OBVIOUS
  <2> HIDE DEF n
  <2>. QED BY <2>1, <2>3, <2>4, CountedStep
<1>4. /\ Live' = Live
      /\ Owners(b)' = IF task'[t].pc \in OwnPc THEN Owners(b) \cup {t} ELSE Owners(b) \ {t}
      /\ Waiting(b)' = IF task'[t].pc \in BdWait THEN Waiting(b) \cup {t} ELSE Waiting(b) \ {t}
      /\ Drivers(b)' = IF task'[t].pc = "reading" THEN Drivers(b) \cup {t} ELSE Drivers(b) \ {t}
  BY <1>1, OnBufferStep
<1>5. Owners(b)' = {} /\ Drivers(b)' = {}
  BY <1>1, <1>4
<1>6. BufferInv(b)'
  <2>1. BufferInv(b) /\ bd'[b].dd = bd[b].dd /\ (hist.orphan => hist'.orphan)
    BY DEF Inv, OnBuffer
  <2>2. bd[b].state # "FREE" /\ bd[b].dd \in Devs
    BY <1>1, <2>1 DEF BufferInv, Access, AtDriver
  <2>3. bd'[b].state \notin Access \cup AtDriver
    BY DEF Access, AtDriver
  <2>4. bd'[b].state = "EMPTY" => Waiting(b)' # {}
    BY <1>4, WaitedFacts
  <2>5. Waiting(b)' # {} => bd'[b].state # "FREE"
    BY <1>4, WaitedFacts
  <2>6. (Sound' /\ bd'[b].state # "FREE") => b \in tree'
    BY <1>1, <2>1, <2>2 DEF BufferInv, Sound
  <2>. QED BY <1>1, <1>4, <1>5, <2>1, <2>2, <2>3, <2>4, <2>5, <2>6 DEF BufferInv
<1>. QED BY <1>1, <1>3, <1>6, Settling

\* A task changes its record to r, and then some of the others are woken.
LEMMA WokenStep ==
  ASSUME task \in TaskFun, NEW t \in Tasks, NEW r \in TaskRec, NEW cvs, NEW k,
         k = [task EXCEPT ![t] = r], task' = Woken(cvs, k)
  PROVE  /\ task' \in TaskFun /\ OthersKept(t)
         /\ task'[t].pc = r.pc /\ task'[t].bd = r.bd /\ task'[t].dd = r.dd /\ task'[t].op = r.op
         /\ task'[t].block = r.block /\ task'[t].media = r.media
         /\ task'[t].cv = IF r.cv \in cvs THEN "none" ELSE r.cv
         /\ \A u \in Tasks \ {t} : task'[u].cv = IF task[u].cv \in cvs THEN "none" ELSE task[u].cv
BY TaskStep, ZenonT(60)

\* A cached buffer of the wrong size is made free.
Recycled(t, c, b, g) ==
    /\ bd[b].state = "CACHED" /\ ~Waited(t, b) /\ b \in tree
    /\ bd' = SetState(bd, {b}, "FREE") /\ tree' = tree \ {b}
    /\ lru' = <<b>> \o Without(lru, {b})
    /\ task' = Woken({"buffer"}, [task EXCEPT ![t] = At(c, "search", -1, "none")])
    /\ group' = g /\ owner' = t
    /\ UNCHANGED <<modified, sync, dev, ahead, hist, fatal>>

\* wait_for_recycle when the buffer can be taken out of the tree.
LEMMA RecycledStep ==
  ASSUME Inv, NEW t \in Tasks, NEW c, NEW b, NEW g, Comes(t, c, b, g), hist.resized,
         Recycled(t, c, b, g), Aside
  PROVE  Good
<1>0. /\ bd[b].state = "CACHED" /\ ~Waited(t, b) /\ b \in tree
      /\ bd' = SetState(bd, {b}, "FREE") /\ tree' = tree \ {b} /\ lru' = <<b>> \o Without(lru, {b})
      /\ group' = g /\ UNCHANGED <<modified, sync, dev, ahead, hist, fatal>>
  BY DEF Recycled
<1>1. c \in TaskRec /\ c.dd \in Devs /\ b \in Live /\ CountsWithout(t, g) /\ g \in GroupFun
  BY DEF Comes, CountsWithout
<1>2. TypeOK /\ ListsInv /\ bd \in BdFun /\ task \in TaskFun
  BY DEF Inv, TypeOK
<1>3. b \in Bds /\ -1 \in Int /\ "FREE" \in States
  BY <1>1, <1>2, LiveFacts, GroupFacts DEF TypeOK, States
<1>4. "search" \in TaskPc /\ "none" \in {"none", "access", "transfer", "buffer"}
  BY DEF TaskPc
<1>6. task' \in TaskFun /\ OthersKept(t) /\ task'[t].pc = "search" /\ task'[t].dd \in Devs
  <2>1. task' \in TaskFun /\ OthersKept(t) /\ task'[t].pc = "search" /\ task'[t].dd = c.dd
    <3> DEFINE w == {"buffer"}
               r == At(c, "search", -1, "none")
               k == [task EXCEPT ![t] = r]
    <3>1. task' = Woken(w, k)
      BY DEF Recycled
    <3>2. r \in TaskRec /\ r.pc = "search" /\ r.dd = c.dd
      BY <1>1, <1>3, <1>4, AtFacts
    <3> HIDE DEF w, r
    <3>3. k = [task EXCEPT ![t] = r]
      OBVIOUS
    <3> HIDE DEF k
    <3>4. task' \in TaskFun /\ OthersKept(t) /\ task'[t].pc = r.pc /\ task'[t].dd = r.dd
      BY <1>2, <3>1, <3>2, <3>3, WokenStep
    <3>. QED BY <3>2, <3>4
  <2>. QED BY <1>1, <2>1
<1>7. task'[t].pc \notin BdWait /\ task'[t].pc \notin OwnPc /\ task'[t].pc # "reading"
  BY <1>0, <1>6 DEF BdWait, OwnPc
<1>8. /\ bd' \in BdFun
      /\ \A x \in Bds : /\ bd'[x].state = IF x \in {b} THEN "FREE" ELSE bd[x].state
                        /\ bd'[x].dd = bd[x].dd /\ bd'[x].block = bd[x].block
  BY <1>0, <1>2, <1>3, SetStateFacts
<1>9. bd'[b].state = "FREE"
  BY <1>0, <1>3, <1>8
<1>10. CountHyp(t, b) /\ group' \in GroupFun
       /\ \A h \in Groups : group'[h].bds_per_group = group[h].bds_per_group
  <2>1. Counted(g, b, 0)
    <3>1. \A h \in Groups : g[h].users \in Int
      BY <1>0, <1>1 DEF GroupFun
    <3>. QED BY <1>0, <1>1, <3>1 DEF Counted
  <2>2. bd[b].state \notin InUse /\ bd'[b].state \notin InUse
    BY <1>0, <1>9 DEF InUse, Access, Transferring
  <2>3. 0 = One(bd'[b].state \in InUse) - One(bd[b].state \in InUse) + One(task'[t].pc \in BdWait) /\ 0 \in Int
    BY <1>0, <1>7, <2>2 DEF One
  <2>. QED BY <1>0, <1>1, <1>3, <2>1, <2>3, CountedStep
<1>11. TypeOK'
  BY <1>0, <1>2, <1>6, <1>8, <1>10 DEF TypeOK, Aside
<1>12. OnBuffer(t, b)
  <2>1. SameRequests /\ SameSizes
    BY <1>0, <1>10 DEF SameRequests, SameSizes, Aside
  <2>2. Place(t) => task[t].bd = b
    BY <1>0 DEF Place, Comes
  <2>. QED BY <1>0, <1>6, <1>7, <1>8, <2>1, <2>2 DEF OnBuffer, Aside, Place
<1>13. Linked(b)
  <2>1. b \in In({"FREE", "CACHED"}) /\ b \notin In({"MODIFIED"}) /\ b \notin In({"SYNC"})
    BY <1>0, <1>1 DEF In
  <2>2. IsList(Bds, Without(lru, {b}), In({"FREE", "CACHED"}) \ {b})
    BY <1>0, <1>2, WithoutFacts DEF ListsInv
  <2>3. IsList(Bds, <<b>> \o Without(lru, {b}), (In({"FREE", "CACHED"}) \ {b}) \cup {b})
    <3> DEFINE X == In({"FREE", "CACHED"}) \ {b}
               s == Without(lru, {b})
    <3>1. b \in Bds \ X /\ IsList(Bds, s, X)
      BY <1>0, <1>3, <2>2
    <3> HIDE DEF X, s
    <3>2. IsList(Bds, <<b>> \o s, X \cup {b})
      BY <1>0, <3>1, ListOps
    <3>. QED BY <1>0, <3>2 DEF X, s
  <2>4. /\ (In({"FREE", "CACHED"}) \ {b}) \cup {b} = In({"FREE", "CACHED"}) \cup {b}
        /\ In({"MODIFIED"}) \ {b} = In({"MODIFIED"}) /\ In({"SYNC"}) \ {b} = In({"SYNC"})
    BY <1>0, <2>1
  <2>. QED BY <1>0, <1>2, <1>9, <2>3, <2>4 DEF Linked, ListsInv
<1>14. BufferInv(b)'
  <2>1. /\ Live' = Live
        /\ Owners(b)' = Owners(b) \ {t} /\ Waiting(b)' = Waiting(b) \ {t} /\ Drivers(b)' = Drivers(b) \ {t}
    BY <1>0, <1>1, <1>7, <1>11, <1>12, OnBufferStep
  <2>2. Owners(b) = {} /\ Drivers(b) = {}
    BY <1>0, <1>3 DEF Inv, BufferInv, Access, AtDriver
  <2>3. Waiting(b)' = {} /\ Owners(b)' = {} /\ Drivers(b)' = {}
    BY <1>0, <2>1, <2>2, WaitedFacts
  <2>4. bd'[b].state \notin Access \cup AtDriver
    BY <1>0, <1>9 DEF Access, AtDriver
  <2>. QED BY <1>0, <1>1, <1>9, <2>1, <2>3, <2>4 DEF BufferInv
<1>15. Inv'
  BY <1>0, <1>1, <1>10, <1>11, <1>12, <1>13, <1>14, Settling
<1>16. Moves
  BY <1>0, <1>8, TransitionFacts DEF Moves
<1>. QED BY <1>0, <1>15, <1>16 DEF Good

\* A modified buffer of the wrong size is put on the sync list and waited for.
LEMMA RecycleSyncStep ==
  ASSUME Inv, NEW t \in Tasks, NEW c, NEW b, NEW g, Comes(t, c, b, g), hist.resized,
         bd[b].state = "MODIFIED", bd' = SetState(bd, {b}, "SYNC"),
         modified' = Without(modified, {b}), sync' = Append(sync, b),
         Sleep(t, c, "rec", b, "transfer", g), UNCHANGED <<tree, lru, fatal>>, Aside
  PROVE  Good
<1>1. c \in TaskRec /\ c.dd \in Devs /\ b \in Live /\ CountsWithout(t, g) /\ g \in GroupFun
  BY DEF Comes, CountsWithout
<1>2. TypeOK /\ ListsInv /\ bd \in BdFun /\ task \in TaskFun
  BY DEF Inv, TypeOK
<1>3. b \in Bds /\ b \in Int /\ "SYNC" \in States
  BY <1>1, <1>2, LiveFacts, GroupFacts DEF TypeOK, States, Transferring
<1>4. "rec" \in TaskPc /\ "transfer" \in {"none", "access", "transfer", "buffer"}
  BY DEF TaskPc, BdWait
<1> DEFINE r == At(c, "rec", b, "transfer")
<1>5. r \in TaskRec /\ r.pc = "rec" /\ r.dd = c.dd /\ r.bd = b
  <2>1. c \in TaskRec /\ b \in Int
    BY <1>1, <1>3
  <2>2. r \in TaskRec
    BY <1>4, <2>1 DEF At, TaskRec
  <2>3. r.pc = "rec" /\ r.dd = c.dd /\ r.bd = b
    BY <2>1 DEF At, TaskRec
  <2>. QED BY <2>2, <2>3, Zenon
<1> HIDE DEF r
<1>6. task' \in TaskFun /\ OthersKept(t) /\ task'[t].pc = "rec" /\ task'[t].bd = b /\ task'[t].dd \in Devs
  <2>1. task' = [task EXCEPT ![t] = r]
    BY DEF r, Sleep
  <2>2. task' \in TaskFun /\ OthersKept(t) /\ task'[t] = r
    BY <2>1, <1>2, <1>5, PlainStep
  <2>. QED BY <2>2, <1>1, <1>5
<1>7. task'[t].pc \in BdWait /\ task'[t].pc \notin OwnPc /\ task'[t].pc # "reading"
  BY <1>6 DEF BdWait, OwnPc
<1>8. /\ bd' \in BdFun
      /\ \A x \in Bds : /\ bd'[x].state = IF x \in {b} THEN "SYNC" ELSE bd[x].state
                        /\ bd'[x].dd = bd[x].dd /\ bd'[x].block = bd[x].block
  BY <1>2, <1>3, SetStateFacts
<1>9. bd'[b].state = "SYNC" /\ group' = Users(g, GroupOf(b), 1) /\ UNCHANGED <<dev, ahead, hist>>
  BY <1>3, <1>8 DEF Sleep
<1>10. CountHyp(t, b) /\ group' \in GroupFun
       /\ \A h \in Groups : group'[h].bds_per_group = group[h].bds_per_group
  <2>1. Counted(g, b, 1)
    BY <1>1, <1>3, <1>9, CountedUsers
  <2>2. bd[b].state \in InUse /\ bd'[b].state \in InUse
    BY <1>9 DEF InUse, Transferring
  <2>3. 1 = One(bd'[b].state \in InUse) - One(bd[b].state \in InUse) + One(task'[t].pc \in BdWait) /\ 1 \in Int
    BY <1>7, <2>2 DEF One
  <2>. QED BY <1>1, <1>3, <2>1, <2>3, CountedStep
<1>11. TypeOK'
  BY <1>2, <1>6, <1>8, <1>9, <1>10 DEF TypeOK, Aside
<1>12. OnBuffer(t, b)
  <2>1. SameRequests /\ SameSizes
    BY <1>9, <1>10 DEF SameRequests, SameSizes, Aside
  <2>2. Place(t) => task[t].bd = b
    BY DEF Place, Comes
  <2>3. \A x \in Bds \ {b} : bd'[x].state = bd[x].state /\ (x \in tree' <=> x \in tree)
    BY <1>8
  <2>4. \A x \in Bds : bd'[x].dd = bd[x].dd /\ bd'[x].block = bd[x].block
    BY <1>8
  <2>5. Place(t)' => task'[t].bd = b
    BY <1>6
  <2>. QED BY <1>6, <1>9, <2>1, <2>2, <2>3, <2>4, <2>5 DEF OnBuffer, Aside
<1>13. Linked(b)
  <2>1. b \notin In({"FREE", "CACHED"}) /\ b \notin In({"SYNC"})
    BY <1>1 DEF In
  <2>2. IsList(Bds, Without(modified, {b}), In({"MODIFIED"}) \ {b})
    BY <1>2, WithoutFacts DEF ListsInv
  <2>3. IsList(Bds, Append(sync, b), In({"SYNC"}) \cup {b})
    BY <1>2, <1>3, <2>1, ListOps DEF ListsInv
  <2>4. In({"FREE", "CACHED"}) \ {b} = In({"FREE", "CACHED"})
    BY <2>1
  <2>. QED BY <1>2, <1>9, <2>2, <2>3, <2>4 DEF Linked, ListsInv
<1>14. BufferInv(b)'
  <2>1. /\ Live' = Live
        /\ Owners(b)' = Owners(b) \ {t} /\ Waiting(b)' = Waiting(b) \cup {t} /\ Drivers(b)' = Drivers(b) \ {t}
    BY <1>1, <1>7, <1>11, <1>12, OnBufferStep
  <2>2. BufferInv(b)
    BY <1>3 DEF Inv
  <2>3. Owners(b) = {} /\ Drivers(b) = {}
    BY <2>2 DEF BufferInv, Access, AtDriver
  <2>4. Owners(b)' = {} /\ Drivers(b)' = {}
    BY <2>1, <2>3
  <2>5. bd'[b].state \notin Access \cup AtDriver
    BY <1>9 DEF Access, AtDriver
  <2>6. bd[b].dd \in Devs /\ (Sound => b \in tree)
    BY <1>1, <2>2 DEF BufferInv
  <2>. QED BY <1>1, <1>3, <1>8, <1>9, <2>1, <2>4, <2>5, <2>6 DEF BufferInv, Sound
<1>15. Inv'
  BY <1>1, <1>10, <1>11, <1>12, <1>13, <1>14, Settling
<1>16. Moves
  BY <1>8, TransitionFacts DEF Moves
<1>. QED BY <1>15, <1>16 DEF Good

\* rtems_bdbuf_wait_for_recycle: a buffer of another size is given up before the search is repeated.
LEMMA WaitForRecycleStep ==
  ASSUME Inv, NEW t \in Tasks, NEW c, NEW b, NEW g, Comes(t, c, b, g), hist.resized,
         WaitForRecycle(t, c, b, g), Aside
  PROVE  Good
<1>1. bd[b].state # "FREE" /\ c \in TaskRec /\ c.dd \in Devs /\ b \in Live /\ CountsWithout(t, g)
      /\ task[t].pc \notin OwnPc \cup {"reading"} /\ (task[t].pc \in BdWait => task[t].bd = b)
  BY DEF Comes
<1>2. CASE /\ bd[b].state \in {"CACHED", "EMPTY"} /\ Waited(t, b)
           /\ SleepForBuffer(t, c, g)
  BY <1>1, <1>2, SleepForBufferStep
<1>3. CASE /\ bd[b].state = "FREE" \/ (bd[b].state = "CACHED" /\ ~Waited(t, b) /\ b \in tree)
           /\ bd' = SetState(bd, {b}, "FREE")
           /\ tree' = IF bd[b].state = "FREE" THEN tree ELSE tree \ {b}
           /\ lru' = <<b>> \o Without(lru, {b})
           /\ task' = Woken({"buffer"}, [task EXCEPT ![t] = At(c, "search", -1, "none")])
           /\ group' = g /\ owner' = t
           /\ UNCHANGED <<modified, sync, dev, ahead, hist, fatal>>
  <2>1. Recycled(t, c, b, g)
    BY <1>1, <1>3 DEF Recycled
  <2>. QED BY <2>1, RecycledStep
<1>4. CASE Fatal
  BY <1>4, FatalStep
<1>5. ASSUME bd[b].state \in Access \cup Transferring, NEW cv \in {"access", "transfer"},
             Sleep(t, c, "rec", b, cv, g), UNCHANGED <<bd, lists, fatal>>
      PROVE  Good
  <2>1. bd[b].state # "EMPTY" /\ "rec" \in BdWait
    BY <1>5 DEF Access, Transferring, BdWait
  <2>. QED BY <1>5, <2>1, SleepStep
<1>6. CASE /\ bd[b].state = "MODIFIED"
           /\ bd' = SetState(bd, {b}, "SYNC")
           /\ modified' = Without(modified, {b}) /\ sync' = Append(sync, b)
           /\ Sleep(t, c, "rec", b, "transfer", g)
           /\ UNCHANGED <<tree, lru, fatal>>
  BY <1>6, RecycleSyncStep
<1>. QED BY <1>2, <1>3, <1>4, <1>5, <1>6 DEF WaitForRecycle

\* Nobody has the descriptor or waits for it, and it is at rest.
Still(b) ==
    /\ b \in Bds /\ bd[b].state \in {"FREE", "CACHED"}
    /\ Owners(b) = {} /\ Drivers(b) = {} /\ Waiting(b) = {}

\* What get_buffer_from_lru_list has done: the buffers O are gone, those of
\* x.fresh and x.b are there instead, all in the group of x.b.
Taken(x, d, O) ==
    LET g == GroupOf(x.b)  n == dev[d].bds_per_group IN
    /\ g \in Groups /\ n \in 1 .. MaxBdsPerGroup
    /\ O \subseteq Live
    /\ x.b \notin x.fresh /\ x.b \notin Live \ O /\ x.fresh \cap (Live \ O) = {}
    /\ \A y \in O \cup x.fresh \cup {x.b} : Still(y) /\ GroupOf(y) = g
    /\ LiveIn(g, n) = (LiveIn(g, group[g].bds_per_group) \ O) \cup x.fresh \cup {x.b}
    /\ x.tree = tree \ O
    /\ x.group \in GroupFun
    /\ \A h \in Groups : /\ x.group[h].users = group[h].users
                         /\ x.group[h].bds_per_group = IF h = g THEN n ELSE group[h].bds_per_group
    /\ IsList(Bds, x.lru, (In({"FREE", "CACHED"}) \ O) \cup x.fresh)
    /\ group[g].bds_per_group # n => hist.resized /\ LiveIn(g, group[g].bds_per_group) \subseteq O
    /\ ~x.ok => hist.orphan
    /\ x.ok => \A y \in O : bd[y].state = "FREE" \/ y \in tree

\* A group without users has no buffer in use and nobody waiting: it may be cut up.
LEMMA IdleGroup ==
  ASSUME Inv, NEW g \in Groups, group[g].users = 0
  PROVE  \A y \in Bds : GroupOf(y) = g => Still(y)
<1>1. group \in GroupFun /\ task \in TaskFun
  BY DEF Inv, TypeOK
<1>2. Used(g) = {} /\ Sleepers(g) = {}
  <2>1. /\ IsFiniteSet(Used(g)) /\ IsFiniteSet(Sleepers(g))
        /\ Cardinality(Used(g)) \in Nat /\ Cardinality(Sleepers(g)) \in Nat
        /\ group[g].users = Cardinality(Used(g)) + Cardinality(Sleepers(g))
    BY <1>1, FiniteGroups DEF Inv, CountInv
  <2>2. Cardinality(Used(g)) = 0 /\ Cardinality(Sleepers(g)) = 0
    BY <2>1
  <2>. QED BY <2>1, <2>2, FS_EmptySet
<1>. SUFFICES ASSUME NEW y \in Bds, GroupOf(y) = g PROVE Still(y)
  OBVIOUS
<1>3. BufferInv(y) /\ bd[y].state \in States
  BY DEF Inv, TypeOK, BdFun, BdRec
<1>4. Waiting(y) = {}
  BY <1>2 DEF Waiting, Sleepers
<1>5. y \in Live => bd[y].state \notin InUse /\ bd[y].state # "EMPTY"
  BY <1>1, <1>2, <1>3, <1>4, FiniteGroups DEF BufferInv
<1>6. bd[y].state \in {"FREE", "CACHED"}
  BY <1>3, <1>5 DEF BufferInv, States, InUse
<1>7. bd[y].state \notin Access \cup AtDriver
  BY <1>6 DEF Access, AtDriver
<1>. QED BY <1>3, <1>4, <1>6, <1>7 DEF BufferInv, Still

\* What get_buffer_from_lru_list takes: an unused buffer, or a group cut up for the size of the device.
LEMMA FromLruFacts ==
  ASSUME Inv, NEW t, \A b : t \notin Waiting(b), NEW d \in Devs, HasUsable(t, d)
  PROVE  \E O : Taken(FromLru(t, d), d, O)
<1> DEFINE x == FromLru(t, d)
           U == {b \in ToSet(lru) : Usable(t, d, b)}
           s == Only(lru, U)
           b0 == s[1]
           g == GroupOf(b0)
           n == dev[d].bds_per_group
           same == group[g].bds_per_group = n
           out == IF same THEN {b0} ELSE LiveIn(g, group[g].bds_per_group)
           fresh == IF same THEN {} ELSE LiveIn(g, n) \ {FirstBd(g)}
           A == InOrder(fresh, [y \in fresh |-> -y])
           R == In({"FREE", "CACHED"})
<1>0. TypeOK /\ ListsInv /\ group \in GroupFun /\ dev \in DevFun
  BY DEF Inv, TypeOK
<1>1. b0 \in R \cap U
  <2>1. IsList(Bds, s, R \cap U) /\ ToSet(lru) = R
    BY <1>0, OnlyFacts DEF ListsInv, IsList
  <2>2. R \cap U # {}
    BY <2>1 DEF HasUsable
  <2> HIDE DEF s, R, U
  <2>3. s # <<>> /\ s \in Seq(Bds)
    BY <2>1, <2>2, ListOps DEF IsList
  <2>4. 1 \in 1 .. Len(s)
    BY <2>3, LenProperties, EmptySeq
  <2>5. s[1] \in R \cap U
    BY <2>1, <2>4, ListOps, ZenonT(60)
  <2>. QED BY <2>5
<1>2. /\ x.b = IF same THEN b0 ELSE FirstBd(g)
      /\ x.fresh = fresh /\ x.lru = A \o Without(lru, out) /\ x.tree = tree \ out
      /\ x.group = [group EXCEPT ![g].bds_per_group = n]
      /\ x.ok = \A y \in out : bd[y].state = "FREE" \/ (bd[y].state = "CACHED" /\ y \in tree)
  BY DEF FromLru
<1> HIDE DEF x, s, b0
<1>3. /\ b0 \in Live /\ b0 \in Bds /\ bd[b0].state \in {"FREE", "CACHED"} /\ ~Waited(t, b0)
      /\ same \/ group[g].users = 0
  <2>1. b0 \in Live /\ bd[b0].state \in {"FREE", "CACHED"} /\ Usable(t, d, b0)
    BY <1>1 DEF In
  <2>. QED BY <2>1, <1>0, LiveFacts DEF Usable
<1>4. g \in Groups /\ n \in 1 .. MaxBdsPerGroup /\ BufferInv(b0) /\ group[g].bds_per_group \in 1 .. MaxBdsPerGroup
  BY <1>0, <1>3, GroupFacts, LiveFacts DEF Inv, DevFun
<1>5. Still(b0)
  <2>1. Waiting(b0) = {}
    BY <1>3, WaitedFacts
  <2>2. bd[b0].state \notin Access \cup AtDriver
    BY <1>3 DEF Access, AtDriver
  <2>. QED BY <1>3, <1>4, <2>1, <2>2 DEF Still, BufferInv
<1>6. b0 \in LiveIn(g, group[g].bds_per_group) /\ LiveIn(g, group[g].bds_per_group) \subseteq Live
  BY <1>0, <1>3, <1>4, LiveFacts
<1>7. /\ FirstBd(g) \in LiveIn(g, n)
      /\ \A y \in LiveIn(g, n) : y \in Bds /\ GroupOf(y) = g
      /\ \A y \in LiveIn(g, group[g].bds_per_group) : y \in Bds /\ GroupOf(y) = g
  BY <1>4, GroupFacts
<1>8. /\ out \subseteq Live /\ fresh \subseteq Bds
      /\ x.b \notin fresh /\ x.b \notin Live \ out /\ fresh \cap (Live \ out) = {}
      /\ \A y \in out \cup fresh \cup {x.b} : Still(y) /\ GroupOf(y) = g
      /\ LiveIn(g, n) = (LiveIn(g, group[g].bds_per_group) \ out) \cup fresh \cup {x.b}
      /\ x.b \in Bds /\ GroupOf(x.b) = g
  <2>1. CASE same
    <3>1. x.b = b0 /\ out = {b0} /\ fresh = {} /\ LiveIn(g, n) = LiveIn(g, group[g].bds_per_group)
      BY <1>2, <2>1
    <3> HIDE DEF out, fresh
    <3>. QED BY <1>3, <1>5, <1>6, <3>1 DEF g
  <2>2. CASE ~same
    <3>1. x.b = FirstBd(g) /\ out = LiveIn(g, group[g].bds_per_group) /\ fresh = LiveIn(g, n) \ {FirstBd(g)}
      BY <1>2, <2>2
    <3>2. \A y \in Bds : GroupOf(y) = g => Still(y)
      BY <1>3, <1>4, <2>2, IdleGroup
    <3>3. \A y \in Live : GroupOf(y) = g => y \in LiveIn(g, group[g].bds_per_group)
      BY <1>0, LiveFacts
    <3> HIDE DEF out, fresh, same
    <3>. QED BY <1>6, <1>7, <3>1, <3>2, <3>3
  <2>. QED BY <2>1, <2>2
<1>9. /\ x.group \in GroupFun
      /\ \A h \in Groups : /\ x.group[h].users = group[h].users
                           /\ x.group[h].bds_per_group = IF h = g THEN n ELSE group[h].bds_per_group
  <2> DEFINE r == [group[g] EXCEPT !.bds_per_group = n]
  <2>1. group[g] \in [bds_per_group : 1 .. MaxBdsPerGroup, users : Int]
    BY <1>0, <1>4 DEF GroupFun
  <2>2. r \in [bds_per_group : 1 .. MaxBdsPerGroup, users : Int] /\ r.bds_per_group = n /\ r.users = group[g].users
    BY <1>4, <2>1
  <2>3. x.group = [group EXCEPT ![g] = r]
    BY <1>2
  <2> HIDE DEF r, n, g
  <2>. QED BY <1>0, <1>4, <2>2, <2>3 DEF GroupFun
<1>10. IsList(Bds, x.lru, (R \ out) \cup fresh)
  <2>0. out \subseteq Live /\ fresh \subseteq Bds /\ fresh \cap (Live \ out) = {}
        /\ x.lru = A \o Without(lru, out)
    BY <1>2, <1>8
  <2>00. R \subseteq Live
    BY DEF In
  <2>01. IsList(Bds, lru, R)
    BY <1>0 DEF ListsInv
  <2> HIDE DEF out, fresh, R
  <2>1. IsList(Bds, A, fresh)
    <3>1. fresh \subseteq Int /\ IsFiniteSet(fresh)
      BY <2>0, GroupFacts, FS_Subset
    <3>2. [y \in fresh |-> -y] \in [fresh -> Int]
      BY <3>1
    <3>. QED BY <3>1, <3>2, <2>0, OrderedList
  <2>2. IsList(Bds, Without(lru, out), R \ out)
    BY <2>01, WithoutFacts
  <2>3. fresh \cap (R \ out) = {}
    BY <2>0, <2>00
  <2> HIDE DEF A
  <2>4. IsList(Bds, A \o Without(lru, out), fresh \cup (R \ out))
    BY <2>1, <2>2, <2>3, ListOps, ZenonT(60)
  <2>5. fresh \cup (R \ out) = (R \ out) \cup fresh
    OBVIOUS
  <2>. QED BY <2>0, <2>4, <2>5
<1>11. group[g].bds_per_group # n => hist.resized /\ LiveIn(g, group[g].bds_per_group) \subseteq out
  <2>1. group[g].bds_per_group # n => hist.resized
    BY <1>4 DEF Inv, SizesInv
  <2>. QED BY <2>1
<1>12. /\ x.ok => \A y \in out : bd[y].state = "FREE" \/ y \in tree
       /\ ~x.ok => hist.orphan
  <2>1. ASSUME ~x.ok PROVE hist.orphan
    <3>1. PICK y \in out : ~(bd[y].state = "FREE" \/ (bd[y].state = "CACHED" /\ y \in tree))
      BY <1>2, <2>1
    <3>2. y \in Live /\ y \in Bds /\ bd[y].state = "CACHED" /\ y \notin tree
      BY <1>8, <3>1 DEF Still
    <3>3. BufferInv(y)
      BY <3>2 DEF Inv
    <3>. QED BY <3>2, <3>3 DEF BufferInv, Sound
  <2>. QED BY <1>2, <2>1
<1> HIDE DEF out, fresh, n, R, same, g
<1>13. Taken(x, d, out)
  <2>1. GroupOf(x.b) = g /\ x.fresh = fresh /\ dev[d].bds_per_group = n /\ x.tree = tree \ out
    BY <1>2, <1>8 DEF n
  <2>. QED BY <2>1, <1>4, <1>8, <1>9, <1>10, <1>11, <1>12 DEF Taken, R
<1>. QED BY <1>13 DEF x

\* setup_empty_buffer gives the buffer its key and leaves the others alone.
LEMMA SetupEmptyFacts ==
  ASSUME bd \in BdFun, NEW x, x.b \in Bds, NEW d \in Devs, NEW m \in Int, NEW st \in States
  PROVE  LET f == SetupEmpty(x, d, m, st) IN
         /\ f \in BdFun
         /\ f[x.b].dd = d /\ f[x.b].block = m /\ f[x.b].state = st /\ f[x.b].val = bd[x.b].val
         /\ \A y \in Bds \ {x.b} :
              /\ f[y].state = IF y \in x.fresh THEN "FREE" ELSE bd[y].state
              /\ f[y].dd = bd[y].dd /\ f[y].block = bd[y].block /\ f[y].val = bd[y].val
<1> DEFINE k == SetState(bd, x.fresh, "FREE")
           b == x.b
           r == [k[b] EXCEPT !.dd = d, !.block = m, !.state = st]
           f == SetupEmpty(x, d, m, st)
<1>1. "FREE" \in States
  BY DEF States
<1>2. /\ k \in BdFun
      /\ \A y \in Bds : /\ k[y].state = IF y \in x.fresh THEN "FREE" ELSE bd[y].state
                        /\ k[y].dd = bd[y].dd /\ k[y].block = bd[y].block /\ k[y].val = bd[y].val
  BY <1>1, SetStateFacts
<1>3. f = [k EXCEPT ![b] = r]
  BY DEF SetupEmpty
<1> HIDE DEF k
<1>4. k[b] \in BdRec
  BY <1>2 DEF BdFun
<1>5. r \in BdRec /\ r.dd = d /\ r.block = m /\ r.state = st /\ r.val = k[b].val
  BY <1>4 DEF BdRec
<1> HIDE DEF r, f
<1>6. f \in BdFun /\ f[b] = r /\ \A y \in Bds \ {b} : f[y] = k[y]
  BY <1>2, <1>3, <1>5 DEF BdFun
<1>. QED BY <1>2, <1>5, <1>6 DEF f

\* Live buffers in the next state
LEMMA NextLive ==
  ASSUME \A h \in Groups : group'[h].bds_per_group \in 1 .. MaxBdsPerGroup
  PROVE  /\ \A y \in Live' : y \in Bds /\ y \in LiveIn(GroupOf(y), group'[GroupOf(y)].bds_per_group)
         /\ \A y \in Bds : y \in LiveIn(GroupOf(y), group'[GroupOf(y)].bds_per_group) => y \in Live'
<1>1. \A y : y \in Live' <=> \E h \in Groups : y \in LiveIn(h, group'[h].bds_per_group)
  BY DEF Live
<1>2. \A h \in Groups : \A y \in LiveIn(h, group'[h].bds_per_group) : y \in Bds /\ GroupOf(y) = h
  BY GroupFacts
<1>. QED BY <1>1, <1>2, GroupFacts

\* The buffer taken off the LRU list is in use, by a task or by a driver h.
Took(x, d, m, h) ==
    LET b == x.b IN
    /\ bd'[b].dd = d /\ bd'[b].block = m
    /\ \A y \in Bds \ {b} :
         /\ bd'[y].state = IF y \in x.fresh THEN "FREE" ELSE bd[y].state
         /\ bd'[y].dd = bd[y].dd /\ bd'[y].block = bd[y].block
         /\ Owners(y)' = Owners(y) /\ Drivers(y)' = Drivers(y) /\ Waiting(y)' = Waiting(y)
    /\ Waiting(b)' = {}
    /\ \/ bd'[b].state = "ACCESS_EMPTY" /\ h \in Tasks /\ Owners(b)' = {h} /\ Drivers(b)' = {}
       \/ bd'[b].state = "TRANSFER" /\ Owners(b)' = {} /\ Drivers(b)' = {h}
    /\ Counted(x.group, b, 1)
    /\ lru' = x.lru /\ tree' = x.tree \cup {b} /\ UNCHANGED <<modified, sync>>
    /\ hist'.orphan = hist.orphan /\ hist'.resized = hist.resized
    /\ \A e \in Devs : dev'[e].bds_per_group = dev[e].bds_per_group
    /\ \A u \in Tasks : task'[u].pc \in {"rec", "search"} => task[u].pc \in {"rec", "search"}
    /\ \A g \in Groups : Sleepers(g)' = Sleepers(g)

\* A buffer taken off the LRU list for a block without a buffer keeps the invariant.
LEMMA TookStep ==
  ASSUME Inv, TypeOK', NEW x, NEW d \in Devs, NEW m, NEW O, NEW h, Taken(x, d, O), x.ok,
         InTree(d, m) = {}, Took(x, d, m, h), TasksInv', RequestsInv'
  PROVE  Inv' /\ Moves
<1> DEFINE b == x.b
           g == GroupOf(b)
           n == dev[d].bds_per_group
           F == x.fresh
           R == In({"FREE", "CACHED"})
<1>0. /\ TypeOK /\ ListsInv /\ KeysInv /\ group \in GroupFun /\ tree \subseteq Bds
      /\ \A y \in Bds : BufferInv(y) /\ bd[y].state \in States
  BY DEF Inv, TypeOK, BdFun, BdRec
<1>1. /\ g \in Groups /\ n \in 1 .. MaxBdsPerGroup
      /\ O \subseteq Live
      /\ b \notin F /\ b \notin Live \ O /\ F \cap (Live \ O) = {}
      /\ \A y \in O \cup F \cup {b} : Still(y) /\ GroupOf(y) = g
      /\ LiveIn(g, n) = (LiveIn(g, group[g].bds_per_group) \ O) \cup F \cup {b}
      /\ x.tree = tree \ O
      /\ \A i \in Groups : /\ x.group[i].users = group[i].users
                           /\ x.group[i].bds_per_group = IF i = g THEN n ELSE group[i].bds_per_group
      /\ IsList(Bds, x.lru, (R \ O) \cup F)
      /\ group[g].bds_per_group # n => hist.resized
      /\ \A y \in O : bd[y].state = "FREE" \/ y \in tree
  BY DEF Taken
<1>2. /\ bd'[b].dd = d /\ bd'[b].block = m
      /\ \A y \in Bds \ {b} :
           /\ bd'[y].state = IF y \in F THEN "FREE" ELSE bd[y].state
           /\ bd'[y].dd = bd[y].dd /\ bd'[y].block = bd[y].block
           /\ Owners(y)' = Owners(y) /\ Drivers(y)' = Drivers(y) /\ Waiting(y)' = Waiting(y)
      /\ Waiting(b)' = {}
      /\ \/ bd'[b].state = "ACCESS_EMPTY" /\ h \in Tasks /\ Owners(b)' = {h} /\ Drivers(b)' = {}
         \/ bd'[b].state = "TRANSFER" /\ Owners(b)' = {} /\ Drivers(b)' = {h}
      /\ group' \in GroupFun
      /\ \A i \in Groups :
           /\ group'[i].bds_per_group = x.group[i].bds_per_group
           /\ group'[i].users = IF i = g THEN x.group[i].users + 1 ELSE x.group[i].users
      /\ lru' = x.lru /\ tree' = x.tree \cup {b} /\ UNCHANGED <<modified, sync>>
      /\ hist'.orphan = hist.orphan /\ hist'.resized = hist.resized
      /\ \A e \in Devs : dev'[e].bds_per_group = dev[e].bds_per_group
      /\ \A u \in Tasks : task'[u].pc \in {"rec", "search"} => task[u].pc \in {"rec", "search"}
      /\ \A i \in Groups : Sleepers(i)' = Sleepers(i)
  BY DEF Took, Counted
<1> HIDE DEF b, g, n, F, R
<1>3. b \in Bds /\ F \subseteq Bds /\ Live \subseteq Bds /\ GroupOf(b) = g
  BY <1>0, <1>1, LiveFacts DEF Still, g
<1>4. /\ \A i \in Groups : group'[i].bds_per_group = IF i = g THEN n ELSE group[i].bds_per_group
      /\ \A i \in Groups : group'[i].users = IF i = g THEN group[i].users + 1 ELSE group[i].users
      /\ \A i \in Groups : group'[i].bds_per_group \in 1 .. MaxBdsPerGroup
  BY <1>0, <1>1, <1>2, LiveFacts
<1>5. Live' = (Live \ O) \cup F \cup {b}
  <2>1. /\ \A y \in Live' : y \in Bds /\ y \in LiveIn(GroupOf(y), group'[GroupOf(y)].bds_per_group)
        /\ \A y \in Bds : y \in LiveIn(GroupOf(y), group'[GroupOf(y)].bds_per_group) => y \in Live'
    BY <1>4, NextLive
  <2>2. \A y \in Bds : y \in Live <=> y \in LiveIn(GroupOf(y), group[GroupOf(y)].bds_per_group)
    BY <1>0, LiveFacts
  <2>3. ASSUME NEW y \in Bds PROVE y \in Live' <=> y \in (Live \ O) \cup F \cup {b}
    <3>0. GroupOf(y) \in Groups
      BY GroupFacts
    <3>1. CASE GroupOf(y) = g
      BY <1>1, <1>4, <2>1, <2>2, <3>0, <3>1
    <3>2. CASE GroupOf(y) # g
      <4>1. y \notin O /\ y \notin F /\ y # b
        BY <1>1, <3>2
      <4>. QED BY <1>4, <2>1, <2>2, <3>0, <3>2, <4>1
    <3>. QED BY <3>1, <3>2
  <2>. QED BY <2>1, <2>3, <1>3
<1>6. \A y \in O \cup F \cup {b} : y \in Bds /\ bd[y].state \in {"FREE", "CACHED"}
                                   /\ Owners(y) = {} /\ Drivers(y) = {} /\ Waiting(y) = {}
  BY <1>1 DEF Still
<1>7. bd'[b].state \in {"ACCESS_EMPTY", "TRANSFER"}
  BY <1>2
<1>8. ListsInv'
  <2>1. In({"FREE", "CACHED"})' = (R \ O) \cup F
    BY <1>1, <1>2, <1>3, <1>5, <1>7 DEF In, R
  <2>2. In({"MODIFIED"})' = In({"MODIFIED"})
    BY <1>1, <1>2, <1>3, <1>5, <1>6, <1>7 DEF In
  <2>3. In({"SYNC"})' = In({"SYNC"})
    BY <1>1, <1>2, <1>3, <1>5, <1>6, <1>7 DEF In
  <2>. QED BY <1>0, <1>1, <1>2, <2>1, <2>2, <2>3 DEF ListsInv
<1>9. KeysInv'
  <2>1. tree' = (tree \ O) \cup {b}
    BY <1>1, <1>2
  <2>2. \A y \in tree : ~(bd[y].dd = d /\ bd[y].block = m)
    BY DEF InTree
  <2>. QED BY <1>0, <1>2, <2>1, <2>2 DEF KeysInv
<1>10. SizesInv'
  <2>1. SizesInv
    BY DEF Inv
  <2>2. hist'.resized = hist.resized
    BY <1>2
  <2>. QED BY <1>1, <1>2, <1>4, <2>1, <2>2 DEF SizesInv
<1>11. CountInv'
  <2>. SUFFICES ASSUME NEW i \in Groups
                PROVE  group'[i].users = Cardinality(Used(i)') + Cardinality(Sleepers(i)')
    BY DEF CountInv
  <2>0. /\ IsFiniteSet(Used(i)) /\ Cardinality(Used(i)) \in Nat /\ Cardinality(Sleepers(i)) \in Nat
        /\ group[i].users = Cardinality(Used(i)) + Cardinality(Sleepers(i))
        /\ \A y \in Used(i) : y \in Bds /\ GroupOf(y) = i /\ y \in Live /\ bd[y].state \in InUse
    BY <1>0, FiniteGroups DEF Inv, CountInv
  <2>1. Sleepers(i)' = Sleepers(i)
    BY <1>2
  <2>00. /\ \A y \in O \cup F \cup {b} : bd[y].state \notin InUse
         /\ "FREE" \notin InUse /\ bd'[b].state \in InUse
    BY <1>6, <1>7 DEF InUse, Access, Transferring
  <2>2. CASE i = g
    <3>1. Used(i)' = Used(i) \cup {b}
      <4>1. Used(i)' = {y \in LiveIn(g, n) : bd'[y].state \in InUse}
        BY <2>2, <1>4 DEF Used
      <4>2. Used(i) = {y \in LiveIn(g, group[g].bds_per_group) : bd[y].state \in InUse}
        BY <2>2 DEF Used
      <4>3. \A y \in LiveIn(g, group[g].bds_per_group) : y \in Live /\ y \in Bds
        BY <1>0, <1>1, LiveFacts
      <4> DEFINE L == LiveIn(g, group[g].bds_per_group)
      <4>4. \A y \in L \ O : bd'[y].state = bd[y].state
        <5>1. \A y \in L \ O : y \in Bds /\ y \notin F /\ y # b
          BY <4>3, <1>1
        <5>. QED BY <5>1, <1>2
      <4>5. \A y \in F : bd'[y].state \notin InUse
        BY <1>1, <1>2, <1>3, <2>00
      <4>6. \A y \in O : bd[y].state \notin InUse
        BY <2>00
      <4>7. LiveIn(g, n) = (L \ O) \cup F \cup {b}
        BY <1>1
      <4>8. Used(i)' \subseteq Used(i) \cup {b}
        <5> HIDE DEF L
        <5>. QED BY <4>1, <4>2, <4>4, <4>5, <4>7 DEF L
      <4>9. Used(i) \cup {b} \subseteq Used(i)'
        <5>1. \A y \in Used(i) : y \in L \ O
          BY <4>2, <4>6
        <5> HIDE DEF L
        <5>. QED BY <4>1, <4>2, <4>4, <4>7, <5>1, <2>00
      <4>. QED BY <4>8, <4>9
    <3>2. b \notin Used(i)
      BY <2>0, <2>00
    <3>3. Cardinality(Used(i) \cup {b}) = Cardinality(Used(i)) + 1
      BY <2>0, <3>2, CardOne
    <3> DEFINE u == Cardinality(Used(i))
               s == Cardinality(Sleepers(i))
    <3>4. u \in Int /\ s \in Int /\ group[i].users = u + s /\ Cardinality(Used(i)') = u + 1
      BY <2>0, <3>1, <3>3
    <3>5. group'[i].users = group[i].users + 1 /\ Cardinality(Sleepers(i)') = s
      BY <2>1, <2>2, <1>4
    <3> HIDE DEF u, s
    <3>. QED BY <3>4, <3>5
  <2>3. CASE i # g
    <3>1. LiveIn(i, group'[i].bds_per_group) = LiveIn(i, group[i].bds_per_group)
      BY <1>4, <2>3
    <3>2. \A y \in LiveIn(i, group[i].bds_per_group) : y \in Bds /\ GroupOf(y) = i
      BY <1>0, LiveFacts
    <3>3. Used(i)' = Used(i)
      <4>1. \A y \in LiveIn(i, group[i].bds_per_group) : y \notin F /\ y # b
        BY <1>1, <2>3, <3>2
      <4>2. \A y \in LiveIn(i, group[i].bds_per_group) : bd'[y].state = bd[y].state
        BY <1>2, <3>2, <4>1
      <4>. QED BY <3>1, <4>2 DEF Used
    <3>. QED BY <1>4, <2>0, <2>1, <2>3, <3>3
  <2>. QED BY <2>2, <2>3
<1>12. ASSUME NEW y \in Bds PROVE BufferInv(y)'
  <2>0. BufferInv(y) /\ Sound' = Sound /\ tree' = (tree \ O) \cup {b}
    BY <1>0, <1>1, <1>2 DEF Sound
  <2>1. CASE y = b
    <3>1. y \in Live' /\ y \in tree' /\ bd'[y].dd \in Devs
      BY <1>2, <1>5, <2>0, <2>1
    <3>2. CASE bd'[b].state = "ACCESS_EMPTY"
      <4>1. bd'[b].state \in Access /\ bd'[b].state \notin AtDriver
        BY <3>2 DEF Access, AtDriver
      <4>. QED BY <1>2, <2>1, <3>1, <3>2, <4>1 DEF BufferInv
    <3>3. CASE bd'[b].state = "TRANSFER"
      <4>1. bd'[b].state \notin Access /\ bd'[b].state \in AtDriver
        BY <3>3 DEF Access, AtDriver
      <4>. QED BY <1>2, <2>1, <3>1, <3>3, <4>1 DEF BufferInv
    <3>. QED BY <3>2, <3>3, <1>7
  <2>2. CASE y # b /\ y \in F
    <3>1. /\ bd'[y].state = "FREE" /\ Owners(y)' = {} /\ Drivers(y)' = {} /\ Waiting(y)' = {}
          /\ y \in Live'
      BY <1>2, <1>5, <1>6, <2>2
    <3>2. y \notin tree'
      <4>1. y \in tree => y \in Live
        BY <2>0 DEF BufferInv
      <4>. QED BY <4>1, <2>0, <2>2, <1>1
    <3>3. "FREE" \notin Access \cup AtDriver
      BY DEF Access, AtDriver
    <3>. QED BY <3>1, <3>2, <3>3 DEF BufferInv
  <2>3. CASE y # b /\ y \notin F /\ y \in O
    <3>1. /\ bd'[y].state \in {"FREE", "CACHED"} /\ Owners(y)' = {} /\ Drivers(y)' = {} /\ Waiting(y)' = {}
          /\ y \notin Live' /\ y \notin tree' /\ bd'[y].state = bd[y].state /\ bd'[y].dd = bd[y].dd
      BY <1>1, <1>2, <1>5, <1>6, <2>0, <2>3
    <3>. QED BY <3>1, <2>0 DEF BufferInv
  <2>4. CASE y # b /\ y \notin F /\ y \notin O
    <3>1. SameBuffer(y)
      BY <1>2, <1>5, <2>0, <2>4 DEF SameBuffer
    <3>2. hist.orphan => hist'.orphan
      BY <1>2
    <3>. QED BY <2>0, <3>1, <3>2, BufferFrame
  <2>. QED BY <2>1, <2>2, <2>3, <2>4
<1>13. Moves
  <2>1. <<bd[b].state, bd'[b].state>> \in Transitions
    BY <1>6, <1>7, TransitionFacts
  <2>2. ASSUME NEW y \in Bds, y # b
        PROVE  bd'[y].state = bd[y].state \/ <<bd[y].state, bd'[y].state>> \in Transitions
    BY <2>2, <1>2, <1>6, TransitionFacts
  <2>. QED BY <2>1, <2>2 DEF Moves
<1>. QED BY <1>8, <1>9, <1>10, <1>11, <1>12, <1>13 DEF Inv

\* A task takes the first usable buffer of the LRU list.
LEMMA TakeStep ==
  ASSUME Inv, NEW t \in Tasks, NEW c \in TaskRec, c.dd \in Devs,
         task[t].pc \notin OwnPc \cup BdWait \cup {"reading"},
         InTree(c.dd, c.media) = {}, NEW x, NEW O, Taken(x, c.dd, O), x.ok, NEW cvs,
         lru' = x.lru, tree' = x.tree \cup {x.b},
         Grant(t, c, x.b, SetupEmpty(x, c.dd, c.media, "EMPTY"), x.group, cvs),
         UNCHANGED <<modified, sync, fatal>>, Aside
  PROVE  Good
<1> DEFINE b == x.b
           f == SetupEmpty(x, c.dd, c.media, "EMPTY")
<1>0. TypeOK /\ bd \in BdFun /\ c.media \in Int /\ "EMPTY" \in States /\ task \in TaskFun
  BY DEF Inv, TypeOK, States, TaskRec
<1>1. /\ b \in Bds /\ x.group \in GroupFun /\ Waiting(b) = {} /\ Owners(b) = {} /\ Drivers(b) = {}
      /\ \A h \in Groups : x.group[h].bds_per_group \in 1 .. MaxBdsPerGroup
  BY DEF Taken, Still, GroupFun
<1>2. /\ f \in BdFun
      /\ f[b].dd = c.dd /\ f[b].block = c.media /\ f[b].state = "EMPTY"
      /\ \A y \in Bds \ {b} :
              /\ f[y].state = IF y \in x.fresh THEN "FREE" ELSE bd[y].state
              /\ f[y].dd = bd[y].dd /\ f[y].block = bd[y].block
  BY <1>0, <1>1, SetupEmptyFacts
<1> HIDE DEF f
<1>3. /\ bd' \in BdFun
      /\ \A y \in Bds \ {b} : bd'[y] = f[y]
      /\ bd'[b].dd = f[b].dd /\ bd'[b].block = f[b].block
      /\ \/ bd'[b].state = "TRANSFER" /\ task'[t].pc = "reading"
         \/ bd'[b].state = "ACCESS_EMPTY" /\ task'[t].pc = "holding"
      /\ group' = Users(x.group, GroupOf(b), 1)
      /\ task' \in TaskFun /\ OthersKept(t)
      /\ task'[t].bd = b /\ task'[t].dd = c.dd
      /\ dev' \in DevFun /\ \A d \in Devs : dev'[d].bds_per_group = dev[d].bds_per_group
      /\ AheadRec(ahead') /\ SameAhead(ahead', ahead)
      /\ HistRec(hist') /\ hist'.orphan = hist.orphan /\ hist'.resized = hist.resized
  <2>1. Grant(t, c, b, f, x.group, cvs)
    BY DEF f
  <2> DEFINE G == x.group
  <2>2. Grant(t, c, b, f, G, cvs)
    BY <2>1
  <2> HIDE DEF b, G
  <2>3. f[b].state \in {"EMPTY", "CACHED", "MODIFIED"}
    BY <1>2
  <2>. QED BY <1>0, <1>1, <1>2, <2>2, <2>3, GrantFacts DEF G
<1>4. Counted(x.group, b, 1) /\ group' \in GroupFun
  <2>1. Counted(x.group, b, 1)
    BY <1>1, <1>3, CountedUsers
  <2>. QED BY <2>1 DEF Counted
<1>5. TypeOK'
  <2>1. tree' \in SUBSET Bds
    BY <1>0, <1>1 DEF Taken, TypeOK
  <2>. QED BY <1>0, <1>3, <1>4, <2>1 DEF TypeOK, Aside, AheadRec, HistRec
<1>6. SameRequests /\ ahead'.pc = ahead.pc /\ ahead'.dd = ahead.dd
      /\ UNCHANGED <<swap, worker, free_workers>>
  BY <1>3 DEF SameRequests, Aside, SameAhead
<1>7. TasksInv'
  <2>1. ASSUME NEW u \in Tasks \ {t}
        PROVE  /\ task'[u].pc \in OwnPc \cup BdWait \cup {"reading"} => task'[u].bd \in Bds
               /\ task'[u].pc # "idle" => task'[u].dd \in Devs
    BY <1>3 DEF OthersKept, Inv, TasksInv
  <2>. QED BY <1>1, <1>3, <2>1 DEF TasksInv
<1>8. RequestsInv'
  BY <1>6 DEF Inv, RequestsInv, SameRequests
<1>9. task'[t].pc \notin BdWait /\ t \notin Workers /\ t # "swapout" /\ t # "ahead"
  BY <1>3, BdbufAssumption DEF BdWait
<1>10. \A y :
           /\ Owners(y)' = IF task'[t].pc \in OwnPc /\ b = y THEN Owners(y) \cup {t} ELSE Owners(y) \ {t}
           /\ Waiting(y)' = Waiting(y) \ {t}
           /\ Drivers(y)' = IF task'[t].pc = "reading" /\ b = y THEN Drivers(y) \cup {t} ELSE Drivers(y) \ {t}
  BY <1>3, <1>6, <1>9, HandsStep
<1>11. \A y : t \notin Owners(y) /\ t \notin Waiting(y) /\ t \notin Drivers(y)
  BY <1>9 DEF Owners, Waiting, Drivers
<1>12. \A y \in Bds \ {b} : Owners(y)' = Owners(y) /\ Drivers(y)' = Drivers(y) /\ Waiting(y)' = Waiting(y)
  BY <1>10, <1>11
<1>13. /\ Waiting(b)' = {}
       /\ \/ bd'[b].state = "ACCESS_EMPTY" /\ t \in Tasks /\ Owners(b)' = {t} /\ Drivers(b)' = {}
          \/ bd'[b].state = "TRANSFER" /\ Owners(b)' = {} /\ Drivers(b)' = {t}
  BY <1>1, <1>3, <1>10 DEF OwnPc
<1>14. \A g \in Groups : Sleepers(g)' = Sleepers(g)
  <2>1. \A g : t \notin Sleepers(g)
    BY DEF Sleepers
  <2>2. OthersKept(t)
    BY <1>3
  <2>3. \A g : Sleepers(g)' = Sleepers(g) \ {t}
    BY <1>9, <2>2, SleepersFrame
  <2>. QED BY <2>1, <2>3
<1>15. Took(x, c.dd, c.media, t)
  <2>1. \A u \in Tasks : task'[u].pc \in {"rec", "search"} => task[u].pc \in {"rec", "search"}
    BY <1>3 DEF OthersKept
  <2>. QED BY <1>2, <1>3, <1>4, <1>12, <1>13, <1>14, <2>1 DEF Took
<1>16. Inv' /\ Moves
  BY <1>5, <1>7, <1>8, <1>15, TookStep
<1>. QED BY <1>16 DEF Good

\* rtems_bdbuf_get_buffer_for_access, every outcome.
LEMMA SearchStep ==
  ASSUME Inv, NEW t \in Tasks, NEW c \in TaskRec, c.dd \in Devs,
         task[t].pc \notin OwnPc \cup BdWait \cup {"reading"},
         GetBufferForAccess(t, c), Aside
  PROVE  Good
<1>0. TypeOK /\ group \in GroupFun /\ CountsWithout(t, group) /\ \A b : t \notin Waiting(b)
  BY WithoutTask DEF Inv, TypeOK, Waiting
<1>1. ASSUME NEW b \in InTree(c.dd, c.media),
             IF group[GroupOf(b)].bds_per_group = dev[c.dd].bds_per_group
             THEN WaitForAccess(t, c, b, group) ELSE WaitForRecycle(t, c, b, group)
      PROVE  Good
  <2>1. b \in tree /\ b \in Bds
    BY <1>0 DEF InTree, TypeOK
  <2>2. BufferInv(b)
    BY <2>1 DEF Inv
  <2>3. Comes(t, c, b, group)
    BY <1>0, <2>1, <2>2 DEF BufferInv, Comes
  <2>4. CASE WaitForAccess(t, c, b, group)
    BY <2>3, <2>4, WaitForAccessStep
  <2>5. CASE group[GroupOf(b)].bds_per_group # dev[c.dd].bds_per_group /\ WaitForRecycle(t, c, b, group)
    <3>1. hist.resized
      BY <2>1, <2>5, GroupFacts DEF Inv, SizesInv
    <3>. QED BY <2>3, <2>5, <3>1, WaitForRecycleStep
  <2>. QED BY <1>1, <2>4, <2>5
<1>2. ASSUME InTree(c.dd, c.media) = {}, HasUsable(t, c.dd),
             LET x == FromLru(t, c.dd) IN
               IF x.ok
               THEN /\ lru' = x.lru /\ tree' = x.tree \cup {x.b}
                    /\ Grant(t, c, x.b, SetupEmpty(x, c.dd, c.media, "EMPTY"), x.group,
                             IF x.fresh # {} THEN {"buffer"} ELSE {})
                    /\ UNCHANGED <<modified, sync, fatal>>
               ELSE Fatal
      PROVE  Good
  <2> DEFINE x == FromLru(t, c.dd)
             cvs == IF x.fresh # {} THEN {"buffer"} ELSE {}
  <2>1. PICK O : Taken(x, c.dd, O)
    BY <1>0, <1>2, FromLruFacts
  <2>2. CASE x.ok
    <3>1. /\ lru' = x.lru /\ tree' = x.tree \cup {x.b}
          /\ Grant(t, c, x.b, SetupEmpty(x, c.dd, c.media, "EMPTY"), x.group, cvs)
          /\ UNCHANGED <<modified, sync, fatal>>
      BY <1>2, <2>2
    <3> HIDE DEF x, cvs
    <3>. QED BY <1>2, <2>1, <2>2, <3>1, TakeStep
  <2>3. CASE ~x.ok
    <3>1. Fatal
      BY <1>2, <2>3
    <3>2. hist.orphan
      BY <2>1, <2>3 DEF Taken
    <3>. QED BY <3>1, <3>2, FatalStep
  <2>. QED BY <2>2, <2>3
<1>3. CASE SleepForBuffer(t, c, group)
  <2>1. PICK b : b \in Live
    <3>1. 0 \in Groups
      BY BdbufAssumption DEF Groups
    <3>2. FirstBd(0) \in LiveIn(0, group[0].bds_per_group)
      BY <1>0, <3>1, LiveFacts, GroupFacts
    <3>. QED BY <1>0, <3>1, <3>2, LiveFacts
  <2>. QED BY <1>0, <1>3, <2>1, SleepForBufferStep
<1>. QED BY <1>1, <1>2, <1>3 DEF GetBufferForAccess

\* The first search of rtems_bdbuf_get and rtems_bdbuf_read.
LEMMA GetStep ==
  ASSUME Inv, NEW t \in Tasks, NEW op \in {"get", "read"}, NEW d \in Devs, NEW k \in 0 .. MediaBlocks - 1,
         Get(t, op, d, k)
  PROVE  Good
<1> DEFINE m == k * Span(d)
           c == [task[t] EXCEPT !.op = op, !.dd = d, !.block = k, !.media = m]
<1>1. task[t].pc = "idle" /\ GetBufferForAccess(t, c) /\ Aside
  BY DEF Get, Aside, io
<1>2. TypeOK
  BY DEF Inv
<1>3. k \in Int /\ m \in Int
  <2>1. Span(d) \in Int
    <3>1. dev[d].bds_per_group \in 1 .. MaxBdsPerGroup
      BY <1>2 DEF TypeOK, DevFun
    <3>. QED BY <3>1, BdbufAssumption DEF Span
  <2>. QED BY <2>1, BdbufAssumption
<1> HIDE DEF m
<1>4. c \in TaskRec /\ c.dd = d
  <2>1. task[t] \in TaskRec
    BY <1>2 DEF TypeOK, TaskFun
  <2>. QED BY <1>3, <2>1 DEF TaskRec
<1> HIDE DEF c
<1>5. task[t].pc \notin OwnPc \cup BdWait \cup {"reading"}
  BY <1>1 DEF OwnPc, BdWait
<1>. QED BY <1>1, <1>4, <1>5, SearchStep

\* The searches that follow a wake-up.
LEMMA AgainSteps ==
  ASSUME Inv, NEW t \in Tasks, SearchAgain(t) \/ AccessAgain(t) \/ RecycleAgain(t)
  PROVE  Good
<1>0. TypeOK /\ task[t] \in TaskRec
  BY DEF Inv, TypeOK, TaskFun
<1>1. CASE SearchAgain(t)
  <2>1. task[t].pc \in {"buf", "search"} /\ GetBufferForAccess(t, task[t]) /\ Aside
    BY <1>1 DEF SearchAgain, Aside, io
  <2>2. task[t].dd \in Devs
    BY <2>1 DEF Inv, TasksInv
  <2>3. task[t].pc \notin OwnPc \cup BdWait \cup {"reading"}
    BY <2>1 DEF OwnPc, BdWait
  <2> DEFINE c == task[t]
  <2>4. c \in TaskRec /\ c.dd \in Devs /\ GetBufferForAccess(t, c)
    BY <1>0, <2>1, <2>2
  <2> HIDE DEF c
  <2>. QED BY <2>1, <2>3, <2>4, SearchStep
<1>2. ASSUME task[t].pc \in {"acc", "rec"}
      PROVE  Comes(t, task[t], task[t].bd, AfterWait(t))
  <2>1. task[t].pc \in BdWait /\ task[t].pc \notin OwnPc \cup {"reading"}
    BY <1>2 DEF BdWait, OwnPc
  <2>2. PICK b \in Bds : b = task[t].bd
    BY <2>1 DEF Inv, TasksInv
  <2>3. t \in Waiting(b) /\ BufferInv(b)
    BY <2>1, <2>2 DEF Waiting, Inv
  <2>4. b \in Live /\ bd[b].state # "FREE"
    BY <2>3 DEF BufferInv
  <2>5. task[t].dd \in Devs
    BY <1>2 DEF Inv, TasksInv
  <2>6. CountsWithout(t, AfterWait(t))
    BY <2>1, WithoutTask
  <2>. QED BY <1>0, <2>1, <2>2, <2>4, <2>5, <2>6 DEF Comes
<1> DEFINE c == task[t]
           b == task[t].bd
           g == AfterWait(t)
<1>3. CASE AccessAgain(t)
  <2>1. task[t].pc = "acc" /\ WaitForAccess(t, c, b, g) /\ Aside
    BY <1>3 DEF AccessAgain, Aside, io
  <2>2. Comes(t, c, b, g)
    BY <1>2, <2>1
  <2> HIDE DEF c, b, g
  <2>. QED BY <2>1, <2>2, WaitForAccessStep
<1>4. CASE RecycleAgain(t)
  <2>1. task[t].pc = "rec" /\ WaitForRecycle(t, c, b, g) /\ Aside
    BY <1>4 DEF RecycleAgain, Aside, io
  <2>2. Comes(t, c, b, g)
    BY <1>2, <2>1
  <2>3. hist.resized
    BY <2>1 DEF Inv, SizesInv
  <2> HIDE DEF c, b, g
  <2>. QED BY <2>1, <2>2, <2>3, WaitForRecycleStep
<1>. QED BY <1>1, <1>3, <1>4

\* Waking the waiters of some buffers is a broadcast.
LEMMA WakeForFacts ==
  ASSUME NEW t, NEW S, NEW cv, NEW tk
  PROVE  \E cvs : WakeFor(t, S, cv, tk) = Woken(cvs, tk)
BY DEF WakeFor

\* Buffers that are discarded
LEMMA DiscardFacts ==
  ASSUME NEW t, NEW f \in BdFun, NEW X, NEW e, e = Discard(t, f, X)
  PROVE  /\ e \in BdFun
         /\ \A b \in Bds : /\ e[b].dd = f[b].dd /\ e[b].block = f[b].block /\ e[b].val = f[b].val
                           /\ b \in X \/ e[b].state = f[b].state
                           /\ b \notin X \/ ~Waited(t, b) \/ e[b].state = "EMPTY"
                           /\ b \notin X \/ Waited(t, b) \/ e[b].state = "FREE"
<1> DEFINE k == SetState(f, X, "EMPTY")
           W == Unwaited(t, X)
<1>0. "EMPTY" \in States /\ "FREE" \in States
  BY DEF States
<1>1. \A b : b \in W <=> b \in X /\ ~Waited(t, b)
  BY DEF Unwaited
<1>2. /\ k \in BdFun
      /\ \A b \in Bds : /\ k[b].state = IF b \in X THEN "EMPTY" ELSE f[b].state
                        /\ k[b].dd = f[b].dd /\ k[b].block = f[b].block /\ k[b].val = f[b].val
  BY <1>0, SetStateFacts
<1>3. e = SetState(k, W, "FREE")
  BY DEF Discard
<1> HIDE DEF k, W
<1>4. /\ e \in BdFun
      /\ \A b \in Bds : /\ e[b].state = IF b \in W THEN "FREE" ELSE k[b].state
                        /\ e[b].dd = k[b].dd /\ e[b].block = k[b].block /\ e[b].val = k[b].val
  BY <1>0, <1>2, <1>3, SetStateFacts
<1>. QED BY <1>1, <1>2, <1>4

\* Which of the discarded buffers become free.
LEMMA UnwaitedFacts ==
  ASSUME NEW t, NEW X
  PROVE  /\ \A b : b \in Unwaited(t, X) <=> b \in X /\ ~Waited(t, b)
         /\ \A s : IsList(Bds, s, X) => IsList(Bds, DiscardLru(t, s), Unwaited(t, X))
<1> DEFINE W == Unwaited(t, X)
<1>1. \A b : b \in W <=> b \in X /\ ~Waited(t, b)
  BY DEF Unwaited
<1>5. ASSUME NEW s, IsList(Bds, s, X)
      PROVE  IsList(Bds, DiscardLru(t, s), W)
  <2>1. ToSet(s) = X
    BY <1>5 DEF IsList
  <2>2. DiscardLru(t, s) = Reverse(Only(s, W))
    BY <2>1 DEF DiscardLru, W
  <2> HIDE DEF W
  <2>3. IsList(Bds, Only(s, W), X \cap W)
    BY <1>5, OnlyFacts
  <2>4. X \cap W = W
    BY <1>1
  <2>5. IsList(Bds, Only(s, W), W)
    BY <2>3, <2>4
  <2>. QED BY <2>2, <2>5, ReverseFacts
<1>. QED BY <1>1, <1>5 DEF W

\* A step of t on its buffer b that leaves the devices and requests alone.
Elsewhere == UNCHANGED <<dev, disk, swap, worker, free_workers, syncing, ahead>>
HistKept == HistRec(hist') /\ hist'.orphan = hist.orphan /\ hist'.resized = hist.resized

\* A step that leaves the history alone.
LEMMA HistSame ==
  ASSUME TypeOK, hist' = hist
  PROVE  HistKept
BY DEF TypeOK, HistRec, HistKept

\* A task gives up a buffer it owns: every way rtems_bdbuf_release and its relatives end.
LEMMA LeaveStep ==
  ASSUME Inv, NEW t \in Tasks, NEW b \in Bds, task[t].pc \in OwnPc, task[t].bd = b,
         bd' \in BdFun, \A x \in Bds \ {b} : bd'[x].state = bd[x].state,
         \A x \in Bds : bd'[x].dd = bd[x].dd /\ bd'[x].block = bd[x].block,
         NEW r \in TaskRec, r.pc = "idle" \/ (r.pc = "syn" /\ r.bd = b /\ r.dd \in Devs),
         NEW cvs, NEW k, k = [task EXCEPT ![t] = r], task' = Woken(cvs, k),
         bd'[b].state \in {"CACHED", "MODIFIED", "SYNC", "EMPTY", "FREE"},
         bd'[b].state = "EMPTY" => Waited(t, b),
         bd'[b].state = "FREE" => ~Waited(t, b) /\ r.pc = "idle",
         tree' = IF bd'[b].state = "FREE" THEN tree \ {b} ELSE tree,
         Linked(b),
         Counted(group, b, One(bd'[b].state \in InUse) - 1 + One(r.pc = "syn")),
         Elsewhere, HistKept
  PROVE  Inv'
<1>1. TypeOK /\ task \in TaskFun
  BY DEF Inv, TypeOK
<1>2. task' \in TaskFun /\ OthersKept(t) /\ task'[t].pc = r.pc /\ task'[t].bd = r.bd /\ task'[t].dd = r.dd
  BY <1>1, WokenStep
<1>3. /\ task'[t].pc \notin OwnPc \cup {"reading"}
      /\ task'[t].pc \in BdWait <=> r.pc = "syn"
      /\ task'[t].pc \notin {"rec", "search"}
  BY <1>2 DEF OwnPc, BdWait
<1>4. group' \in GroupFun /\ \A h \in Groups : group'[h].bds_per_group = group[h].bds_per_group
  BY DEF Counted
<1>5. TypeOK'
  <2>1. tree' \in SUBSET Bds
    BY <1>1 DEF TypeOK
  <2>2. HistRec(hist')
    BY DEF HistKept
  <2>. QED BY <1>1, <1>2, <1>4, <2>1, <2>2 DEF TypeOK, Elsewhere, HistRec
<1>6. OnBuffer(t, b)
  <2>1. SameRequests /\ SameSizes
    BY <1>4 DEF SameRequests, SameSizes, Elsewhere, HistKept
  <2>2. Place(t)' => task'[t].bd = b
    BY <1>2, <1>3 DEF Place
  <2>3. tree' \subseteq tree /\ \A x \in Bds \ {b} : x \in tree' <=> x \in tree
    OBVIOUS
  <2>4. task'[t].pc # "idle" => task'[t].dd \in Devs
    BY <1>2
  <2>. QED BY <1>2, <1>3, <2>1, <2>2, <2>3, <2>4 DEF OnBuffer, Elsewhere, HistKept
<1>7. One(task'[t].pc \in BdWait) = One(r.pc = "syn")
  BY <1>3 DEF One
<1>8. Counted(group, b, One(bd'[b].state \in InUse) - 1 + One(task'[t].pc \in BdWait))
  BY <1>7
<1>9. b \in tree' <=> (b \in tree /\ bd'[b].state # "FREE")
  OBVIOUS
<1>10. bd'[b].state = "FREE" => ~Waited(t, b) /\ task'[t].pc \notin BdWait
  BY <1>3
<1>. QED BY <1>3, <1>5, <1>6, <1>8, <1>9, <1>10, GiveBack

\* A buffer put at an end of a list that did not have it.
LEMMA AppendFacts ==
  ASSUME NEW T, NEW s, NEW X, IsList(T, s, X), NEW x \in T, x \notin X
  PROVE  IsList(T, Append(s, x), X \cup {x}) /\ IsList(T, <<x>> \o s, X \cup {x})
BY ListOps

\* t has buffer b and gives it up in this step.
Owning(t, b) == t \in Tasks /\ b \in Bds /\ task[t].pc \in OwnPc /\ task[t].bd = b

\* What is known of a buffer that a task owns.
LEMMA OwningFacts ==
  ASSUME Inv, NEW t, NEW b, Owning(t, b)
  PROVE  /\ b \in Live /\ bd[b].state \in Access /\ bd[b].dd \in Devs
         /\ b \notin In({"FREE", "CACHED"}) /\ b \notin In({"MODIFIED"}) /\ b \notin In({"SYNC"})
         /\ bd \in BdFun /\ group \in GroupFun /\ ListsInv /\ TypeOK
         /\ task[t] \in TaskRec /\ task[t].dd \in Devs
         /\ Idle(task[t]) \in TaskRec /\ Idle(task[t]).pc = "idle"
<1>1. b \in Live /\ bd[b].state \in Access /\ b \in Bds
  BY OwnerFacts DEF Owning
<1>2. bd[b].dd \in Devs
  BY <1>1 DEF Inv, BufferInv, Access
<1>3. b \notin In({"FREE", "CACHED"}) /\ b \notin In({"MODIFIED"}) /\ b \notin In({"SYNC"})
  BY <1>1 DEF In, Access
<1>4. task[t] \in TaskRec /\ task[t].dd \in Devs
  BY DEF Inv, TypeOK, TaskFun, Owning, TasksInv, OwnPc
<1>5. Idle(task[t]) \in TaskRec /\ Idle(task[t]).pc = "idle"
  BY <1>4, IdleFacts
<1>. QED BY <1>1, <1>2, <1>3, <1>4, <1>5 DEF Inv, TypeOK

\* rtems_bdbuf_release of an unmodified buffer.
LEMMA ToLruStep ==
  ASSUME Inv, NEW t, NEW b, Owning(t, b), bd[b].state = "ACCESS_CACHED",
         ToLru(t, b), Elsewhere, HistKept
  PROVE  Inv' /\ Moves
<1>0. /\ bd' = SetState(bd, {b}, "CACHED") /\ lru' = Append(lru, b)
      /\ group' = Users(group, GroupOf(b), -1)
      /\ task' = WakeFor(t, {b}, "access", [task EXCEPT ![t] = Idle(@)])
      /\ UNCHANGED <<tree, modified, sync>>
  BY DEF ToLru
<1>1. /\ b \in Live /\ bd[b].state \in Access
      /\ b \notin In({"FREE", "CACHED"}) /\ b \notin In({"MODIFIED"}) /\ b \notin In({"SYNC"})
      /\ bd \in BdFun /\ group \in GroupFun /\ ListsInv
      /\ Idle(task[t]) \in TaskRec /\ Idle(task[t]).pc = "idle"
  BY OwningFacts
<1>2. t \in Tasks /\ b \in Bds /\ task[t].pc \in OwnPc /\ task[t].bd = b
  BY DEF Owning
<1> DEFINE r == Idle(task[t])
           k == [task EXCEPT ![t] = r]
<1>3. PICK cvs : task' = Woken(cvs, k)
  <2>1. task' = WakeFor(t, {b}, "access", k)
    BY <1>0
  <2> HIDE DEF k
  <2>. QED BY <2>1, WakeForFacts
<1>4. r \in TaskRec /\ r.pc = "idle" /\ k = [task EXCEPT ![t] = r]
  BY <1>1
<1>5. "CACHED" \in States
  BY DEF States
<1>6. /\ bd' \in BdFun
      /\ \A x \in Bds : /\ bd'[x].state = IF x \in {b} THEN "CACHED" ELSE bd[x].state
                        /\ bd'[x].dd = bd[x].dd /\ bd'[x].block = bd[x].block
  BY <1>0, <1>1, <1>5, SetStateFacts
<1>7. bd'[b].state = "CACHED" /\ \A x \in Bds \ {b} : bd'[x].state = bd[x].state
  BY <1>2, <1>6
<1>8. Linked(b)
  <2>1. IsList(Bds, Append(lru, b), In({"FREE", "CACHED"}) \cup {b})
    <3> DEFINE X == In({"FREE", "CACHED"})
    <3>1. IsList(Bds, lru, X) /\ b \notin X
      BY <1>1 DEF ListsInv
    <3> HIDE DEF X
    <3>2. IsList(Bds, Append(lru, b), X \cup {b})
      BY <1>2, <3>1, AppendFacts
    <3>. QED BY <3>2 DEF X
  <2>2. In({"MODIFIED"}) \ {b} = In({"MODIFIED"}) /\ In({"SYNC"}) \ {b} = In({"SYNC"})
    BY <1>1
  <2>. QED BY <1>0, <1>1, <1>7, <2>1, <2>2 DEF Linked, ListsInv
<1>9. Counted(group, b, One(bd'[b].state \in InUse) - 1 + One(r.pc = "syn"))
  <2>1. Counted(group, b, -1)
    <3>1. -1 \in Int
      OBVIOUS
    <3>. QED BY <1>0, <1>1, <1>2, <3>1, CountedUsers
  <2>2. One(bd'[b].state \in InUse) = 0 /\ One(r.pc = "syn") = 0
    BY <1>4, <1>7 DEF One, InUse, Access, Transferring
  <2>3. 0 - 1 + 0 = -1
    OBVIOUS
  <2>. QED BY <2>1, <2>2, <2>3
<1> HIDE DEF r, k
<1>10. tree' = IF bd'[b].state = "FREE" THEN tree \ {b} ELSE tree
  BY <1>0, <1>7
<1>11. Inv'
  BY <1>2, <1>3, <1>4, <1>6, <1>7, <1>8, <1>9, <1>10, LeaveStep
<1>12. Moves
  BY <1>6, TransitionFacts DEF Moves
<1>. QED BY <1>11, <1>12

\* A buffer without contents, or purged, is discarded when it is released.
LEMMA DiscardAfterAccessStep ==
  ASSUME Inv, NEW t, NEW b, Owning(t, b), bd[b].state \in {"ACCESS_EMPTY", "ACCESS_PURGED"},
         DiscardAfterAccess(t, b), Elsewhere, HistKept
  PROVE  Inv' /\ Moves
<1>0. /\ bd' = Discard(t, bd, {b})
      /\ tree' = tree \ Unwaited(t, {b}) /\ lru' = DiscardLru(t, <<b>>) \o lru
      /\ group' = Users(group, GroupOf(b), -1)
      /\ task' = WakeFor(t, {b}, "access", [task EXCEPT ![t] = Idle(@)])
      /\ UNCHANGED <<modified, sync>>
  BY DEF DiscardAfterAccess
<1>1. /\ b \in Live /\ bd[b].state \in Access
      /\ b \notin In({"FREE", "CACHED"}) /\ b \notin In({"MODIFIED"}) /\ b \notin In({"SYNC"})
      /\ bd \in BdFun /\ group \in GroupFun /\ ListsInv
      /\ Idle(task[t]) \in TaskRec /\ Idle(task[t]).pc = "idle"
  BY OwningFacts
<1>2. t \in Tasks /\ b \in Bds /\ task[t].pc \in OwnPc /\ task[t].bd = b
  BY DEF Owning
<1> DEFINE r == Idle(task[t])
           k == [task EXCEPT ![t] = r]
<1>3. PICK cvs : task' = Woken(cvs, k)
  <2>1. task' = WakeFor(t, {b}, "access", k)
    BY <1>0
  <2> HIDE DEF k
  <2>. QED BY <2>1, WakeForFacts
<1>4. r \in TaskRec /\ r.pc = "idle" /\ k = [task EXCEPT ![t] = r]
  BY <1>1
<1>5. /\ bd' \in BdFun
      /\ \A x \in Bds : /\ bd'[x].dd = bd[x].dd /\ bd'[x].block = bd[x].block
                        /\ x = b \/ bd'[x].state = bd[x].state
                        /\ x # b \/ ~Waited(t, x) \/ bd'[x].state = "EMPTY"
                        /\ x # b \/ Waited(t, x) \/ bd'[x].state = "FREE"
  <2> DEFINE X == {b}
  <2>0. bd \in BdFun /\ bd' = Discard(t, bd, X)
    BY <1>0, <1>1
  <2> HIDE DEF X
  <2>1. bd' \in BdFun
    BY <2>0, DiscardFacts
  <2>2. \A x \in Bds : bd'[x].dd = bd[x].dd /\ bd'[x].block = bd[x].block
    BY <2>0, DiscardFacts
  <2>3. ASSUME NEW x \in Bds
        PROVE  /\ x \in X \/ bd'[x].state = bd[x].state
               /\ x \notin X \/ ~Waited(t, x) \/ bd'[x].state = "EMPTY"
               /\ x \notin X \/ Waited(t, x) \/ bd'[x].state = "FREE"
    BY <2>0, DiscardFacts
  <2>. QED BY <2>1, <2>2, <2>3 DEF X
<1>6. /\ \A s : IsList(Bds, s, {b}) => IsList(Bds, DiscardLru(t, s), Unwaited(t, {b}))
      /\ \A x : x \in Unwaited(t, {b}) <=> x \in {b} /\ ~Waited(t, x)
  BY UnwaitedFacts
<1>7. /\ bd'[b].state = (IF Waited(t, b) THEN "EMPTY" ELSE "FREE")
      /\ \A x \in Bds \ {b} : bd'[x].state = bd[x].state
      /\ Unwaited(t, {b}) = IF Waited(t, b) THEN {} ELSE {b}
  BY <1>2, <1>5, <1>6
<1>8. Linked(b)
  <2> DEFINE W == Unwaited(t, {b})
             R == In({"FREE", "CACHED"})
  <2>1. IsList(Bds, DiscardLru(t, <<b>>), W)
    BY <1>2, <1>6, OneNode
  <2>2. W \cap R = {} /\ IsList(Bds, lru, R)
    BY <1>1, <1>7 DEF ListsInv
  <2>3. W \cup R = IF bd'[b].state \in {"FREE", "CACHED"} THEN R \cup {b} ELSE R \ {b}
    BY <1>1, <1>7
  <2> HIDE DEF W, R
  <2>4. IsList(Bds, DiscardLru(t, <<b>>) \o lru, W \cup R)
    BY <2>1, <2>2, ListOps
  <2>5. In({"MODIFIED"}) \ {b} = In({"MODIFIED"}) /\ In({"SYNC"}) \ {b} = In({"SYNC"})
    BY <1>1
  <2>. QED BY <1>0, <1>1, <1>7, <2>3, <2>4, <2>5 DEF Linked, ListsInv, R
<1>9. Counted(group, b, One(bd'[b].state \in InUse) - 1 + One(r.pc = "syn"))
  <2>1. Counted(group, b, -1)
    <3>1. -1 \in Int
      OBVIOUS
    <3>. QED BY <1>0, <1>1, <1>2, <3>1, CountedUsers
  <2>2. One(bd'[b].state \in InUse) = 0 /\ One(r.pc = "syn") = 0
    BY <1>4, <1>7 DEF One, InUse, Access, Transferring
  <2>3. 0 - 1 + 0 = -1
    OBVIOUS
  <2>. QED BY <2>1, <2>2, <2>3
<1> HIDE DEF r, k
<1>10. tree' = IF bd'[b].state = "FREE" THEN tree \ {b} ELSE tree
  BY <1>0, <1>7
<1>11. Inv'
  BY <1>2, <1>3, <1>4, <1>5, <1>7, <1>8, <1>9, <1>10, LeaveStep
<1>12. Moves
  BY <1>5, TransitionFacts DEF Moves
<1>. QED BY <1>11, <1>12

\* What the holder wrote is in its buffer only.
LEMMA WrittenFacts ==
  ASSUME bd \in BdFun, NEW b \in Bds, hist.version \in Int
  PROVE  /\ Written(b) \in BdFun
         /\ \A x \in Bds : /\ Written(b)[x].state = bd[x].state /\ Written(b)[x].hold = bd[x].hold
                           /\ Written(b)[x].dd = bd[x].dd /\ Written(b)[x].block = bd[x].block
         /\ \A x \in Bds \ {b} : Written(b)[x] = bd[x]
         /\ Written(b)[b].val = [i \in 0 .. MaxBdsPerGroup - 1 |-> hist.version + 1]
<1> DEFINE v == [i \in 0 .. MaxBdsPerGroup - 1 |-> hist.version + 1]
           r == [bd[b] EXCEPT !.val = v]
<1>1. bd[b] \in BdRec /\ v \in [0 .. MaxBdsPerGroup - 1 -> Int]
  BY DEF BdFun
<1>2. DOMAIN bd[b].val = 0 .. MaxBdsPerGroup - 1
  BY <1>1 DEF BdRec
<1>3. Written(b) = [bd EXCEPT ![b] = r]
  BY <1>2 DEF Written
<1> HIDE DEF v
<1>4. r \in BdRec /\ r.state = bd[b].state /\ r.dd = bd[b].dd /\ r.block = bd[b].block /\ r.val = v
      /\ r.hold = bd[b].hold
  BY <1>1 DEF BdRec
<1> HIDE DEF r
<1>. QED BY <1>3, <1>4 DEF BdFun, v

\* The history of a write keeps its type and the flags of the run.
LEMMA LatestFacts ==
  ASSUME TypeOK, NEW b, hist' = Latest(b)
  PROVE  HistKept
<1> DEFINE l == [hist.latest EXCEPT ![bd[b].dd] =
                    [m \in DOMAIN @ |-> IF m \in Covers(b) THEN hist.version + 1 ELSE @[m]]]
           o == hist.lost \ {<<bd[b].dd, m>> : m \in Covers(b)}
           n == hist.version + 1
<1>1. hist' = [hist EXCEPT !.version = n, !.latest = l, !.lost = o]
  BY DEF Latest
<1>2. HistRec(hist) /\ n \in Int
  BY DEF TypeOK, HistRec
<1> HIDE DEF l, o, n
<1>. QED BY <1>1, <1>2, Zenon DEF HistRec, HistKept

\* rtems_bdbuf_add_to_modified_list_after_access, the list itself.
LEMMA ToModifiedStep ==
  ASSUME Inv, NEW t, NEW b, Owning(t, b), NEW f \in BdFun,
         \A x \in Bds : f[x].state = bd[x].state /\ f[x].dd = bd[x].dd /\ f[x].block = bd[x].block,
         ToModified(t, b, f), Elsewhere, HistKept,
         bd[b].state # "ACCESS_PURGED" \/ task[t].pc = "addmod"
  PROVE  Inv' /\ Moves
<1> DEFINE e == IF bd[b].state \in {"ACCESS_CACHED", "ACCESS_EMPTY"} THEN BlockHold ELSE f[b].hold
           cvs == IF Waited(t, b) THEN {"access"} ELSE {}
           r == Idle(task[t])
           k == [task EXCEPT ![t] = r]
           y == [f[b] EXCEPT !.state = "MODIFIED", !.hold = e]
<1>1. /\ b \in Live /\ bd[b].state \in Access
      /\ b \notin In({"FREE", "CACHED"}) /\ b \notin In({"MODIFIED"}) /\ b \notin In({"SYNC"})
      /\ bd \in BdFun /\ group \in GroupFun /\ ListsInv
      /\ Idle(task[t]) \in TaskRec /\ Idle(task[t]).pc = "idle"
  BY OwningFacts
<1>2. t \in Tasks /\ b \in Bds /\ task[t].pc \in OwnPc /\ task[t].bd = b
  BY DEF Owning
<1>3. f[b] \in BdRec
  BY <1>2 DEF BdFun
<1>0. /\ bd' = [f EXCEPT ![b] = y]
      /\ modified' = Append(modified, b)
      /\ task' = Woken(cvs, k)
      /\ UNCHANGED <<tree, lru, sync, group>>
  <2>1. bd' = [f EXCEPT ![b].state = "MODIFIED", ![b].hold = IF bd[b].state \in {"ACCESS_CACHED", "ACCESS_EMPTY"} THEN BlockHold ELSE @]
    BY DEF ToModified
  <2>2. bd' = [f EXCEPT ![b] = y]
    BY <1>2, <1>3, <2>1 DEF BdFun, BdRec
  <2>. QED BY <2>2 DEF ToModified
<1>4. r \in TaskRec /\ r.pc = "idle" /\ k = [task EXCEPT ![t] = r]
  BY <1>1
<1>5. y \in BdRec /\ y.state = "MODIFIED" /\ y.dd = f[b].dd /\ y.block = f[b].block
  <2>1. e \in Int
    BY <1>3, BdbufAssumption DEF BdRec
  <2>2. "MODIFIED" \in States
    BY DEF States
  <2> HIDE DEF e
  <2>. QED BY <1>3, <2>1, <2>2 DEF BdRec
<1> HIDE DEF y, e, cvs
<1>6. /\ bd' \in BdFun
      /\ bd'[b].state = "MODIFIED" /\ \A x \in Bds \ {b} : bd'[x].state = bd[x].state
      /\ \A x \in Bds : bd'[x].dd = bd[x].dd /\ bd'[x].block = bd[x].block
  BY <1>0, <1>2, <1>5 DEF BdFun
<1>8. Linked(b)
  <2>1. IsList(Bds, Append(modified, b), In({"MODIFIED"}) \cup {b})
    <3> DEFINE X == In({"MODIFIED"})
    <3>1. IsList(Bds, modified, X) /\ b \notin X
      BY <1>1 DEF ListsInv
    <3> HIDE DEF X
    <3>2. IsList(Bds, Append(modified, b), X \cup {b})
      BY <1>2, <3>1, AppendFacts
    <3>. QED BY <3>2 DEF X
  <2>2. In({"FREE", "CACHED"}) \ {b} = In({"FREE", "CACHED"}) /\ In({"SYNC"}) \ {b} = In({"SYNC"})
    BY <1>1
  <2>. QED BY <1>0, <1>1, <1>6, <2>1, <2>2 DEF Linked, ListsInv
<1>9. Counted(group, b, One(bd'[b].state \in InUse) - 1 + One(r.pc = "syn"))
  <2>1. Counted(group, b, 0)
    <3>1. \A h \in Groups : group[h].users \in Int
      BY <1>1 DEF GroupFun
    <3>. QED BY <1>0, <1>1, <3>1 DEF Counted
  <2>2. One(bd'[b].state \in InUse) = 1 /\ One(r.pc = "syn") = 0
    BY <1>4, <1>6 DEF One, InUse
  <2>3. 1 - 1 + 0 = 0
    OBVIOUS
  <2>. QED BY <2>1, <2>2, <2>3
<1> HIDE DEF r, k
<1>10. tree' = IF bd'[b].state = "FREE" THEN tree \ {b} ELSE tree
  BY <1>0, <1>6
<1>11. Inv'
  BY <1>0, <1>2, <1>4, <1>6, <1>8, <1>9, <1>10, LeaveStep
<1>12. Moves
  <2>1. <<bd[b].state, bd'[b].state>> \in Transitions \/ ReleasedLate(b)
    <3>1. CASE bd[b].state # "ACCESS_PURGED"
      BY <1>1, <1>6, <3>1, TransitionFacts
    <3>2. CASE bd[b].state = "ACCESS_PURGED"
      BY <1>2, <1>6, <3>2 DEF ReleasedLate
    <3>. QED BY <3>1, <3>2
  <2>. QED BY <1>6, <2>1 DEF Moves
<1>. QED BY <1>11, <1>12

\* The task keeps its buffer and waits for the sync lock, or has passed it.
LEMMA KeepStep ==
  ASSUME Inv, NEW t, NEW b, Owning(t, b), NEW pc \in OwnPc, task' = [task EXCEPT ![t].pc = pc],
         bd' \in BdFun,
         \A x \in Bds : bd'[x].state = bd[x].state /\ bd'[x].dd = bd[x].dd /\ bd'[x].block = bd[x].block,
         UNCHANGED <<lists, group>>, Elsewhere, HistKept
  PROVE  Inv' /\ Moves
<1>1. /\ b \in Live /\ bd[b].state \in Access /\ group \in GroupFun /\ ListsInv /\ TypeOK
      /\ task[t] \in TaskRec /\ task[t].dd \in Devs
  BY OwningFacts
<1>2. t \in Tasks /\ b \in Bds /\ task[t].pc \in OwnPc /\ task[t].bd = b /\ task \in TaskFun
  BY <1>1 DEF Owning, TypeOK
<1> DEFINE r == [task[t] EXCEPT !.pc = pc]
<1>3. r \in TaskRec /\ r.pc = pc /\ r.bd = b /\ r.dd = task[t].dd
  BY <1>1, <1>2 DEF TaskRec, TaskPc
<1>4. task' = [task EXCEPT ![t] = r]
  OBVIOUS
<1> HIDE DEF r
<1>5. task' \in TaskFun /\ OthersKept(t) /\ task'[t] = r
  BY <1>2, <1>3, <1>4, PlainStep
<1>6. task'[t].pc \notin BdWait /\ task'[t].pc \in OwnPc /\ task'[t].pc # "reading"
      /\ task'[t].bd = b /\ task'[t].dd \in Devs /\ task'[t].pc \notin {"rec", "search"}
  BY <1>1, <1>3, <1>5 DEF BdWait, OwnPc
<1>7. UNCHANGED <<tree, lru, modified, sync, group>>
  BY DEF lists
<1>8. TypeOK'
  BY <1>1, <1>5, <1>7 DEF TypeOK, Elsewhere, HistKept, HistRec
<1>9. OnBuffer(t, b)
  <2>1. SameRequests /\ SameSizes
    BY <1>7 DEF SameRequests, SameSizes, Elsewhere, HistKept
  <2>. QED BY <1>2, <1>5, <1>6, <1>7, <2>1 DEF OnBuffer, Elsewhere, HistKept
<1>10. CountHyp(t, b)
  <2>1. task[t].pc \notin BdWait
    BY <1>2 DEF BdWait, OwnPc
  <2>2. CountsWithout(t, group)
    BY <1>2, <2>1, WithoutTask
  <2>3. Counted(group, b, 0)
    <3>1. \A h \in Groups : group[h].users \in Int
      BY <1>1 DEF GroupFun
    <3>. QED BY <1>1, <1>7, <3>1 DEF Counted
  <2>4. 0 = One(bd'[b].state \in InUse) - One(bd[b].state \in InUse) + One(task'[t].pc \in BdWait) /\ 0 \in Int
    BY <1>2, <1>6 DEF One
  <2>. QED BY <1>2, <2>2, <2>3, <2>4, CountedStep
<1>11. /\ Live' = Live
       /\ Owners(b)' = Owners(b) \cup {t} /\ Waiting(b)' = Waiting(b) \ {t} /\ Drivers(b)' = Drivers(b) \ {t}
  BY <1>1, <1>2, <1>6, <1>8, <1>9, OnBufferStep
<1>12. \A S : In(S)' = In(S)
  <2>1. \A x \in Live : bd'[x].state = bd[x].state
    BY <1>1, LiveFacts
  <2>. QED BY <1>11, <2>1, InSame
<1>13. ListsInv'
  BY <1>1, <1>7, <1>12 DEF ListsInv
<1>14. BufferInv(b)'
  <2>1. BufferInv(b)
    BY <1>2 DEF Inv
  <2>2. t \in Owners(b) /\ t \notin Waiting(b) /\ t \notin Drivers(b)
    BY <1>2, BdbufAssumption DEF Owners, Waiting, Drivers, BdWait, OwnPc
  <2>3. SameBuffer(b)
    BY <1>2, <1>7, <1>11, <2>2 DEF SameBuffer
  <2>4. hist.orphan => hist'.orphan
    BY DEF HistKept
  <2>. QED BY <1>2, <2>1, <2>3, <2>4, BufferFrame
<1>15. Inv'
  BY <1>1, <1>2, <1>8, <1>9, <1>10, <1>13, <1>14, Closing
<1>. QED BY <1>15 DEF Moves

\* The same with its wait for the sync lock.
LEMMA AddToModifiedStep ==
  ASSUME Inv, NEW t, NEW b, Owning(t, b), NEW f \in BdFun,
         \A x \in Bds : f[x].state = bd[x].state /\ f[x].dd = bd[x].dd /\ f[x].block = bd[x].block,
         AddToModified(t, b, f), Elsewhere, HistKept, bd[b].state # "ACCESS_PURGED"
  PROVE  Inv' /\ Moves
<1>1. CASE /\ task' = [task EXCEPT ![t].pc = "wantsync"]
           /\ bd' = f
           /\ UNCHANGED <<lists, group>>
  <2>1. "wantsync" \in OwnPc
    BY DEF OwnPc
  <2>. QED BY <1>1, <2>1, KeepStep
<1>2. CASE ToModified(t, b, f)
  BY <1>2, ToModifiedStep
<1>. QED BY <1>1, <1>2 DEF AddToModified

\* A step that keeps the invariant, moves along the diagram and asserts nothing.
LEMMA GoodStep ==
  ASSUME Inv', Moves, fatal' = fatal
  PROVE  Good
BY DEF Good

\* rtems_bdbuf_release, release_modified and their wait for the sync lock.
LEMMA ReleaseStep ==
  ASSUME Inv, NEW t \in Tasks, Release(t) \/ ReleaseModified(t) \/ PassSyncLock(t) \/ AddModified(t)
  PROVE  Good
<1>0. TypeOK /\ bd \in BdFun /\ hist.version \in Int
  BY DEF Inv, TypeOK
<1>1. fatal' = fatal /\ Elsewhere
  BY DEF Release, ReleaseModified, PassSyncLock, AddModified, Elsewhere, io
<1>2. task[t].pc \in OwnPc
  BY DEF Release, ReleaseModified, PassSyncLock, AddModified, Holding, OwnPc
<1>3. PICK b \in Bds : b = task[t].bd
  BY <1>2 DEF Inv, TasksInv
<1>4. Owning(t, b)
  BY <1>2, <1>3 DEF Owning
<1>5. bd[b].state \in Access
  BY <1>4, OwningFacts
<1>6. CASE Release(t)
  <2>1. HistKept
    BY <1>0, <1>6, HistSame DEF Release
  <2>2. CASE bd[b].state = "ACCESS_CACHED" /\ ToLru(t, b)
    BY <1>1, <1>4, <2>1, <2>2, ToLruStep, GoodStep
  <2>3. CASE bd[b].state \in {"ACCESS_EMPTY", "ACCESS_PURGED"} /\ DiscardAfterAccess(t, b)
    BY <1>1, <1>4, <2>1, <2>3, DiscardAfterAccessStep, GoodStep
  <2>4. CASE bd[b].state = "ACCESS_MODIFIED" /\ AddToModified(t, b, bd)
    <3>0. bd[b].state # "ACCESS_PURGED"
      BY <2>4
    <3>1. Inv' /\ Moves
      BY <1>0, <1>1, <1>4, <2>1, <2>4, <3>0, AddToModifiedStep
    <3>. QED BY <1>1, <3>1, GoodStep
  <2>. QED BY <1>3, <1>6, <2>2, <2>3, <2>4 DEF Release
<1>7. CASE ReleaseModified(t)
  <2>1. CASE bd[b].state = "ACCESS_PURGED" /\ DiscardAfterAccess(t, b) /\ hist' = hist
    <3>1. HistKept
      BY <1>0, <2>1, HistSame
    <3>. QED BY <1>1, <1>4, <2>1, <3>1, DiscardAfterAccessStep, GoodStep
  <2>2. CASE bd[b].state # "ACCESS_PURGED" /\ AddToModified(t, b, Written(b)) /\ hist' = Latest(b)
    <3>1. HistKept
      BY <1>0, <2>2, LatestFacts
    <3>2. /\ Written(b) \in BdFun
          /\ \A x \in Bds : /\ Written(b)[x].state = bd[x].state
                            /\ Written(b)[x].dd = bd[x].dd /\ Written(b)[x].block = bd[x].block
      BY <1>0, WrittenFacts
    <3> DEFINE f == Written(b)
    <3>3. AddToModified(t, b, f) /\ f \in BdFun
      BY <2>2, <3>2
    <3>4. \A x \in Bds : f[x].state = bd[x].state /\ f[x].dd = bd[x].dd /\ f[x].block = bd[x].block
      BY <3>2
    <3> HIDE DEF f
    <3>5. Inv' /\ Moves
      BY <1>1, <1>4, <2>2, <3>1, <3>3, <3>4, AddToModifiedStep
    <3>. QED BY <1>1, <3>5, GoodStep
  <2>. QED BY <1>3, <1>7, <2>1, <2>2 DEF ReleaseModified
<1>8. CASE PassSyncLock(t)
  <2>1. task' = [task EXCEPT ![t].pc = "addmod"] /\ UNCHANGED <<bd, lists, group, hist>>
    BY <1>8 DEF PassSyncLock
  <2>2. HistKept /\ "addmod" \in OwnPc
    BY <1>0, <2>1, HistSame DEF OwnPc
  <2>3. bd' \in BdFun
    BY <1>0, <2>1
  <2>4. Inv' /\ Moves
    BY <1>1, <1>4, <2>1, <2>2, <2>3, KeepStep
  <2>. QED BY <1>1, <2>4, GoodStep
<1>9. CASE AddModified(t)
  <2>1. ToModified(t, b, bd) /\ hist' = hist /\ task[t].pc = "addmod"
    BY <1>3, <1>9 DEF AddModified
  <2>2. HistKept
    BY <1>0, <2>1, HistSame
  <2>3. Inv' /\ Moves
    BY <1>0, <1>1, <1>4, <2>1, <2>2, ToModifiedStep
  <2>. QED BY <1>1, <2>3, GoodStep
<1>. QED BY <1>6, <1>7, <1>8, <1>9

\* rtems_bdbuf_sync up to its sleep.
LEMMA SyncStep ==
  ASSUME Inv, NEW t \in Tasks, Sync(t)
  PROVE  Good
<1>0. TypeOK /\ bd \in BdFun /\ hist.version \in Int
  BY DEF Inv, TypeOK
<1>1. fatal' = fatal /\ Elsewhere /\ task[t].pc \in OwnPc
  BY DEF Sync, Elsewhere, io, Holding, OwnPc
<1>2. PICK b \in Bds : b = task[t].bd
  BY <1>1 DEF Inv, TasksInv
<1>3. Owning(t, b)
  BY <1>1, <1>2 DEF Owning
<1>4. CASE bd[b].state = "ACCESS_PURGED" /\ DiscardAfterAccess(t, b) /\ hist' = hist
  <2>1. HistKept
    BY <1>0, <1>4, HistSame
  <2>. QED BY <1>1, <1>3, <1>4, <2>1, DiscardAfterAccessStep, GoodStep
<1>5. ASSUME bd[b].state # "ACCESS_PURGED",
             bd' = SetState(Written(b), {b}, "SYNC"), sync' = Append(sync, b),
             group' = Users(group, GroupOf(b), 1),
             task' = Woken(IF Waited(t, b) THEN {"access"} ELSE {},
                           [task EXCEPT ![t] = At(@, "syn", b, "transfer")]),
             hist' = Latest(b), UNCHANGED <<tree, lru, modified>>
      PROVE  Good
  <2> DEFINE f == Written(b)
             cvs == IF Waited(t, b) THEN {"access"} ELSE {}
             r == At(task[t], "syn", b, "transfer")
             k == [task EXCEPT ![t] = r]
  <2>1. HistKept
    BY <1>0, <1>5, LatestFacts
  <2>2. /\ b \in Live /\ bd[b].state \in Access
        /\ b \notin In({"FREE", "CACHED"}) /\ b \notin In({"MODIFIED"}) /\ b \notin In({"SYNC"})
        /\ group \in GroupFun /\ ListsInv /\ task[t] \in TaskRec /\ task[t].dd \in Devs
    BY <1>3, OwningFacts
  <2>3. "syn" \in TaskPc /\ "transfer" \in {"none", "access", "transfer", "buffer"} /\ b \in Int /\ "SYNC" \in States
    BY GroupFacts DEF TaskPc, BdWait, States, Transferring
  <2>4. r \in TaskRec /\ r.pc = "syn" /\ r.bd = b /\ r.dd = task[t].dd
    BY <2>2, <2>3, AtFacts
  <2>5. task' = Woken(cvs, k)
    BY <1>5
  <2> HIDE DEF cvs, r, f
  <2>6. k = [task EXCEPT ![t] = r]
    OBVIOUS
  <2> HIDE DEF k
  <2>7. /\ f \in BdFun
        /\ \A x \in Bds : f[x].state = bd[x].state /\ f[x].dd = bd[x].dd /\ f[x].block = bd[x].block
    BY <1>0, WrittenFacts DEF f
  <2>8. /\ bd' \in BdFun
        /\ \A x \in Bds : /\ bd'[x].state = IF x \in {b} THEN "SYNC" ELSE f[x].state
                          /\ bd'[x].dd = f[x].dd /\ bd'[x].block = f[x].block
    <3>1. bd' = SetState(f, {b}, "SYNC")
      BY <1>5 DEF f
    <3>. QED BY <2>3, <2>7, <3>1, SetStateFacts, SMTT(60)
  <2>9. /\ bd'[b].state = "SYNC" /\ \A x \in Bds \ {b} : bd'[x].state = bd[x].state
        /\ \A x \in Bds : bd'[x].dd = bd[x].dd /\ bd'[x].block = bd[x].block
    BY <2>7, <2>8
  <2>10. Linked(b)
    <3> DEFINE X == In({"SYNC"})
    <3>1. IsList(Bds, sync, X) /\ b \notin X
      BY <2>2 DEF ListsInv
    <3>2. In({"FREE", "CACHED"}) \ {b} = In({"FREE", "CACHED"}) /\ In({"MODIFIED"}) \ {b} = In({"MODIFIED"})
      BY <2>2
    <3> HIDE DEF X
    <3>3. IsList(Bds, Append(sync, b), X \cup {b})
      BY <3>1, AppendFacts
    <3>. QED BY <1>5, <2>2, <2>9, <3>2, <3>3 DEF Linked, ListsInv, X
  <2>11. Counted(group, b, One(bd'[b].state \in InUse) - 1 + One(r.pc = "syn"))
    <3>1. Counted(group, b, 1)
      BY <1>5, <2>2, CountedUsers
    <3>2. One(bd'[b].state \in InUse) = 1 /\ One(r.pc = "syn") = 1
      BY <2>4, <2>9 DEF One, InUse, Transferring
    <3>3. 1 - 1 + 1 = 1
      OBVIOUS
    <3>. QED BY <3>1, <3>2, <3>3
  <2>12. tree' = IF bd'[b].state = "FREE" THEN tree \ {b} ELSE tree
    BY <1>5, <2>9
  <2>13. task[t].pc \in OwnPc /\ task[t].bd = b /\ r.dd \in Devs
    BY <1>1, <1>2, <2>2, <2>4
  <2>14. Inv'
    BY <1>1, <2>1, <2>4, <2>5, <2>6, <2>8, <2>9, <2>10, <2>11, <2>12, <2>13, LeaveStep
  <2>15. Moves
    <3>1. bd[b].state \in {"ACCESS_CACHED", "ACCESS_EMPTY", "ACCESS_MODIFIED"}
      BY <1>5, <2>2 DEF Access
    <3>2. <<bd[b].state, bd'[b].state>> \in Transitions
      BY <3>1, <2>9, TransitionFacts
    <3>. QED BY <2>9, <3>2 DEF Moves
  <2>. QED BY <1>1, <2>14, <2>15, GoodStep
<1>. QED BY <1>2, <1>4, <1>5 DEF Sync

\* A task that waited for its buffer to be written goes on.
LEMMA SyncEndStep ==
  ASSUME Inv, NEW t \in Tasks, NEW b \in Bds, task[t].pc = "syn", task[t].bd = b, NEW free, NEW cvs,
         NEW k, k = [task EXCEPT ![t] = Idle(task[t])], task' = Woken(cvs, k),
         free \in BOOLEAN, free => bd[b].state = "EMPTY" /\ ~Waited(t, b),
         bd[b].state = "EMPTY" => free \/ Waited(t, b),
         bd' = IF free THEN SetState(bd, {b}, "FREE") ELSE bd,
         tree' = IF free THEN tree \ {b} ELSE tree,
         lru' = IF free THEN <<b>> \o lru ELSE lru,
         group' = AfterWait(t), UNCHANGED <<modified, sync, hist>>, Elsewhere
  PROVE  Inv' /\ Moves
<1>0. TypeOK /\ bd \in BdFun /\ task \in TaskFun /\ ListsInv /\ group \in GroupFun
  BY DEF Inv, TypeOK
<1>1. task[t].pc \in BdWait /\ task[t] \in TaskRec
  BY <1>0 DEF BdWait, TaskFun
<1>2. BufferInv(b) /\ t \in Waiting(b)
  BY <1>1 DEF Waiting, Inv
<1>3. b \in Live /\ bd[b].state # "FREE"
  BY <1>2 DEF BufferInv
<1>4. Idle(task[t]) \in TaskRec /\ Idle(task[t]).pc = "idle"
  BY <1>1, IdleFacts
<1>5. task' \in TaskFun /\ OthersKept(t) /\ task'[t].pc = "idle"
  <2> DEFINE r == Idle(task[t])
  <2>1. r \in TaskRec /\ r.pc = "idle" /\ k = [task EXCEPT ![t] = r]
    BY <1>4
  <2> HIDE DEF r
  <2>2. task' \in TaskFun /\ OthersKept(t) /\ task'[t].pc = r.pc
    BY <1>0, <2>1, WokenStep
  <2>. QED BY <2>1, <2>2
<1>6. task'[t].pc \notin BdWait /\ task'[t].pc \notin OwnPc /\ task'[t].pc # "reading"
  BY <1>5 DEF BdWait, OwnPc
<1>7. /\ bd' \in BdFun
      /\ \A x \in Bds \ {b} : bd'[x].state = bd[x].state
      /\ \A x \in Bds : bd'[x].dd = bd[x].dd /\ bd'[x].block = bd[x].block
      /\ bd'[b].state = IF free THEN "FREE" ELSE bd[b].state
  <2>1. "FREE" \in States
    BY DEF States
  <2>2. CASE free
    <3>1. bd' = SetState(bd, {b}, "FREE")
      BY <2>2
    <3>2. /\ bd' \in BdFun
          /\ \A x \in Bds : /\ bd'[x].state = IF x \in {b} THEN "FREE" ELSE bd[x].state
                            /\ bd'[x].dd = bd[x].dd /\ bd'[x].block = bd[x].block
      BY <1>0, <2>1, <3>1, SetStateFacts
    <3>. QED BY <2>2, <3>2
  <2>3. CASE ~free
    BY <1>0, <2>3
  <2>. QED BY <2>2, <2>3
<1>8. CountHyp(t, b) /\ group' \in GroupFun
      /\ \A h \in Groups : group'[h].bds_per_group = group[h].bds_per_group
  <2>1. CountsWithout(t, group')
    BY <1>1, WithoutTask
  <2>2. bd'[b].state \in InUse <=> bd[b].state \in InUse
    BY <1>7 DEF InUse, Access, Transferring
  <2>3. 0 = One(bd'[b].state \in InUse) - One(bd[b].state \in InUse) + One(task'[t].pc \in BdWait) /\ 0 \in Int
    BY <1>6, <2>2 DEF One
  <2> DEFINE g == group'
  <2>4. CountsWithout(t, g) /\ Counted(g, b, 0)
    <3>1. g \in GroupFun /\ \A h \in Groups : g[h].users \in Int
      BY <2>1 DEF CountsWithout, GroupFun
    <3>. QED BY <2>1, <3>1 DEF Counted
  <2> HIDE DEF g
  <2>. QED BY <2>3, <2>4, CountedStep
<1>9. TypeOK'
  <2>1. tree' \in SUBSET Bds
    BY <1>0 DEF TypeOK
  <2>. QED BY <1>0, <1>5, <1>7, <1>8, <2>1 DEF TypeOK, Elsewhere
<1>10. OnBuffer(t, b)
  <2>1. SameRequests /\ SameSizes
    BY <1>8 DEF SameRequests, SameSizes, Elsewhere
  <2>2. tree' \subseteq tree /\ \A x \in Bds \ {b} : x \in tree' <=> x \in tree
    OBVIOUS
  <2>3. ~Place(t)'
    BY <1>6 DEF Place
  <2>. QED BY <1>5, <1>7, <2>1, <2>2, <2>3 DEF OnBuffer, Elsewhere
<1>11. Linked(b)
  <2>1. CASE free
    <3> DEFINE X == In({"FREE", "CACHED"})
    <3>1. IsList(Bds, lru, X) /\ b \notin X /\ bd'[b].state = "FREE"
      BY <1>0, <1>7, <2>1 DEF ListsInv, In
    <3>2. In({"MODIFIED"}) \ {b} = In({"MODIFIED"}) /\ In({"SYNC"}) \ {b} = In({"SYNC"})
      BY <2>1 DEF In
    <3> HIDE DEF X
    <3>3. IsList(Bds, <<b>> \o lru, X \cup {b})
      BY <3>1, AppendFacts
    <3>. QED BY <1>0, <2>1, <3>1, <3>2, <3>3 DEF Linked, ListsInv, X
  <2>2. CASE ~free
    <3>1. bd'[b].state = bd[b].state /\ lru' = lru
      BY <1>7, <2>2
    <3>2. /\ In({"FREE", "CACHED"}) = IF bd[b].state \in {"FREE", "CACHED"} THEN In({"FREE", "CACHED"}) \cup {b}
                                      ELSE In({"FREE", "CACHED"}) \ {b}
          /\ In({"MODIFIED"}) = IF bd[b].state = "MODIFIED" THEN In({"MODIFIED"}) \cup {b} ELSE In({"MODIFIED"}) \ {b}
          /\ In({"SYNC"}) = IF bd[b].state = "SYNC" THEN In({"SYNC"}) \cup {b} ELSE In({"SYNC"}) \ {b}
      BY <1>3 DEF In
    <3>. QED BY <1>0, <3>1, <3>2 DEF Linked, ListsInv
  <2>. QED BY <2>1, <2>2
<1>12. BufferInv(b)'
  <2>1. /\ Live' = Live
        /\ Owners(b)' = Owners(b) \ {t} /\ Waiting(b)' = Waiting(b) \ {t} /\ Drivers(b)' = Drivers(b) \ {t}
    BY <1>3, <1>6, <1>9, <1>10, OnBufferStep
  <2>2. t \notin Owners(b) /\ t \notin Drivers(b)
    BY BdbufAssumption DEF Owners, Drivers, OwnPc
  <2>3. Owners(b)' = Owners(b) /\ Drivers(b)' = Drivers(b)
    BY <2>1, <2>2
  <2>4. CASE free
    <3>1. Waiting(b)' = {} /\ bd'[b].state = "FREE" /\ b \notin tree'
      BY <1>7, <2>1, <2>4, WaitedFacts
    <3>2. bd[b].state \notin Access \cup AtDriver /\ bd'[b].state \notin Access \cup AtDriver
      BY <2>4, <3>1 DEF Access, AtDriver
    <3>3. Owners(b)' = {} /\ Drivers(b)' = {}
      BY <1>2, <2>3, <3>2 DEF BufferInv
    <3>. QED BY <1>3, <2>1, <3>1, <3>2, <3>3 DEF BufferInv
  <2>5. CASE ~free
    <3>1. bd'[b].state = bd[b].state /\ bd'[b].dd = bd[b].dd /\ tree' = tree /\ Sound' = Sound
      BY <1>7, <2>5 DEF Sound
    <3>2. bd[b].state = "EMPTY" => Waiting(b)' # {}
      BY <2>1, <2>5, WaitedFacts
    <3>. QED BY <1>2, <1>3, <2>1, <2>3, <3>1, <3>2 DEF BufferInv
  <2>. QED BY <2>4, <2>5
<1>13. Inv'
  BY <1>3, <1>8, <1>9, <1>10, <1>11, <1>12, Settling
<1>14. Moves
  BY <1>7, TransitionFacts DEF Moves
<1>. QED BY <1>13, <1>14

\* rtems_bdbuf_sync after a wake-up.
LEMMA SyncAgainStep ==
  ASSUME Inv, NEW t \in Tasks, SyncAgain(t)
  PROVE  Good
<1>1. task[t].pc = "syn" /\ Aside
  BY DEF SyncAgain, Aside, io
<1>2. task[t].pc \in BdWait /\ task[t].pc \notin OwnPc \cup {"reading"}
  BY <1>1 DEF BdWait, OwnPc
<1>3. PICK b \in Bds : b = task[t].bd
  BY <1>2 DEF Inv, TasksInv
<1>4. BufferInv(b) /\ t \in Waiting(b)
  BY <1>2, <1>3 DEF Waiting, Inv
<1>5. b \in Live /\ bd[b].state # "FREE"
  BY <1>4 DEF BufferInv
<1> DEFINE c == task[t]
           g == AfterWait(t)
<1>6. Comes(t, c, b, g)
  <2>1. c \in TaskRec /\ c.dd \in Devs
    BY <1>1 DEF Inv, TypeOK, TaskFun, TasksInv
  <2>2. CountsWithout(t, g)
    BY <1>2, WithoutTask
  <2>. QED BY <1>2, <1>3, <1>5, <2>1, <2>2 DEF Comes
<1>7. CASE /\ bd[b].state \in Transferring
           /\ Sleep(t, c, "syn", b, "transfer", g)
           /\ UNCHANGED <<bd, lists, fatal>>
  <2>1. bd[b].state # "EMPTY" /\ "syn" \in BdWait
    BY <1>7 DEF Transferring, BdWait
  <2> HIDE DEF c, g
  <2>. QED BY <1>1, <1>6, <1>7, <2>1, SleepStep
<1> DEFINE free == bd[b].state = "EMPTY" /\ ~Waited(t, b)
           rest == bd[b].state \in {"EMPTY", "CACHED"} /\ ~Waited(t, b)
<1>8. CASE /\ bd' = IF free THEN SetState(bd, {b}, "FREE") ELSE bd
           /\ tree' = IF free THEN tree \ {b} ELSE tree
           /\ lru' = IF free THEN <<b>> \o lru ELSE lru
           /\ task' = Woken(IF rest THEN {"buffer"} ELSE {}, [task EXCEPT ![t] = Idle(@)])
           /\ group' = g
           /\ UNCHANGED <<modified, sync, dev, owner, ahead, hist, fatal>>
  <2> DEFINE cvs == IF rest THEN {"buffer"} ELSE {}
             k == [task EXCEPT ![t] = Idle(task[t])]
  <2>1. task' = Woken(cvs, k)
    BY <1>8
  <2>2. Elsewhere /\ fatal' = fatal
    BY <1>1, <1>8 DEF Elsewhere, Aside
  <2>3. /\ free \in BOOLEAN /\ free => bd[b].state = "EMPTY" /\ ~Waited(t, b)
        /\ bd[b].state = "EMPTY" => free \/ Waited(t, b)
    OBVIOUS
  <2>4. /\ bd' = IF free THEN SetState(bd, {b}, "FREE") ELSE bd
        /\ tree' = IF free THEN tree \ {b} ELSE tree
        /\ lru' = IF free THEN <<b>> \o lru ELSE lru
        /\ group' = AfterWait(t) /\ UNCHANGED <<modified, sync, hist>>
    BY <1>8
  <2>5. k = [task EXCEPT ![t] = Idle(task[t])]
    OBVIOUS
  <2> HIDE DEF free, cvs, k
  <2>6. Inv' /\ Moves
    BY <1>1, <1>3, <2>1, <2>2, <2>3, <2>4, <2>5, SyncEndStep
  <2>. QED BY <2>2, <2>6, GoodStep
<1>. QED BY <1>3, <1>5, <1>7, <1>8 DEF SyncAgain

\* The contents of the media in the buffers of a request
LEMMA LoadedFacts ==
  ASSUME bd \in BdFun, disk \in DiskFun, NEW f \in BdFun, NEW S, \A b \in S : bd[b].dd \in Devs
  PROVE  /\ Loaded(f, S) \in BdFun
         /\ \A b \in Bds : /\ Loaded(f, S)[b].state = f[b].state /\ Loaded(f, S)[b].hold = f[b].hold
                           /\ Loaded(f, S)[b].dd = f[b].dd /\ Loaded(f, S)[b].block = f[b].block
                           /\ b \notin S => Loaded(f, S)[b] = f[b]
                           /\ b \in S => \A i \in 0 .. MaxBdsPerGroup - 1 : bd[b].block + i \in Covers(b) =>
                                Loaded(f, S)[b].val[i] = disk[bd[b].dd][bd[b].block + i]
<1> DEFINE v(b) == [i \in 0 .. MaxBdsPerGroup - 1 |->
                     IF bd[b].block + i \in Covers(b) THEN disk[bd[b].dd][bd[b].block + i] ELSE f[b].val[i]]
           W == Loaded(f, S)
<1>1. \A b \in Bds : f[b] \in BdRec /\ bd[b] \in BdRec
  BY DEF BdFun
<1>2. \A b \in Bds : f[b].val \in [0 .. MaxBdsPerGroup - 1 -> Int]
  BY <1>1 DEF BdRec
<1>3. ASSUME NEW b \in S, b \in Bds PROVE v(b) \in [0 .. MaxBdsPerGroup - 1 -> Int]
  <2>1. disk[bd[b].dd] \in [0 .. MediaBlocks - 1 -> Int]
    BY <1>3 DEF DiskFun
  <2>2. Covers(b) \subseteq 0 .. MediaBlocks - 1
    BY DEF Covers, Extent
  <2>3. \A i \in 0 .. MaxBdsPerGroup - 1 : f[b].val[i] \in Int
    BY <1>2, <1>3
  <2>. QED BY <2>1, <2>2, <2>3
<1>4. \A b \in Bds : W[b] = IF b \in S THEN [f[b] EXCEPT !.val = v(b)] ELSE f[b]
  BY <1>2 DEF Loaded
<1>5. W = [b \in Bds |-> W[b]]
  BY DEF Loaded
<1>6. \A b \in Bds : b \in S => \A i \in 0 .. MaxBdsPerGroup - 1 : bd[b].block + i \in Covers(b) =>
                                v(b)[i] = disk[bd[b].dd][bd[b].block + i]
  OBVIOUS
<1> HIDE DEF v, W
<1>7. ASSUME NEW b \in Bds
      PROVE  /\ W[b] \in BdRec
             /\ W[b].state = f[b].state /\ W[b].hold = f[b].hold
             /\ W[b].dd = f[b].dd /\ W[b].block = f[b].block
             /\ b \in S => W[b].val = v(b)
  <2>1. CASE b \in S
    <3> DEFINE w == v(b)
    <3>1. w \in [0 .. MaxBdsPerGroup - 1 -> Int] /\ W[b] = [f[b] EXCEPT !.val = w] /\ f[b] \in BdRec
      BY <1>1, <1>3, <1>4, <2>1
    <3> HIDE DEF w
    <3>2. /\ W[b] \in BdRec
          /\ W[b].state = f[b].state /\ W[b].hold = f[b].hold
          /\ W[b].dd = f[b].dd /\ W[b].block = f[b].block /\ W[b].val = w
      BY <3>1 DEF BdRec
    <3>. QED BY <3>2 DEF w
  <2>2. CASE b \notin S
    BY <1>1, <1>4, <2>2
  <2>. QED BY <2>1, <2>2
<1>8. W \in BdFun
  BY <1>5, <1>7 DEF BdFun
<1>. QED BY <1>4, <1>6, <1>7, <1>8 DEF W

\* What the end of a read does to the read-ahead control
ReadControl ==
    /\ dev' \in DevFun /\ \A d \in Devs : dev'[d].bds_per_group = dev[d].bds_per_group
    /\ AheadRec(ahead') /\ SameAhead(ahead', ahead)

\* What the read-ahead control does at the end of a read.
LEMMA ReadControlFacts ==
  ASSUME TypeOK, NEW d \in Devs, NEW k \in Int,
         dev' = [dev EXCEPT ![d] = CheckSize(ahead, @, d, k)],
         ahead' = CheckTrigger(ahead, dev[d], d, k)
  PROVE  ReadControl
<1>1. dev \in [Devs -> DevRec] /\ DevFun = [Devs -> DevRec] /\ AheadRec(ahead)
  BY DEF TypeOK, DevFun, DevRec, AheadRec
<1> DEFINE v == dev[d]
           w == CheckSize(ahead, v, d, k)
<1>2. v \in DevRec
  BY <1>1
<1>3. dev' = [dev EXCEPT ![d] = w] /\ ahead' = CheckTrigger(ahead, v, d, k)
  OBVIOUS
<1> HIDE DEF v
<1>4. w \in DevRec /\ w.bds_per_group = v.bds_per_group /\ AheadRec(ahead') /\ SameAhead(ahead', ahead)
  BY <1>1, <1>2, <1>3, TriggerFacts
<1> HIDE DEF w
<1>. QED BY <1>1, <1>3, <1>4 DEF ReadControl, v

\* The task has the buffer it has read.
LEMMA HaveReadStep ==
  ASSUME Inv, NEW t \in Tasks, NEW b \in Bds, task[t].pc = "reading", task[t].bd = b,
         bd' \in BdFun, bd'[b].state = "ACCESS_CACHED", \A x \in Bds \ {b} : bd'[x].state = bd[x].state,
         \A x \in Bds : bd'[x].dd = bd[x].dd /\ bd'[x].block = bd[x].block,
         task' \in TaskFun, OthersKept(t), task'[t].pc = "holding", task'[t].bd = b, task'[t].dd \in Devs,
         tree' = tree \/ (tree' = tree \ {b} /\ hist'.orphan),
         UNCHANGED <<lru, modified, sync, group, disk, swap, worker, free_workers, syncing>>,
         ReadControl, HistRec(hist'), hist.orphan => hist'.orphan, hist'.resized = hist.resized
  PROVE  Inv'
<1>0. TypeOK /\ task \in TaskFun /\ ListsInv /\ group \in GroupFun /\ task[t] \in TaskRec
  BY DEF Inv, TypeOK, TaskFun
<1>1. /\ b \in Live /\ bd[b].state \in AtDriver /\ Owners(b) = {} /\ Drivers(b) = {t} /\ BufferInv(b)
      /\ task[t].dd \in Devs
  BY OwnerFacts DEF Inv, TasksInv
<1>5. /\ task'[t].pc \in OwnPc /\ task'[t].pc \notin BdWait /\ task'[t].pc # "reading"
      /\ task'[t].pc \notin {"rec", "search"} /\ task'[t].bd = b /\ task'[t].dd \in Devs
  BY DEF OwnPc, BdWait
<1>6. TypeOK'
  <2>1. tree' \in SUBSET Bds
    BY <1>0 DEF TypeOK
  <2>. QED BY <1>0, <2>1 DEF TypeOK, ReadControl, AheadRec, HistRec
<1>7. OnBuffer(t, b)
  <2>1. SameRequests /\ SameSizes
    BY DEF SameRequests, SameSizes, ReadControl, SameAhead
  <2>2. tree' \subseteq tree /\ \A x \in Bds \ {b} : x \in tree' <=> x \in tree
    OBVIOUS
  <2>3. ahead'.pc = ahead.pc /\ ahead'.dd = ahead.dd
    BY DEF ReadControl, SameAhead
  <2>. QED BY <1>5, <2>1, <2>2, <2>3 DEF OnBuffer
<1>8. CountHyp(t, b)
  <2>1. task[t].pc \notin BdWait
    BY DEF BdWait
  <2>2. CountsWithout(t, group)
    BY <2>1, WithoutTask
  <2>3. Counted(group, b, 0)
    <3>1. \A h \in Groups : group[h].users \in Int
      BY <1>0 DEF GroupFun
    <3>. QED BY <1>0, <3>1 DEF Counted
  <2>4. bd[b].state \in InUse /\ bd'[b].state \in InUse
    BY <1>1 DEF InUse, Access, AtDriver, Transferring
  <2>5. 0 = One(bd'[b].state \in InUse) - One(bd[b].state \in InUse) + One(task'[t].pc \in BdWait) /\ 0 \in Int
    BY <1>5, <2>4 DEF One
  <2>. QED BY <2>2, <2>3, <2>5, CountedStep
<1>9. /\ Live' = Live
      /\ Owners(b)' = Owners(b) \cup {t} /\ Waiting(b)' = Waiting(b) \ {t} /\ Drivers(b)' = Drivers(b) \ {t}
  BY <1>1, <1>5, <1>6, <1>7, OnBufferStep
<1>10. Linked(b)
  <2>1. b \notin In({"FREE", "CACHED"}) /\ b \notin In({"MODIFIED"}) /\ b \notin In({"SYNC"})
    BY <1>1 DEF In, AtDriver
  <2>2. /\ In({"MODIFIED"}) \ {b} = In({"MODIFIED"}) /\ In({"SYNC"}) \ {b} = In({"SYNC"})
        /\ In({"FREE", "CACHED"}) \ {b} = In({"FREE", "CACHED"})
    BY <2>1
  <2>. QED BY <1>0, <2>2 DEF Linked, ListsInv
<1>11. BufferInv(b)'
  <2>1. Owners(b)' = {t} /\ Drivers(b)' = {}
    BY <1>1, <1>9
  <2>2. bd'[b].state \in Access /\ bd'[b].state \notin AtDriver
    BY DEF Access, AtDriver
  <2>3. bd[b].state # "FREE"
    BY <1>1 DEF AtDriver
  <2>4. bd'[b].dd \in Devs
    BY <1>1, <2>3 DEF BufferInv
  <2>5. Sound' => b \in tree'
    BY <1>1, <2>3 DEF BufferInv, Sound
  <2>. QED BY <1>1, <1>9, <2>1, <2>2, <2>4, <2>5 DEF BufferInv
<1>. QED BY <1>1, <1>6, <1>7, <1>8, <1>10, <1>11, Settling

\* Which buffers of a finished request X stay: those not purged, if it did not fail.
Stays(f, ok, b) == ok /\ f[b].state = "TRANSFER"

\* What the end of a request does to its buffers X, and to the LRU list of R
Done(t, f, X, R, ok, tk) ==
    /\ bd' \in BdFun
    /\ \A b \in Bds :
         /\ bd'[b].dd = f[b].dd /\ bd'[b].block = f[b].block /\ bd'[b].val = f[b].val
         /\ b \in X \/ bd'[b].state = f[b].state
         /\ b \notin X \/ ~Stays(f, ok, b) \/ bd'[b].state = "CACHED"
         /\ b \notin X \/ Stays(f, ok, b) \/ ~Waited(t, b) \/ bd'[b].state = "EMPTY"
         /\ b \notin X \/ Stays(f, ok, b) \/ Waited(t, b) \/ bd'[b].state = "FREE"
    /\ \A b : b \in tree' <=> b \in tree /\ (b \notin X \/ Stays(f, ok, b) \/ Waited(t, b))
    /\ IsList(Bds, lru', R \cup {b \in X : bd'[b].state \in {"FREE", "CACHED"}})
    /\ group' \in GroupFun
    /\ \A h \in Groups :
         /\ group'[h].bds_per_group = group[h].bds_per_group
         /\ group'[h].users = group[h].users - Cardinality({b \in X : GroupOf(b) = h})
    /\ \E cvs : task' = Woken(cvs, tk)
    /\ UNCHANGED <<modified, sync>>

\* rtems_bdbuf_transfer_done: the buffers of the request are cached or discarded.
LEMMA TransferDoneFacts ==
  ASSUME NEW t, NEW f \in BdFun, NEW s, NEW X, IsList(Bds, s, X), NEW ok, NEW tk,
         NEW R, IsList(Bds, lru, R), X \cap R = {}, group \in GroupFun, TransferDone(t, f, s, ok, tk)
  PROVE  Done(t, f, X, R, ok, tk)
<1> DEFINE K == {b \in X : Stays(f, ok, b)}
           D == X \ K
           kept == Kept(f, s, ok)
           drop == Dropped(f, s, ok)
<1>0. ToSet(s) = X /\ X \subseteq Bds
  BY ListOps DEF IsList
<1>1. IsList(Bds, kept, K)
  <2>1. kept = Only(s, K)
    BY <1>0 DEF Kept, Stays
  <2>2. X \cap K = K
    OBVIOUS
  <2> HIDE DEF K, kept
  <2>. QED BY <2>1, <2>2, OnlyFacts
<1>2. IsList(Bds, drop, D)
  <2>1. drop = Only(s, {b \in X : ~(ok /\ f[b].state = "TRANSFER")})
    BY <1>0 DEF Dropped
  <2>2. D = {b \in X : ~(ok /\ f[b].state = "TRANSFER")}
    BY DEF Stays
  <2>3. X \cap D = D /\ drop = Only(s, D)
    BY <2>1, <2>2
  <2> HIDE DEF D, drop
  <2>. QED BY <2>3, OnlyFacts
<1>3. ToSet(kept) = K /\ ToSet(drop) = D
  BY <1>1, <1>2 DEF IsList
<1> DEFINE e == Discard(t, f, D)
           W == Unwaited(t, D)
<1>4. /\ bd' = SetState(e, K, "CACHED")
      /\ tree' = tree \ W
      /\ lru' = DiscardLru(t, drop) \o lru \o kept
      /\ group' = [g \in Groups |-> [group[g] EXCEPT !.users = @ - Cardinality({b \in X : GroupOf(b) = g})]]
      /\ task' = WakeFor(t, X, "transfer", tk)
      /\ UNCHANGED <<modified, sync>>
  BY <1>0, <1>3 DEF TransferDone
<1>5. /\ \A b : b \in W <=> b \in D /\ ~Waited(t, b)
      /\ IsList(Bds, DiscardLru(t, drop), W)
  <2> HIDE DEF D, drop
  <2>. QED BY <1>2, UnwaitedFacts
<1>6. e \in BdFun
  <2>1. e = Discard(t, f, D)
    OBVIOUS
  <2> HIDE DEF D, e
  <2>. QED BY <2>1, DiscardFacts
<1>7. \A b \in Bds : e[b].dd = f[b].dd /\ e[b].block = f[b].block /\ e[b].val = f[b].val
  <2>1. e = Discard(t, f, D)
    OBVIOUS
  <2> HIDE DEF D, e
  <2>. QED BY <2>1, DiscardFacts
<1>8. ASSUME NEW b \in Bds
      PROVE  /\ b \in D \/ e[b].state = f[b].state
             /\ b \notin D \/ ~Waited(t, b) \/ e[b].state = "EMPTY"
             /\ b \notin D \/ Waited(t, b) \/ e[b].state = "FREE"
  <2>1. e = Discard(t, f, D)
    OBVIOUS
  <2> HIDE DEF D, e
  <2>. QED BY <2>1, DiscardFacts
<1> HIDE DEF e, W, kept, drop
<1>9. "CACHED" \in States
  BY DEF States
<1>10. bd' \in BdFun
  BY <1>4, <1>6, <1>9, SetStateFacts
<1>11. \A b \in Bds : /\ bd'[b].state = IF b \in K THEN "CACHED" ELSE e[b].state
                      /\ bd'[b].dd = e[b].dd /\ bd'[b].block = e[b].block /\ bd'[b].val = e[b].val
  <2> HIDE DEF K
  <2>. QED BY <1>4, <1>6, <1>9, SetStateFacts
<1>12. \A b : (b \in K <=> b \in X /\ Stays(f, ok, b)) /\ (b \in D <=> b \in X /\ ~Stays(f, ok, b))
  OBVIOUS
<1> HIDE DEF K, D
<1>13. ASSUME NEW b \in Bds
       PROVE  /\ bd'[b].dd = f[b].dd /\ bd'[b].block = f[b].block /\ bd'[b].val = f[b].val
              /\ b \in X \/ bd'[b].state = f[b].state
              /\ b \notin X \/ ~Stays(f, ok, b) \/ bd'[b].state = "CACHED"
              /\ b \notin X \/ Stays(f, ok, b) \/ ~Waited(t, b) \/ bd'[b].state = "EMPTY"
              /\ b \notin X \/ Stays(f, ok, b) \/ Waited(t, b) \/ bd'[b].state = "FREE"
  BY <1>7, <1>8, <1>11, <1>12
<1>14. \A b : b \in tree' <=> b \in tree /\ (b \notin X \/ Stays(f, ok, b) \/ Waited(t, b))
  BY <1>4, <1>5, <1>12
<1>15. IsList(Bds, lru', R \cup {b \in X : bd'[b].state \in {"FREE", "CACHED"}})
  <2>1. W \cap R = {} /\ K \cap (W \cup R) = {}
    BY <1>5, <1>12
  <2> DEFINE l == DiscardLru(t, drop)
  <2>2. IsList(Bds, l, W)
    BY <1>5
  <2> HIDE DEF l
  <2>3. IsList(Bds, l \o lru, W \cup R)
    BY <2>1, <2>2, ListOps
  <2>4. IsList(Bds, (l \o lru) \o kept, (W \cup R) \cup K)
    <3> DEFINE q == l \o lru
               Y == W \cup R
    <3>1. IsList(Bds, q, Y) /\ Y \cap K = {}
      BY <2>1, <2>3
    <3> HIDE DEF q, Y
    <3>2. IsList(Bds, q \o kept, Y \cup K)
      BY <1>1, <3>1, ListOps
    <3>. QED BY <3>2 DEF q, Y
  <2>5. (W \cup R) \cup K = R \cup {b \in X : bd'[b].state \in {"FREE", "CACHED"}}
    <3>1. ASSUME NEW b \in X PROVE bd'[b].state \in {"FREE", "CACHED"} <=> b \in W \cup K
      <4>1. b \in Bds
        BY <1>0
      <4>2. CASE Stays(f, ok, b)
        BY <1>12, <1>13, <4>1, <4>2
      <4>3. CASE ~Stays(f, ok, b) /\ Waited(t, b)
        <5>1. bd'[b].state = "EMPTY" /\ b \notin W \cup K
          BY <1>5, <1>12, <1>13, <4>1, <4>3
        <5>. QED BY <5>1
      <4>4. CASE ~Stays(f, ok, b) /\ ~Waited(t, b)
        <5>1. bd'[b].state = "FREE" /\ b \in W
          BY <1>5, <1>12, <1>13, <4>1, <4>4
        <5>. QED BY <5>1
      <4>. QED BY <4>2, <4>3, <4>4
    <3>2. W \subseteq X /\ K \subseteq X
      BY <1>5, <1>12
    <3>. QED BY <3>1, <3>2
  <2>6. lru' = (l \o lru) \o kept
    BY <1>4 DEF l
  <2>. QED BY <2>4, <2>5, <2>6
<1>16. /\ group' \in GroupFun
       /\ \A h \in Groups :
              /\ group'[h].bds_per_group = group[h].bds_per_group
              /\ group'[h].users = group[h].users - Cardinality({b \in X : GroupOf(b) = h})
  <2> DEFINE c(h) == Cardinality({b \in X : GroupOf(b) = h})
  <2>1. ASSUME NEW h \in Groups PROVE c(h) \in Int
    <3> DEFINE Y == {b \in X : GroupOf(b) = h}
    <3>1. IsFiniteSet(X) /\ Y \in SUBSET X
      BY ListOps
    <3> HIDE DEF Y
    <3>2. IsFiniteSet(Y)
      BY <3>1, FS_Subset
    <3>3. Cardinality(Y) \in Nat
      BY <3>2, FS_CardinalityType
    <3>. QED BY <3>3 DEF Y
  <2>2. group' = [h \in Groups |-> [group[h] EXCEPT !.users = @ - c(h)]]
    BY <1>4
  <2> HIDE DEF c
  <2>3. ASSUME NEW h \in Groups
        PROVE  /\ group'[h] \in [bds_per_group : 1 .. MaxBdsPerGroup, users : Int]
               /\ group'[h].bds_per_group = group[h].bds_per_group
               /\ group'[h].users = group[h].users - c(h)
    <3>1. group[h] \in [bds_per_group : 1 .. MaxBdsPerGroup, users : Int] /\ group[h].users \in Int
      BY DEF GroupFun
    <3>2. group[h].users - c(h) \in Int
      BY <2>1, <3>1
    <3>3. group'[h] = [group[h] EXCEPT !.users = group[h].users - c(h)]
      BY <2>2
    <3>. QED BY <3>1, <3>2, <3>3
  <2>4. group' \in GroupFun
    BY <2>2, <2>3 DEF GroupFun
  <2>. QED BY <2>3, <2>4 DEF c
<1>17. \E cvs : task' = Woken(cvs, tk)
  BY <1>4, WakeForFacts
<1>. QED BY <1>4, <1>10, <1>13, <1>14, <1>15, <1>16, <1>17 DEF Done

\* A read that missed has failed: its buffer is discarded.
LEMMA ReadFailedStep ==
  ASSUME Inv, NEW t \in Tasks, NEW b \in Bds, task[t].pc = "reading", task[t].bd = b, NEW s, s = <<b>>,
         NEW r \in TaskRec, r.pc = "idle", NEW k, k = [task EXCEPT ![t] = r],
         NEW ok, ok = FALSE, TransferDone(t, bd, s, ok, k), ReadControl,
         UNCHANGED <<hist, disk, swap, worker, free_workers, syncing>>
  PROVE  Inv' /\ Moves
<1>0. TypeOK /\ task \in TaskFun /\ ListsInv /\ group \in GroupFun /\ bd \in BdFun
  BY DEF Inv, TypeOK, TaskFun
<1>1. b \in Live /\ bd[b].state \in AtDriver
  BY OwnerFacts
<1>2. b \notin In({"FREE", "CACHED"}) /\ b \notin In({"MODIFIED"}) /\ b \notin In({"SYNC"})
  BY <1>1 DEF In, AtDriver
<1> DEFINE X == {b}
           R == In({"FREE", "CACHED"})
<1>3. IsList(Bds, s, X) /\ IsList(Bds, lru, R) /\ X \cap R = {}
  BY <1>0, <1>2, OneNode DEF ListsInv
<1>4. \A x : ~Stays(bd, ok, x)
  BY DEF Stays
<1>5. \A h : {x \in X : GroupOf(x) = h} = IF h = GroupOf(b) THEN {b} ELSE {}
  OBVIOUS
<1> HIDE DEF X, R
<1>d. Done(t, bd, X, R, ok, k)
  BY <1>0, <1>3, TransferDoneFacts
<1>6. bd' \in BdFun /\ UNCHANGED <<modified, sync>>
  BY <1>d DEF Done
<1>7. \A x \in Bds :
              /\ bd'[x].dd = bd[x].dd /\ bd'[x].block = bd[x].block /\ bd'[x].val = bd[x].val
              /\ x \in X \/ bd'[x].state = bd[x].state
              /\ x \notin X \/ Stays(bd, ok, x) \/ ~Waited(t, x) \/ bd'[x].state = "EMPTY"
              /\ x \notin X \/ Stays(bd, ok, x) \/ Waited(t, x) \/ bd'[x].state = "FREE"
  BY <1>d DEF Done
<1>8. \A x : x \in tree' <=> x \in tree /\ (x \notin X \/ Stays(bd, ok, x) \/ Waited(t, x))
  BY <1>d DEF Done
<1>9. IsList(Bds, lru', R \cup {x \in X : bd'[x].state \in {"FREE", "CACHED"}})
  BY <1>d DEF Done
<1>10. /\ group' \in GroupFun
       /\ \A h \in Groups :
              /\ group'[h].bds_per_group = group[h].bds_per_group
              /\ group'[h].users = group[h].users - Cardinality({x \in X : GroupOf(x) = h})
  BY <1>d DEF Done
<1>11. PICK cvs : task' = Woken(cvs, k)
  BY <1>d DEF Done
<1>12. task' \in TaskFun /\ OthersKept(t) /\ task'[t].pc = r.pc
  BY <1>0, <1>11, WokenStep
<1>13. task'[t].pc \notin OwnPc \cup {"reading"} /\ task'[t].pc \notin BdWait
       /\ task'[t].pc = "idle"
  BY <1>12 DEF OwnPc, BdWait
<1>14. /\ \A x \in Bds \ {b} : bd'[x].state = bd[x].state /\ (x \in tree' <=> x \in tree)
       /\ tree' \subseteq tree
       /\ bd'[b].state \in {"EMPTY", "FREE"}
       /\ bd'[b].state = "EMPTY" => Waited(t, b)
       /\ bd'[b].state = "FREE" => ~Waited(t, b)
       /\ b \in tree' <=> (b \in tree /\ bd'[b].state # "FREE")
  <2>1. \A x : x \in X <=> x = b
    BY DEF X
  <2>2. CASE Waited(t, b)
    <3>1. bd'[b].state = "EMPTY" /\ (b \in tree' <=> b \in tree)
      BY <1>4, <1>7, <1>8, <2>1, <2>2
    <3>. QED BY <1>7, <1>8, <2>1, <2>2, <3>1
  <2>3. CASE ~Waited(t, b)
    <3>1. bd'[b].state = "FREE" /\ b \notin tree'
      BY <1>4, <1>7, <1>8, <2>1, <2>3
    <3>. QED BY <1>7, <1>8, <2>1, <2>3, <3>1
  <2>. QED BY <2>2, <2>3
<1>15. TypeOK'
  <2>1. tree' \in SUBSET Bds
    BY <1>0, <1>14 DEF TypeOK
  <2>. QED BY <1>0, <1>6, <1>10, <1>12, <2>1 DEF TypeOK, ReadControl, AheadRec
<1>16. OnBuffer(t, b)
  <2>1. SameRequests /\ SameSizes
    BY <1>10 DEF SameRequests, SameSizes, ReadControl, SameAhead
  <2>3. ahead'.pc = ahead.pc /\ ahead'.dd = ahead.dd
    BY DEF ReadControl, SameAhead
  <2>4. ~Place(t)'
    BY <1>13 DEF Place
  <2>. QED BY <1>7, <1>12, <1>13, <1>14, <2>1, <2>3, <2>4 DEF OnBuffer
<1>17. Linked(b)
  <2>1. /\ In({"MODIFIED"}) \ {b} = In({"MODIFIED"}) /\ In({"SYNC"}) \ {b} = In({"SYNC"})
    BY <1>2
  <2>2. R \cup {x \in X : bd'[x].state \in {"FREE", "CACHED"}}
          = IF bd'[b].state \in {"FREE", "CACHED"} THEN R \cup {b} ELSE R \ {b}
    BY <1>2 DEF X, R
  <2>3. bd'[b].state # "MODIFIED" /\ bd'[b].state # "SYNC"
    BY <1>14
  <2>. QED BY <1>0, <1>6, <1>9, <2>1, <2>2, <2>3 DEF Linked, ListsInv, R
<1>18. Counted(group, b, One(bd'[b].state \in InUse) - 1 + One(task'[t].pc \in BdWait))
  <2>1. One(bd'[b].state \in InUse) = 0 /\ One(task'[t].pc \in BdWait) = 0
    BY <1>13, <1>14 DEF One, InUse, Access, Transferring
  <2>2. 0 - 1 + 0 = -1
    OBVIOUS
  <2>3. Cardinality({b}) = 1 /\ Cardinality({}) = 0
    BY FS_Singleton, FS_EmptySet
  <2>4. \A h \in Groups : group'[h].users = IF h = GroupOf(b) THEN group[h].users + (-1) ELSE group[h].users
    <3>. TAKE h \in Groups
    <3>1. group[h].users \in Int
      BY <1>0 DEF GroupFun
    <3>2. group'[h].users = group[h].users - Cardinality({x \in X : GroupOf(x) = h})
      BY <1>10
    <3>3. CASE h = GroupOf(b)
      <4>1. {x \in X : GroupOf(x) = h} = {b}
        BY <1>5, <3>3
      <4>. QED BY <2>3, <3>1, <3>2, <3>3, <4>1
    <3>4. CASE h # GroupOf(b)
      <4>1. {x \in X : GroupOf(x) = h} = {}
        BY <1>5, <3>4
      <4>2. group'[h].users = group[h].users - 0
        BY <2>3, <3>2, <4>1
      <4>. QED BY <3>1, <3>4, <4>2
    <3>. QED BY <3>3, <3>4
  <2>5. Counted(group, b, -1)
    BY <1>10, <2>4 DEF Counted
  <2>. QED BY <2>1, <2>2, <2>5
<1>19. Inv'
  <2>1. bd'[b].state \in {"CACHED", "MODIFIED", "SYNC", "EMPTY", "FREE"}
    BY <1>14
  <2>2. task[t].pc \in OwnPc \cup {"reading"}
    OBVIOUS
  <2>3. bd'[b].state = "FREE" => ~Waited(t, b) /\ task'[t].pc \notin BdWait
    BY <1>13, <1>14
  <2>4. (bd'[b].state = "EMPTY" => Waited(t, b)) /\ (b \in tree' <=> (b \in tree /\ bd'[b].state # "FREE"))
    BY <1>14
  <2>. QED BY <1>13, <1>15, <1>16, <1>17, <1>18, <2>1, <2>2, <2>3, <2>4, GiveBack
<1>20. Moves
  <2>1. <<bd[b].state, bd'[b].state>> \in Transitions
    BY <1>1, <1>14, TransitionFacts DEF AtDriver
  <2>. QED BY <1>14, <2>1 DEF Moves
<1>. QED BY <1>19, <1>20

\* The end of the transfer of rtems_bdbuf_read.
LEMMA ReadDoneStep ==
  ASSUME Inv, NEW t \in Tasks, ReadDone(t)
  PROVE  Good
<1>0. TypeOK /\ task \in TaskFun /\ bd \in BdFun /\ disk \in DiskFun /\ task[t] \in TaskRec
  BY DEF Inv, TypeOK, TaskFun
<1>1. /\ task[t].pc = "reading" /\ UNCHANGED <<disk, swap, worker, free_workers, syncing>>
  BY DEF ReadDone, io
<1>2. PICK b \in Bds : b = task[t].bd
  BY <1>1 DEF Inv, TasksInv
<1>3. b \in Live /\ bd[b].state \in AtDriver /\ task[t].dd \in Devs /\ bd[b].dd \in Devs
  BY <1>1, <1>2, OwnerFacts DEF Inv, TasksInv, BufferInv, AtDriver
<1>4. ReadControl
  <2> DEFINE d == task[t].dd
             k == task[t].block
  <2>1. /\ d \in Devs /\ k \in Int
        /\ dev' = [dev EXCEPT ![d] = CheckSize(ahead, @, d, k)]
        /\ ahead' = CheckTrigger(ahead, dev[d], d, k)
    BY <1>0, <1>3 DEF ReadDone, TaskRec
  <2> HIDE DEF d, k
  <2>. QED BY <1>0, <2>1, ReadControlFacts
<1> DEFINE read == /\ bd' = SetState(Loaded(bd, {b}), {b}, "ACCESS_CACHED")
                   /\ task' = WakeFor(t, {b}, "transfer", [task EXCEPT ![t].pc = "holding"])
<1>5. ASSUME read
      PROVE  /\ bd' \in BdFun /\ bd'[b].state = "ACCESS_CACHED"
             /\ \A x \in Bds \ {b} : bd'[x].state = bd[x].state
             /\ \A x \in Bds : bd'[x].dd = bd[x].dd /\ bd'[x].block = bd[x].block
             /\ task' \in TaskFun /\ OthersKept(t) /\ task'[t].pc = "holding" /\ task'[t].bd = b
             /\ task'[t].dd \in Devs
  <2> DEFINE f == Loaded(bd, {b})
  <2>1. /\ f \in BdFun
        /\ \A x \in Bds : f[x].state = bd[x].state /\ f[x].dd = bd[x].dd /\ f[x].block = bd[x].block
    <3> DEFINE S == {b}
    <3>1. \A x \in S : bd[x].dd \in Devs
      BY <1>3
    <3> HIDE DEF S
    <3>2. /\ Loaded(bd, S) \in BdFun
          /\ \A x \in Bds : /\ Loaded(bd, S)[x].state = bd[x].state
                            /\ Loaded(bd, S)[x].dd = bd[x].dd /\ Loaded(bd, S)[x].block = bd[x].block
      BY <1>0, <3>1, LoadedFacts
    <3>. QED BY <3>2 DEF S
  <2>2. bd' = SetState(f, {b}, "ACCESS_CACHED") /\ "ACCESS_CACHED" \in States
    BY <1>5 DEF States, Access
  <2> HIDE DEF f
  <2>3. bd' \in BdFun
    BY <2>1, <2>2, SetStateFacts
  <2>4. \A x \in Bds : /\ bd'[x].state = IF x \in {b} THEN "ACCESS_CACHED" ELSE f[x].state
                       /\ bd'[x].dd = f[x].dd /\ bd'[x].block = f[x].block
    BY <2>1, <2>2, SetStateFacts
  <2> DEFINE r == [task[t] EXCEPT !.pc = "holding"]
             k == [task EXCEPT ![t] = r]
  <2>5. r \in TaskRec /\ r.pc = "holding" /\ r.bd = b /\ r.dd = task[t].dd
    BY <1>0, <1>2 DEF TaskRec, TaskPc, OwnPc
  <2>6. task' = WakeFor(t, {b}, "transfer", k)
    BY <1>5
  <2> HIDE DEF r
  <2>7. k = [task EXCEPT ![t] = r]
    OBVIOUS
  <2> HIDE DEF k
  <2>8. PICK cvs : task' = Woken(cvs, k)
    BY <2>6, WakeForFacts
  <2> HIDE DEF read
  <2>9. task' \in TaskFun /\ OthersKept(t) /\ task'[t].pc = r.pc /\ task'[t].bd = r.bd /\ task'[t].dd = r.dd
    BY <1>0, <2>5, <2>7, <2>8, WokenStep
  <2>. QED BY <1>3, <2>1, <2>3, <2>4, <2>5, <2>9
<1>6. CASE /\ bd[b].state = "TRANSFER" /\ read
           /\ UNCHANGED <<lists, hist, fatal>> /\ group' = group
  <2>1. tree' = tree /\ UNCHANGED <<lru, modified, sync, group>> /\ HistRec(hist') /\ hist' = hist
    BY <1>0, <1>6 DEF lists, TypeOK, HistRec
  <2>2. read
    BY <1>6
  <2> HIDE DEF read
  <2>3. Inv'
    BY <1>1, <1>2, <1>4, <1>5, <2>1, <2>2, HaveReadStep
  <2>4. Moves
    <3>1. <<bd[b].state, bd'[b].state>> \in Transitions
      BY <1>5, <1>6, <2>2, TransitionFacts
    <3>. QED BY <1>5, <2>2, <3>1 DEF Moves
  <2>. QED BY <1>6, <2>3, <2>4, GoodStep
<1>7. CASE /\ read
           /\ tree' = tree \ Unwaited(t, {b})
           /\ hist' = [hist EXCEPT !.orphan = TRUE]
           /\ UNCHANGED <<lru, modified, sync, group>>
  <2>1. HistRec(hist') /\ hist'.orphan /\ hist'.resized = hist.resized
    BY <1>0, <1>7, Zenon DEF TypeOK, HistRec
  <2>2. tree' = tree \/ tree' = tree \ {b}
    BY <1>7 DEF Unwaited
  <2>3. read /\ UNCHANGED <<lru, modified, sync, group>>
    BY <1>7
  <2> HIDE DEF read
  <2>4. Inv'
    BY <1>1, <1>2, <1>4, <1>5, <2>1, <2>2, <2>3, HaveReadStep
  <2>. QED BY <2>1, <2>4 DEF Good
<1>8. ASSUME TransferDone(t, bd, <<b>>, FALSE, [task EXCEPT ![t] = At(task[t], "idle", -1, "none")]),
             UNCHANGED <<hist, fatal>>
      PROVE  Good
  <2> DEFINE r == At(task[t], "idle", -1, "none")
             k == [task EXCEPT ![t] = r]
             s == <<b>>
             ok == FALSE
  <2>1. r \in TaskRec /\ r.pc = "idle"
    <3>1. "idle" \in TaskPc /\ -1 \in Int /\ "none" \in {"none", "access", "transfer", "buffer"}
      BY DEF TaskPc
    <3>. QED BY <1>0, <3>1, AtFacts
  <2>2. TransferDone(t, bd, s, ok, k) /\ ok = FALSE /\ s = <<b>>
    BY <1>8
  <2> HIDE DEF r
  <2>3. k = [task EXCEPT ![t] = r]
    OBVIOUS
  <2> HIDE DEF k, s, ok
  <2>4. Inv' /\ Moves
    BY <1>1, <1>2, <1>4, <1>8, <2>1, <2>2, <2>3, ReadFailedStep
  <2>. QED BY <1>8, <2>4, GoodStep
<1>9. ReadDone(t) =>
        \/ bd[b].state = "TRANSFER" /\ read /\ UNCHANGED <<lists, hist, fatal>> /\ group' = group
        \/ /\ read /\ tree' = tree \ Unwaited(t, {b})
           /\ hist' = [hist EXCEPT !.orphan = TRUE]
           /\ UNCHANGED <<lru, modified, sync, group>>
        \/ /\ TransferDone(t, bd, <<b>>, FALSE, [task EXCEPT ![t] = At(task[t], "idle", -1, "none")])
           /\ UNCHANGED <<hist, fatal>>
  BY <1>2 DEF ReadDone
<1>. QED BY <1>6, <1>7, <1>8, <1>9

\* Tasks are only woken.
OnlyWoken == task' \in TaskFun /\ \A u \in Tasks :
    /\ task'[u].pc = task[u].pc /\ task'[u].bd = task[u].bd /\ task'[u].dd = task[u].dd

\* A broadcast by the driver's side.
LEMMA OnlyWokenFacts ==
  ASSUME task \in TaskFun, NEW cvs, task' = Woken(cvs, task)
  PROVE  OnlyWoken
<1>1. task' \in TaskFun
  BY WokenFacts
<1>2. \A u \in Tasks : task'[u].pc = task[u].pc /\ task'[u].bd = task[u].bd /\ task'[u].dd = task[u].dd
  BY WokenFacts
<1>. QED BY <1>1, <1>2 DEF OnlyWoken

\* A broadcast changes nobody's buffer.
LEMMA WokenHands ==
  ASSUME OnlyWoken
  PROVE  /\ \A b : Owners(b)' = Owners(b) /\ Waiting(b)' = Waiting(b)
         /\ \A b : {t \in Tasks : task'[t].pc = "reading" /\ task'[t].bd = b}
                    = {t \in Tasks : task[t].pc = "reading" /\ task[t].bd = b}
         /\ \A g : Sleepers(g)' = Sleepers(g)
         /\ TasksInv => TasksInv'
<1>1. \A b : Owners(b)' = Owners(b) /\ Waiting(b)' = Waiting(b)
  BY DEF OnlyWoken, Owners, Waiting
<1>2. \A b : {t \in Tasks : task'[t].pc = "reading" /\ task'[t].bd = b}
              = {t \in Tasks : task[t].pc = "reading" /\ task[t].bd = b}
  BY DEF OnlyWoken
<1>3. \A g : Sleepers(g)' = Sleepers(g)
  BY DEF OnlyWoken, Sleepers
<1>4. TasksInv => TasksInv'
  BY DEF OnlyWoken, TasksInv
<1>. QED BY <1>1, <1>2, <1>3, <1>4

\* Buffers X, all in use before, go out of use or stay: the count of their groups.
LEMMA CountOut ==
  ASSUME Inv, group' \in GroupFun, NEW X, IsFiniteSet(X), X \subseteq Live,
         \A b \in X : bd[b].state \in InUse /\ bd'[b].state \notin InUse,
         \A b \in Bds \ X : bd'[b].state \in InUse <=> bd[b].state \in InUse,
         \A h \in Groups :
              /\ group'[h].bds_per_group = group[h].bds_per_group
              /\ group'[h].users = group[h].users - Cardinality({b \in X : GroupOf(b) = h}),
         \A g : Sleepers(g)' = Sleepers(g)
  PROVE  CountInv'
<1>. SUFFICES ASSUME NEW g \in Groups
              PROVE  group'[g].users = Cardinality(Used(g)') + Cardinality(Sleepers(g)')
  BY DEF CountInv
<1>0. group \in GroupFun
  BY DEF Inv, TypeOK
<1>1. /\ IsFiniteSet(Used(g)) /\ Cardinality(Used(g)) \in Nat /\ Cardinality(Sleepers(g)) \in Nat
      /\ group[g].users = Cardinality(Used(g)) + Cardinality(Sleepers(g))
      /\ \A b \in Used(g) : b \in Bds /\ GroupOf(b) = g /\ b \in Live /\ bd[b].state \in InUse
      /\ \A b \in Live : bd[b].state \in InUse /\ GroupOf(b) = g => b \in Used(g)
  BY <1>0, FiniteGroups DEF Inv, CountInv
<1> DEFINE Y == {b \in X : GroupOf(b) = g}
           U == Used(g)
           V == Used(g)'
<1>2. U \cap X = Y
  BY <1>1
<1>3. V = U \ X
  <2>1. V = {b \in LiveIn(g, group[g].bds_per_group) : bd'[b].state \in InUse}
    BY DEF Used
  <2>2. U = {b \in LiveIn(g, group[g].bds_per_group) : bd[b].state \in InUse}
    BY DEF Used
  <2>3. \A b \in LiveIn(g, group[g].bds_per_group) : b \in Bds
    BY <1>0, LiveFacts
  <2>. QED BY <2>1, <2>2, <2>3
<1>4. /\ IsFiniteSet(U) /\ Cardinality(U) \in Nat /\ Sleepers(g)' = Sleepers(g)
      /\ group[g].users = Cardinality(U) + Cardinality(Sleepers(g))
      /\ group'[g].users = group[g].users - Cardinality(Y)
  BY <1>1
<1>5. Cardinality(Y) \in Nat
  <2>1. Y \in SUBSET X
    OBVIOUS
  <2> HIDE DEF Y
  <2>2. IsFiniteSet(Y)
    BY <2>1, FS_Subset
  <2>. QED BY <2>2, FS_CardinalityType
<1> HIDE DEF Y, U, V
<1>6. Cardinality(V) = Cardinality(U) - Cardinality(Y)
  BY <1>2, <1>3, <1>4, FS_Difference
<1>7. group'[g].users = Cardinality(V) + Cardinality(Sleepers(g)')
  BY <1>1, <1>4, <1>5, <1>6
<1>. QED BY <1>7 DEF V

\* Driver h is done with the buffers X of its request.
Ends(f, X, h, ok) ==
    /\ f \in BdFun
    /\ \A b \in Bds : f[b].state = bd[b].state /\ f[b].dd = bd[b].dd /\ f[b].block = bd[b].block
    /\ X \subseteq Bds /\ IsFiniteSet(X)
    /\ Done(None, f, X, In({"FREE", "CACHED"}), ok, task)
    /\ \A b \in X : h \in Drivers(b)
    /\ \A b \in Bds : Drivers(b)' = Drivers(b) \ (IF b \in X THEN {h} ELSE {})
    /\ \A d \in Devs : dev'[d].bds_per_group = dev[d].bds_per_group
    /\ hist'.orphan = hist.orphan /\ hist'.resized = hist.resized

\* The end of a request of the swapout task, a worker or the read-ahead task.
LEMMA EndsStep ==
  ASSUME Inv, TypeOK', RequestsInv', NEW f, NEW X, NEW h, NEW ok, Ends(f, X, h, ok)
  PROVE  Inv' /\ Moves
<1> DEFINE R == In({"FREE", "CACHED"})
<1>0. /\ TypeOK /\ ListsInv /\ KeysInv /\ TasksInv /\ group \in GroupFun /\ tree \subseteq Bds /\ task \in TaskFun
      /\ \A b \in Bds : BufferInv(b)
      /\ SizesInv
  BY DEF Inv, TypeOK
<1>1. /\ \A b \in Bds : f[b].state = bd[b].state /\ f[b].dd = bd[b].dd /\ f[b].block = bd[b].block
      /\ X \subseteq Bds /\ IsFiniteSet(X)
      /\ \A b \in X : h \in Drivers(b)
      /\ \A b \in Bds : Drivers(b)' = Drivers(b) \ (IF b \in X THEN {h} ELSE {})
      /\ \A d \in Devs : dev'[d].bds_per_group = dev[d].bds_per_group
      /\ hist'.orphan = hist.orphan /\ hist'.resized = hist.resized
  BY DEF Ends
<1>2. Done(None, f, X, R, ok, task)
  BY DEF Ends
<1> HIDE DEF R
<1>3. /\ \A b \in Bds :
         /\ bd'[b].dd = f[b].dd /\ bd'[b].block = f[b].block
         /\ b \in X \/ bd'[b].state = f[b].state
         /\ b \notin X \/ ~Stays(f, ok, b) \/ bd'[b].state = "CACHED"
         /\ b \notin X \/ Stays(f, ok, b) \/ ~Waited(None, b) \/ bd'[b].state = "EMPTY"
         /\ b \notin X \/ Stays(f, ok, b) \/ Waited(None, b) \/ bd'[b].state = "FREE"
      /\ \A b : b \in tree' <=> b \in tree /\ (b \notin X \/ Stays(f, ok, b) \/ Waited(None, b))
  BY <1>2 DEF Done
<1>4. IsList(Bds, lru', R \cup {b \in X : bd'[b].state \in {"FREE", "CACHED"}}) /\ UNCHANGED <<modified, sync>>
  BY <1>2 DEF Done
<1>5. /\ group' \in GroupFun
      /\ \A g \in Groups :
         /\ group'[g].bds_per_group = group[g].bds_per_group
         /\ group'[g].users = group[g].users - Cardinality({b \in X : GroupOf(b) = g})
  BY <1>2 DEF Done
<1>6. OnlyWoken
  <2>1. PICK cvs : task' = Woken(cvs, task)
    BY <1>2 DEF Done
  <2>. QED BY <1>0, <2>1, OnlyWokenFacts
<1>7. /\ \A b : Owners(b)' = Owners(b) /\ Waiting(b)' = Waiting(b)
      /\ \A g : Sleepers(g)' = Sleepers(g)
      /\ TasksInv'
  BY <1>0, <1>6, WokenHands
<1>8. Live' = Live /\ Live \subseteq Bds
  BY <1>0, <1>5, LiveFrame, LiveFacts
<1>9. \A b : Waited(None, b) <=> Waiting(b) # {}
  BY BdbufAssumption DEF Waited, Waiting
<1>10. \A b \in X : /\ b \in Live /\ bd[b].state \in AtDriver /\ Owners(b) = {} /\ Drivers(b) = {h}
                    /\ BufferInv(b)
  BY <1>0, <1>1 DEF BufferInv
<1>11. ASSUME NEW b \in X
       PROVE  /\ bd'[b].state \in {"CACHED", "EMPTY", "FREE"}
              /\ bd'[b].state = "EMPTY" => Waiting(b) # {}
              /\ bd'[b].state = "FREE" => Waiting(b) = {}
              /\ b \in tree' <=> b \in tree /\ bd'[b].state # "FREE"
  <2>0. b \in Bds
    BY <1>1
  <2>1. CASE Stays(f, ok, b)
    <3>1. bd'[b].state = "CACHED"
      BY <2>0, <2>1, <1>3
    <3>. QED BY <1>3, <2>0, <2>1, <3>1
  <2>2. CASE ~Stays(f, ok, b) /\ Waited(None, b)
    <3>1. bd'[b].state = "EMPTY"
      BY <2>0, <2>2, <1>3
    <3>. QED BY <1>3, <1>9, <2>0, <2>2, <3>1
  <2>3. CASE ~Stays(f, ok, b) /\ ~Waited(None, b)
    <3>1. bd'[b].state = "FREE"
      BY <2>0, <2>3, <1>3
    <3>. QED BY <1>3, <1>9, <2>0, <2>3, <3>1
  <2>. QED BY <2>1, <2>2, <2>3
<1>12. /\ \A b \in Bds : bd'[b].dd = bd[b].dd /\ bd'[b].block = bd[b].block
       /\ \A b \in Bds \ X : bd'[b].state = bd[b].state /\ (b \in tree' <=> b \in tree)
       /\ tree' \subseteq tree
  BY <1>1, <1>3
<1>13. ASSUME NEW b \in Bds PROVE BufferInv(b)'
  <2>1. CASE b \in X
    <3>1. Drivers(b)' = {} /\ Owners(b)' = {} /\ Waiting(b)' = Waiting(b)
      BY <1>1, <1>7, <1>10, <2>1
    <3>2. bd'[b].state \notin Access \cup AtDriver
      BY <1>11, <2>1 DEF Access, AtDriver
    <3>3. bd[b].state # "FREE" /\ bd[b].dd \in Devs /\ bd'[b].dd = bd[b].dd /\ b \in Live'
      BY <1>8, <1>10, <1>12, <2>1 DEF BufferInv, AtDriver
    <3>4. Sound => b \in tree
      BY <1>10, <2>1, <3>3 DEF BufferInv
    <3>. QED BY <1>1, <1>11, <2>1, <3>1, <3>2, <3>3, <3>4 DEF BufferInv, Sound
  <2>2. CASE b \notin X
    <3>1. Drivers(b)' = Drivers(b)
      BY <1>1, <2>2
    <3>2. SameBuffer(b)
      BY <1>7, <1>8, <1>12, <2>2, <3>1 DEF SameBuffer
    <3>. QED BY <1>0, <1>1, <3>2, BufferFrame
  <2>. QED BY <2>1, <2>2
<1>14. ListsInv'
  <2>1. In({"FREE", "CACHED"})' = R \cup {b \in X : bd'[b].state \in {"FREE", "CACHED"}}
    BY <1>8, <1>10, <1>12 DEF In, R, AtDriver
  <2>2. In({"MODIFIED"})' = In({"MODIFIED"})
    BY <1>8, <1>10, <1>11, <1>12 DEF In, AtDriver
  <2>3. In({"SYNC"})' = In({"SYNC"})
    BY <1>8, <1>10, <1>11, <1>12 DEF In, AtDriver
  <2>. QED BY <1>0, <1>4, <2>1, <2>2, <2>3 DEF ListsInv
<1>15. KeysInv'
  BY <1>0, <1>12 DEF KeysInv
<1>16. SizesInv'
  BY <1>0, <1>1, <1>5, <1>6 DEF SizesInv, OnlyWoken
<1>17. CountInv'
  <2>1. \A b \in X : bd[b].state \in InUse /\ bd'[b].state \notin InUse
    BY <1>10, <1>11 DEF InUse, AtDriver, Transferring, Access
  <2>2. X \subseteq Live
    BY <1>10
  <2>. QED BY <1>1, <1>5, <1>7, <1>12, <2>1, <2>2, CountOut
<1>18. Moves
  <2>1. ASSUME NEW b \in X, bd'[b].state \in {"EMPTY", "FREE"}
        PROVE  <<bd[b].state, bd'[b].state>> \in Transitions
    BY <1>10, <2>1, TransitionFacts DEF AtDriver
  <2>2. ASSUME NEW b \in X, bd'[b].state = "CACHED"
        PROVE  <<bd[b].state, bd'[b].state>> \in Transitions
    <3>1. Stays(f, ok, b)
      BY <1>1, <1>3, <2>2
    <3>2. bd[b].state = "TRANSFER"
      BY <1>1, <3>1 DEF Stays
    <3>. QED BY <2>2, <3>2, TransitionFacts
  <2>3. \A b \in X : <<bd[b].state, bd'[b].state>> \in Transitions
    BY <1>11, <2>1, <2>2
  <2>. QED BY <1>12, <2>3 DEF Moves
<1>. QED BY <1>7, <1>13, <1>14, <1>15, <1>16, <1>17, <1>18 DEF Inv

\* The first buffers of a chain and the rest of it
LEMMA RequestFacts ==
  ASSUME NEW s \in Seq(Bds), IsInjective(s)
  PROVE  /\ IsList(Bds, Request(s), ToSet(Request(s))) /\ IsList(Bds, Rest(s), ToSet(Rest(s)))
         /\ ToSet(Request(s)) \cup ToSet(Rest(s)) = ToSet(s)
         /\ ToSet(Request(s)) \cap ToSet(Rest(s)) = {}
<1> DEFINE n == IF Len(s) < MaxWriteBlocks THEN Len(s) ELSE MaxWriteBlocks
           q == SubSeq(s, 1, n)
           r == SubSeq(s, n + 1, Len(s))
<1>1. /\ Len(s) \in Nat /\ DOMAIN s = 1 .. Len(s) /\ n \in Nat /\ n <= Len(s)
      /\ \A i \in 1 .. Len(s) : s[i] \in Bds
      /\ \A i, j \in 1 .. Len(s) : s[i] = s[j] => i = j
  <2>1. Len(s) \in Nat /\ DOMAIN s = 1 .. Len(s) /\ \A i \in 1 .. Len(s) : s[i] \in Bds
    BY LenProperties, ElementOfSeq
  <2>2. \A i, j \in DOMAIN s : s[i] = s[j] => i = j
    BY DEF IsInjective
  <2>. QED BY <2>1, <2>2, BdbufAssumption
<1> HIDE DEF n
<1>2. q \in Seq(Bds) /\ Len(q) = n /\ \A i \in 1 .. n : q[i] = s[i]
  <2>1. \A i \in 1 .. n : s[i] \in Bds
    BY <1>1
  <2>2. n \in Nat /\ 1 \in Nat /\ n + 1 \in Int
    BY <1>1
  <2>. QED BY <1>1, <2>1, <2>2, SubSeqProperties
<1>3. r \in Seq(Bds) /\ Len(r) = Len(s) - n /\ \A i \in 1 .. Len(s) - n : r[i] = s[n + i]
  <2>1. /\ r \in Seq(Bds)
        /\ Len(r) = IF n + 1 <= Len(s) THEN Len(s) - (n + 1) + 1 ELSE 0
        /\ \A i \in 1 .. Len(s) - (n + 1) + 1 : r[i] = s[n + 1 + i - 1]
    BY <1>1, SubSeqProperties
  <2>2. Len(s) - (n + 1) + 1 = Len(s) - n /\ (~(n + 1 <= Len(s)) => Len(s) - n = 0)
    <3>1. n \in Int /\ Len(s) \in Int /\ n <= Len(s)
      BY <1>1
    <3>. QED BY <3>1
  <2>3. \A i \in 1 .. Len(s) - n : n + 1 + i - 1 = n + i
    <3>1. n \in Int
      BY <1>1
    <3>. QED BY <3>1
  <2>4. Len(r) = Len(s) - n
    BY <2>1, <2>2
  <2>5. \A i \in 1 .. Len(s) - n : r[i] = s[n + 1 + i - 1]
    BY <2>1, <2>2
  <2> HIDE DEF r
  <2>. QED BY <2>1, <2>3, <2>4, <2>5
<1>4. Request(s) = q /\ Rest(s) = r
  <2>1. Request(s) = q
    BY DEF Request, n
  <2>. QED BY <1>2, <2>1 DEF Rest
<1> HIDE DEF q, r
<1>5. DOMAIN q = 1 .. n /\ DOMAIN r = 1 .. Len(s) - n
  BY <1>2, <1>3, LenProperties
<1>6. IsInjective(q) /\ IsInjective(r)
  <2>1. \A i, j \in 1 .. n : q[i] = q[j] => i = j
    BY <1>1, <1>2
  <2>2. \A i, j \in 1 .. Len(s) - n : r[i] = r[j] => i = j
    BY <1>1, <1>3
  <2>. QED BY <1>5, <2>1, <2>2 DEF IsInjective
<1>7. /\ \A x : x \in ToSet(q) <=> \E i \in 1 .. n : s[i] = x
      /\ \A x : x \in ToSet(r) <=> \E i \in 1 .. Len(s) - n : s[n + i] = x
      /\ \A x : x \in ToSet(s) <=> \E i \in 1 .. Len(s) : s[i] = x
  <2>1. /\ \A x : x \in ToSet(q) <=> \E i \in 1 .. n : q[i] = x
        /\ \A x : x \in ToSet(r) <=> \E i \in 1 .. Len(s) - n : r[i] = x
        /\ \A x : x \in ToSet(s) <=> \E i \in 1 .. Len(s) : s[i] = x
    <3>1. \A x : x \in ToSet(q) <=> \E i \in 1 .. n : q[i] = x
      BY <1>5 DEF ToSet
    <3>2. \A x : x \in ToSet(r) <=> \E i \in 1 .. Len(s) - n : r[i] = x
      BY <1>5 DEF ToSet
    <3>3. \A x : x \in ToSet(s) <=> \E i \in 1 .. Len(s) : s[i] = x
      BY <1>1 DEF ToSet
    <3>. QED BY <3>1, <3>2, <3>3
  <2>2. \A x : x \in ToSet(q) <=> \E i \in 1 .. n : s[i] = x
    BY <1>2, <2>1
  <2>3. \A x : x \in ToSet(r) <=> \E i \in 1 .. Len(s) - n : s[n + i] = x
    BY <1>3, <2>1
  <2>. QED BY <2>1, <2>2, <2>3
<1>8. ToSet(q) \cup ToSet(r) = ToSet(s)
  <2>1. ASSUME NEW x \in ToSet(s) PROVE x \in ToSet(q) \/ x \in ToSet(r)
    <3>1. PICK i \in 1 .. Len(s) : s[i] = x
      BY <1>7, <2>1
    <3>2. CASE i <= n
      BY <1>1, <1>7, <3>1, <3>2
    <3>3. CASE i > n
      <4>1. i - n \in 1 .. Len(s) - n /\ n + (i - n) = i
        BY <1>1, <3>3
      <4>. QED BY <1>7, <3>1, <4>1
    <3>. QED BY <1>1, <3>2, <3>3
  <2>2. ASSUME NEW x, x \in ToSet(q) \/ x \in ToSet(r) PROVE x \in ToSet(s)
    <3>1. \A i \in 1 .. n : i \in 1 .. Len(s)
      BY <1>1
    <3>2. \A i \in 1 .. Len(s) - n : n + i \in 1 .. Len(s)
      BY <1>1
    <3>. QED BY <1>7, <2>2, <3>1, <3>2
  <2>. QED BY <2>1, <2>2
<1>9. ToSet(q) \cap ToSet(r) = {}
  <2>. SUFFICES ASSUME NEW i \in 1 .. n, NEW j \in 1 .. Len(s) - n, s[i] = s[n + j] PROVE FALSE
    BY <1>7
  <2>1. i \in 1 .. Len(s) /\ n + j \in 1 .. Len(s) /\ i # n + j
    BY <1>1
  <2>. QED BY <1>1, <2>1
<1>. QED BY <1>2, <1>3, <1>4, <1>6, <1>8, <1>9 DEF IsList

\* The place of a media block in the buffer that covers it
LEMMA CoversFacts ==
  ASSUME bd \in BdFun, group \in GroupFun, NEW b \in Bds, NEW m \in Covers(b)
  PROVE  m - bd[b].block \in 0 .. MaxBdsPerGroup - 1 /\ m \in 0 .. MediaBlocks - 1 /\ m \in Int
<1> DEFINE n == group[GroupOf(b)].bds_per_group
           q == MaxBdsPerGroup \div n
           k == bd[b].block
<1>1. n \in 1 .. MaxBdsPerGroup /\ k \in Int /\ MaxBdsPerGroup \in Nat
  BY GroupFacts, BdbufAssumption DEF GroupFun, BdFun, BdRec
<1>2. m \in k .. k + q - 1 /\ m \in 0 .. MediaBlocks - 1
  BY DEF Covers, Extent
<1> HIDE DEF n, k
<1>3. q \in Int /\ q >= 0 /\ q <= MaxBdsPerGroup
  <2>1. q \in Int /\ q >= 0 /\ n * q <= MaxBdsPerGroup
    BY <1>1
  <2> HIDE DEF q
  <2>2. q <= n * q
    BY <1>1, <2>1
  <2>3. n * q \in Int
    BY <1>1, <2>1
  <2>. QED BY <1>1, <2>1, <2>2, <2>3
<1> HIDE DEF q
<1>4. m \in Int /\ m - k \in 0 .. MaxBdsPerGroup - 1
  BY <1>1, <1>2, <1>3, BdbufAssumption
<1>. QED BY <1>2, <1>4 DEF k

\* Writing buffers to the disk keeps the type of the disk.
LEMMA StoredFacts ==
  ASSUME bd \in BdFun, group \in GroupFun, disk \in DiskFun, NEW S \in SUBSET Bds
  PROVE  Stored(S) \in DiskFun
<1>1. \A d \in Devs : disk[d] \in [0 .. MediaBlocks - 1 -> Int]
  BY DEF DiskFun
<1> DEFINE v(d, m) == IF \E b \in S : bd[b].dd = d /\ m \in Covers(b)
                      THEN LET b == CHOOSE x \in S : bd[x].dd = d /\ m \in Covers(x)
                           IN bd[b].val[m - bd[b].block]
                      ELSE disk[d][m]
<1>2. ASSUME NEW d \in Devs, NEW m \in 0 .. MediaBlocks - 1 PROVE v(d, m) \in Int
  <2>1. CASE \E b \in S : bd[b].dd = d /\ m \in Covers(b)
    <3> DEFINE b == CHOOSE x \in S : bd[x].dd = d /\ m \in Covers(x)
    <3>1. b \in S /\ m \in Covers(b)
      BY <2>1
    <3>2. v(d, m) = bd[b].val[m - bd[b].block]
      BY <2>1
    <3> HIDE DEF b
    <3>3. m - bd[b].block \in 0 .. MaxBdsPerGroup - 1 /\ b \in Bds
      BY <3>1, CoversFacts
    <3>4. bd[b].val \in [0 .. MaxBdsPerGroup - 1 -> Int]
      BY <3>3 DEF BdFun, BdRec
    <3>. QED BY <3>2, <3>3, <3>4
  <2>2. CASE ~\E b \in S : bd[b].dd = d /\ m \in Covers(b)
    BY <1>1, <2>2
  <2>. QED BY <2>1, <2>2
<1>3. Stored(S) = [d \in Devs |-> [m \in 0 .. MediaBlocks - 1 |-> v(d, m)]]
  <2>1. \A d \in Devs : DOMAIN disk[d] = 0 .. MediaBlocks - 1
    BY <1>1
  <2>. QED BY <2>1 DEF Stored
<1> HIDE DEF v
<1>. QED BY <1>2, <1>3 DEF DiskFun

\* The buffers a driver works on are on no list.
LEMMA DrivenFacts ==
  ASSUME Inv, NEW h, NEW b \in Bds, h \in Drivers(b)
  PROVE  /\ b \in Live /\ bd[b].state \in AtDriver /\ Drivers(b) = {h} /\ Owners(b) = {} /\ bd[b].dd \in Devs
         /\ b \notin In({"FREE", "CACHED"}) /\ b \notin In({"MODIFIED"}) /\ b \notin In({"SYNC"})
<1>1. BufferInv(b)
  BY DEF Inv
<1>2. b \in Live /\ bd[b].state \in AtDriver
  BY <1>1 DEF BufferInv
<1>3. Drivers(b) = {h} /\ Owners(b) = {}
  BY <1>1, <1>2 DEF BufferInv
<1>4. bd[b].state # "FREE" /\ b \notin In({"FREE", "CACHED"}) /\ b \notin In({"MODIFIED"}) /\ b \notin In({"SYNC"})
  BY <1>2 DEF In, AtDriver
<1>. QED BY <1>1, <1>2, <1>3, <1>4 DEF BufferInv

\* rtems_bdbuf_swapout_write, one request of it.
LEMMA WriteFacts ==
  ASSUME Inv, NEW s \in Seq(Bds), IsInjective(s), NEW h, \A b \in ToSet(s) : h \in Drivers(b),
         WriteRequest(s)
  PROVE  /\ \E ok : Done(None, bd, ToSet(Request(s)), In({"FREE", "CACHED"}), ok, task)
         /\ disk' \in DiskFun /\ HistKept
<1> DEFINE q == Request(s)
           X == ToSet(q)
           R == In({"FREE", "CACHED"})
<1>0. TypeOK /\ bd \in BdFun /\ group \in GroupFun /\ disk \in DiskFun /\ ListsInv
  BY DEF Inv, TypeOK
<1>1. IsList(Bds, q, X) /\ X \subseteq ToSet(s)
  BY RequestFacts
<1>2. X \subseteq Bds
  BY <1>1, ListOps
<1>3. X \cap R = {}
  <2>1. \A b \in X : b \in Bds /\ h \in Drivers(b)
    BY <1>1, <1>2
  <2>. QED BY <2>1, DrivenFacts
<1>4. WriteRequest(s) =>
        \/ TransferDone(None, bd, q, TRUE, task) /\ disk' = Stored(X) /\ hist' = hist
        \/ /\ TransferDone(None, bd, q, FALSE, task)
           /\ \E done \in SUBSET X : disk' = Stored(done)
           /\ hist' = [hist EXCEPT !.lost = @ \cup UNION {{<<bd[b].dd, m>> : m \in Covers(b)} : b \in X}]
  BY DEF WriteRequest
<1>5. IsList(Bds, lru, R)
  BY <1>0 DEF ListsInv
<1> HIDE DEF q, X, R
<1>6. CASE TransferDone(None, bd, q, TRUE, task) /\ disk' = Stored(X) /\ hist' = hist
  <2> DEFINE ok == TRUE
  <2>1. TransferDone(None, bd, q, ok, task)
    BY <1>6
  <2> HIDE DEF ok
  <2>2. Done(None, bd, X, R, ok, task)
    BY <1>0, <1>1, <1>3, <1>5, <2>1, TransferDoneFacts
  <2>3. disk' \in DiskFun
    BY <1>0, <1>2, <1>6, StoredFacts
  <2>4. HistKept
    BY <1>0, <1>6, HistSame
  <2>. QED BY <2>2, <2>3, <2>4 DEF X, R, q
<1>7. CASE /\ TransferDone(None, bd, q, FALSE, task)
           /\ \E done \in SUBSET X : disk' = Stored(done)
           /\ hist' = [hist EXCEPT !.lost = @ \cup UNION {{<<bd[b].dd, m>> : m \in Covers(b)} : b \in X}]
  <2> DEFINE ok == FALSE
             o == hist.lost \cup UNION {{<<bd[b].dd, m>> : m \in Covers(b)} : b \in X}
  <2>1. TransferDone(None, bd, q, ok, task)
    BY <1>7
  <2> HIDE DEF ok
  <2>2. Done(None, bd, X, R, ok, task)
    BY <1>0, <1>1, <1>3, <1>5, <2>1, TransferDoneFacts
  <2>3. disk' \in DiskFun
    <3>1. PICK done \in SUBSET X : disk' = Stored(done)
      BY <1>7
    <3>2. done \in SUBSET Bds
      BY <1>2, <3>1
    <3>. QED BY <1>0, <3>1, <3>2, StoredFacts
  <2>4. HistKept
    <3>1. hist' = [hist EXCEPT !.lost = o]
      BY <1>7
    <3> HIDE DEF o
    <3>2. HistRec(hist)
      BY <1>0 DEF TypeOK, HistRec
    <3>. QED BY <3>1, <3>2, Zenon DEF HistRec, HistKept
  <2>. QED BY <2>2, <2>3, <2>4 DEF X, R, q
<1>. QED BY <1>4, <1>6, <1>7

\* Woken tasks read what they read.
Readers(b) == {t \in Tasks : task[t].pc = "reading" /\ task[t].bd = b}
Writers(b) == {w \in Workers : b \in ToSet(worker[w].bds)}
\* Who transfers a buffer, by kind; the four kinds are disjoint.
LEMMA DriversSplit ==
  /\ \A b : /\ Drivers(b) = Readers(b) \cup Writers(b) \cup (IF b \in ToSet(swap.bds) THEN {"swapout"} ELSE {})
                                              \cup (IF b \in ToSet(ahead.req) THEN {"ahead"} ELSE {})
            /\ "swapout" \notin Readers(b) \cup Writers(b) /\ "ahead" \notin Readers(b) \cup Writers(b)
            /\ "swapout" # "ahead"
            /\ \A w \in Workers : w \notin Readers(b) /\ w # "swapout" /\ w # "ahead"
  /\ \A b : Drivers(b)' = Readers(b)' \cup Writers(b)' \cup (IF b \in ToSet(swap'.bds) THEN {"swapout"} ELSE {})
                                              \cup (IF b \in ToSet(ahead'.req) THEN {"ahead"} ELSE {})
  /\ OnlyWoken => \A b : Readers(b)' = Readers(b)
<1>1. \A b : Drivers(b) = Readers(b) \cup Writers(b) \cup (IF b \in ToSet(swap.bds) THEN {"swapout"} ELSE {})
                                              \cup (IF b \in ToSet(ahead.req) THEN {"ahead"} ELSE {})
  BY DEF Drivers, Readers, Writers
<1>2. \A b : Drivers(b)' = Readers(b)' \cup Writers(b)' \cup (IF b \in ToSet(swap'.bds) THEN {"swapout"} ELSE {})
                                              \cup (IF b \in ToSet(ahead'.req) THEN {"ahead"} ELSE {})
  BY DEF Drivers, Readers, Writers
<1>3. \A b : /\ "swapout" \notin Readers(b) \cup Writers(b) /\ "ahead" \notin Readers(b) \cup Writers(b)
             /\ "swapout" # "ahead"
             /\ \A w \in Workers : w \notin Readers(b) /\ w # "swapout" /\ w # "ahead"
  BY BdbufAssumption DEF Readers, Writers
<1>4. OnlyWoken => \A b : Readers(b)' = Readers(b)
  BY DEF OnlyWoken, Readers
<1>. QED BY <1>1, <1>2, <1>3, <1>4

\* The swapout task writes a request of its own list.
LEMMA SwapoutWriteStep ==
  ASSUME Inv, SwapoutWrite
  PROVE  Good
<1> DEFINE s == swap.bds
           h == "swapout"
           X == ToSet(Request(s))
           r == Rest(s)
<1>0. /\ TypeOK /\ RequestsInv /\ task \in TaskFun
      /\ s \in Seq(Bds) /\ IsInjective(s)
  BY DEF Inv, TypeOK, RequestsInv
<1>1. /\ WriteRequest(s) /\ swap.pc = "write"
      /\ swap' = [swap EXCEPT !.bds = r, !.pc = IF r = <<>> THEN "run" ELSE @]
      /\ UNCHANGED <<dev, worker, free_workers, syncing, ahead, fatal>>
  BY DEF SwapoutWrite
<1>2. \A b \in ToSet(s) : h \in Drivers(b)
  BY DEF Drivers
<1>3. /\ IsList(Bds, r, ToSet(r)) /\ X \cup ToSet(r) = ToSet(s) /\ X \cap ToSet(r) = {}
      /\ IsFiniteSet(X) /\ X \subseteq Bds
  BY <1>0, RequestFacts, ListOps
<1>4. (\E ok : Done(None, bd, X, In({"FREE", "CACHED"}), ok, task)) /\ disk' \in DiskFun /\ HistKept
  <2> HIDE DEF s, h
  <2>. QED BY <1>0, <1>1, <1>2, WriteFacts
<1>5. PICK ok : Done(None, bd, X, In({"FREE", "CACHED"}), ok, task)
  BY <1>4
<1>6. OnlyWoken /\ bd' \in BdFun /\ group' \in GroupFun
  <2>1. PICK cvs : task' = Woken(cvs, task)
    BY <1>5 DEF Done
  <2>. QED BY <1>0, <1>5, <2>1, OnlyWokenFacts DEF Done
<1>7. /\ swap' \in [pc : {"run", "write", "endsync", "wait", "einval"}, update : {swap'.update}, bds : Seq(Bds)]
      /\ swap'.bds = r /\ (swap'.pc # "write" => r = <<>>)
  <2>1. swap \in [pc : {"run", "write", "endsync", "wait", "einval"}, update : {swap.update}, bds : Seq(Bds)]
    BY <1>0 DEF TypeOK
  <2>2. r \in Seq(Bds)
    BY <1>3 DEF IsList
  <2> DEFINE p == IF r = <<>> THEN "run" ELSE swap.pc
  <2>3. swap' = [swap EXCEPT !.bds = r, !.pc = p] /\ p \in {"run", "write"} /\ (p # "write" => r = <<>>)
    BY <1>1
  <2> HIDE DEF r, p
  <2>. QED BY <2>1, <2>2, <2>3, Zenon
<1>8. TypeOK'
  <2>1. tree' \in SUBSET Bds
    BY <1>0, <1>5 DEF Done, TypeOK
  <2>. QED BY <1>0, <1>1, <1>4, <1>6, <1>7, <2>1 DEF TypeOK, OnlyWoken, HistKept, HistRec
<1>9. RequestsInv'
  <2>1. IsInjective(r)
    BY <1>3 DEF IsList
  <2>. QED BY <1>0, <1>1, <1>7, <2>1 DEF RequestsInv
<1>10. \A b \in Bds : Drivers(b)' = Drivers(b) \ (IF b \in X THEN {h} ELSE {})
  <2>1. \A b : Writers(b)' = Writers(b) /\ Readers(b)' = Readers(b)
    BY <1>1, <1>6, DriversSplit DEF Writers
  <2>2. \A b : b \in ToSet(s) <=> b \in X \/ b \in ToSet(r)
    BY <1>3
  <2> DEFINE A(b) == IF b \in ToSet(ahead.req) THEN {"ahead"} ELSE {}
             B(b) == Readers(b) \cup Writers(b)
  <2>3. /\ \A b : Drivers(b) = B(b) \cup (IF b \in ToSet(s) THEN {h} ELSE {}) \cup A(b)
        /\ \A b : h \notin A(b) /\ h \notin B(b)
    BY DriversSplit
  <2>4. \A b : Drivers(b)' = B(b) \cup (IF b \in ToSet(r) THEN {h} ELSE {}) \cup A(b)
    BY <1>1, <1>7, <2>1, DriversSplit
  <2> HIDE DEF A, B, X, r, s, h
  <2>. TAKE b \in Bds
  <2>5. b \in X => b \notin ToSet(r)
    BY <1>3
  <2>. QED BY <2>2, <2>3, <2>4, <2>5
<1>11. Ends(bd, X, h, ok)
  <2>1. bd \in BdFun
    BY <1>0 DEF TypeOK
  <2>2. \A b \in X : h \in Drivers(b)
    BY <1>2, <1>3
  <2>. QED BY <1>1, <1>3, <1>4, <1>5, <1>10, <2>1, <2>2 DEF Ends, HistKept
<1>12. Inv' /\ Moves
  <2> HIDE DEF X, h
  <2>. QED BY <1>8, <1>9, <1>11, EndsStep
<1>. QED BY <1>1, <1>12, GoodStep

\* A worker writes a request of its list.
LEMMA WorkerWriteStep ==
  ASSUME Inv, NEW w \in Workers, WorkerWrite(w)
  PROVE  Good
<1> DEFINE s == worker[w].bds
           X == ToSet(Request(s))
           r == Rest(s)
           p == IF r = <<>> THEN "back" ELSE worker[w].pc
           y == [worker[w] EXCEPT !.bds = r, !.pc = p]
<1>00. worker \in [Workers -> [pc : {"idle", "write", "back"}, bds : Seq(Bds)]]
  BY DEF Inv, TypeOK
<1>0. /\ TypeOK /\ RequestsInv /\ task \in TaskFun
      /\ s \in Seq(Bds) /\ IsInjective(s)
  BY <1>00 DEF Inv, TypeOK, RequestsInv
<1>1. /\ WriteRequest(s) /\ worker[w].pc = "write"
      /\ worker' = [worker EXCEPT ![w] = y]
      /\ UNCHANGED <<dev, swap, free_workers, syncing, ahead, fatal>>
  BY <1>00 DEF WorkerWrite
<1>2. \A b \in ToSet(s) : w \in Drivers(b)
  BY DEF Drivers
<1>3. /\ IsList(Bds, r, ToSet(r)) /\ X \cup ToSet(r) = ToSet(s) /\ X \cap ToSet(r) = {}
      /\ IsFiniteSet(X) /\ X \subseteq Bds
  <2> HIDE DEF s
  <2>1. IsList(Bds, Request(s), X)
    BY <1>0, RequestFacts
  <2>2. IsList(Bds, r, ToSet(r)) /\ X \cup ToSet(r) = ToSet(s) /\ X \cap ToSet(r) = {}
    BY <1>0, RequestFacts
  <2> HIDE DEF X
  <2>3. IsFiniteSet(X) /\ X \subseteq Bds
    BY <2>1, ListOps
  <2>. QED BY <2>2, <2>3
<1>4. (\E ok : Done(None, bd, X, In({"FREE", "CACHED"}), ok, task)) /\ disk' \in DiskFun /\ HistKept
  <2> HIDE DEF s
  <2>. QED BY <1>0, <1>1, <1>2, WriteFacts
<1>5. PICK ok : Done(None, bd, X, In({"FREE", "CACHED"}), ok, task)
  BY <1>4
<1>6. OnlyWoken /\ bd' \in BdFun /\ group' \in GroupFun
  <2>1. PICK cvs : task' = Woken(cvs, task)
    BY <1>5 DEF Done
  <2>. QED BY <1>0, <1>5, <2>1, OnlyWokenFacts DEF Done
<1>7. /\ worker' \in [Workers -> [pc : {"idle", "write", "back"}, bds : Seq(Bds)]]
      /\ worker'[w].bds = r /\ (worker'[w].pc # "write" => r = <<>>) /\ worker'[w].pc # "idle"
      /\ \A v \in Workers \ {w} : worker'[v] = worker[v]
  <2>1. worker[w] \in [pc : {"idle", "write", "back"}, bds : Seq(Bds)]
    BY <1>00
  <2>2. r \in Seq(Bds)
    BY <1>3 DEF IsList
  <2>3. p \in {"write", "back"} /\ (p # "write" => r = <<>>)
    BY <1>1
  <2>4. y \in [pc : {"idle", "write", "back"}, bds : Seq(Bds)] /\ y.bds = r /\ y.pc = p
    <3> HIDE DEF r, p
    <3>. QED BY <2>1, <2>2, <2>3
  <2> HIDE DEF y
  <2>5. worker'[w] = y /\ \A v \in Workers \ {w} : worker'[v] = worker[v]
    BY <1>1, <1>00
  <2>6. worker' \in [Workers -> [pc : {"idle", "write", "back"}, bds : Seq(Bds)]]
    BY <1>1, <1>00, <2>4
  <2>7. p # "idle"
    BY <2>3
  <2>. QED BY <2>3, <2>4, <2>5, <2>6, <2>7
<1>8. TypeOK'
  <2>1. tree' \in SUBSET Bds
    BY <1>0, <1>5 DEF Done, TypeOK
  <2>. QED BY <1>0, <1>1, <1>4, <1>6, <1>7, <2>1 DEF TypeOK, OnlyWoken, HistKept, HistRec
<1>9. RequestsInv'
  <2>1. IsInjective(r)
    BY <1>3 DEF IsList
  <2>2. w \notin ToSet(free_workers)
    BY <1>0, <1>1 DEF RequestsInv
  <2>3. \A v \in ToSet(free_workers) : v \in Workers
    BY <1>0, ListFacts DEF TypeOK
  <2>4. \A v \in Workers : IsInjective(worker'[v].bds) /\ (worker'[v].pc # "write" => worker'[v].bds = <<>>)
    BY <1>0, <1>7, <2>1 DEF RequestsInv
  <2>5. \A v \in ToSet(free_workers) : worker'[v].pc = "idle"
    BY <1>0, <1>7, <2>2, <2>3 DEF RequestsInv
  <2>. QED BY <1>0, <1>1, <2>4, <2>5 DEF RequestsInv
<1>10. \A b \in Bds : Drivers(b)' = Drivers(b) \ (IF b \in X THEN {w} ELSE {})
  <2>1. \A b : Readers(b)' = Readers(b)
    BY <1>6, DriversSplit
  <2>2. \A b : b \in ToSet(s) <=> b \in X \/ b \in ToSet(r)
    BY <1>3
  <2>3. \A b : Writers(b) = {v \in Workers \ {w} : b \in ToSet(worker[v].bds)} \cup (IF b \in ToSet(s) THEN {w} ELSE {})
    BY DEF Writers
  <2>4. \A b : Writers(b)' = {v \in Workers \ {w} : b \in ToSet(worker[v].bds)} \cup (IF b \in ToSet(r) THEN {w} ELSE {})
    BY <1>7 DEF Writers
  <2> DEFINE A(b) == {v \in Workers \ {w} : b \in ToSet(worker[v].bds)}
             C(b) == (IF b \in ToSet(swap.bds) THEN {"swapout"} ELSE {})
                      \cup (IF b \in ToSet(ahead.req) THEN {"ahead"} ELSE {})
             B(b) == Readers(b) \cup A(b) \cup C(b)
  <2>5. \A b : w \notin C(b) /\ w \notin Readers(b) /\ w \notin A(b)
    BY DriversSplit
  <2>6. /\ \A b : Drivers(b) = B(b) \cup (IF b \in ToSet(s) THEN {w} ELSE {})
        /\ \A b : w \notin B(b)
    BY <2>3, <2>5, DriversSplit
  <2>7. \A b : Drivers(b)' = B(b) \cup (IF b \in ToSet(r) THEN {w} ELSE {})
    BY <1>1, <2>1, <2>4, DriversSplit
  <2> HIDE DEF A, B, C, X, r, s
  <2>. TAKE b \in Bds
  <2>8. b \in X => b \notin ToSet(r)
    BY <1>3
  <2>. QED BY <2>2, <2>6, <2>7, <2>8
<1>11. Ends(bd, X, w, ok)
  <2>1. bd \in BdFun
    BY <1>0 DEF TypeOK
  <2>2. \A b \in X : w \in Drivers(b)
    BY <1>2, <1>3
  <2>. QED BY <1>1, <1>3, <1>4, <1>5, <1>10, <2>1, <2>2 DEF Ends, HistKept
<1>12. Inv' /\ Moves
  <2> HIDE DEF X
  <2>. QED BY <1>8, <1>9, <1>11, EndsStep
<1>. QED BY <1>1, <1>12, GoodStep

\* The end of the transfer of the read-ahead task.
LEMMA ReadAheadDoneStep ==
  ASSUME Inv, ReadAheadDone
  PROVE  Good
<1> DEFINE s == ahead.req
           h == "ahead"
           X == ToSet(s)
           R == In({"FREE", "CACHED"})
<1>0. /\ TypeOK /\ RequestsInv /\ task \in TaskFun /\ bd \in BdFun /\ group \in GroupFun /\ disk \in DiskFun
      /\ ListsInv /\ s \in Seq(Bds) /\ IsInjective(s)
  BY DEF Inv, TypeOK, RequestsInv
<1>1. /\ ahead' = [ahead EXCEPT !.pc = "run", !.req = <<>>, !.dd = NoDev, !.count = 0]
      /\ UNCHANGED <<dev, disk, swap, worker, free_workers, syncing, fatal, hist>>
  BY DEF ReadAheadDone, io
<1>2. IsList(Bds, s, X) /\ IsFiniteSet(X) /\ X \subseteq Bds
  <2>1. IsList(Bds, s, X)
    BY <1>0 DEF IsList
  <2>. QED BY <2>1, ListOps
<1>3. \A b \in X : b \in Bds /\ h \in Drivers(b)
  BY <1>2 DEF Drivers
<1>4. X \cap R = {} /\ \A b \in X : bd[b].dd \in Devs
  BY <1>3, DrivenFacts
<1>5. IsList(Bds, lru, R)
  BY <1>0 DEF ListsInv
<1>6. PICK f, ok : /\ TransferDone(None, f, s, ok, task) /\ f \in BdFun
                   /\ \A b \in Bds : f[b].state = bd[b].state /\ f[b].dd = bd[b].dd /\ f[b].block = bd[b].block
  <2>1. CASE TransferDone(None, Loaded(bd, X), s, TRUE, task)
    <3> DEFINE e == Loaded(bd, X)
    <3>0. \A b \in X : bd[b].dd \in Devs
      BY <1>4
    <3> HIDE DEF X
    <3>1. /\ e \in BdFun
          /\ \A b \in Bds : e[b].state = bd[b].state /\ e[b].dd = bd[b].dd /\ e[b].block = bd[b].block
      BY <1>0, <3>0, LoadedFacts
    <3>2. TransferDone(None, e, s, TRUE, task)
      BY <2>1
    <3> HIDE DEF e, s
    <3>. QED BY <3>1, <3>2
  <2>2. CASE TransferDone(None, bd, s, FALSE, task)
    BY <1>0, <2>2
  <2>. QED BY <2>1, <2>2 DEF ReadAheadDone
<1>7. Done(None, f, X, R, ok, task)
  <2> HIDE DEF X, R, s
  <2>. QED BY <1>0, <1>2, <1>4, <1>5, <1>6, TransferDoneFacts
<1>8. OnlyWoken /\ bd' \in BdFun /\ group' \in GroupFun
  <2>1. PICK cvs : task' = Woken(cvs, task)
    BY <1>7 DEF Done
  <2>. QED BY <1>0, <1>7, <2>1, OnlyWokenFacts DEF Done
<1>9. AheadRec(ahead') /\ ahead'.pc = "run" /\ ahead'.req = <<>>
  <2>1. AheadRec(ahead) /\ <<>> \in Seq(Bds)
    BY <1>0 DEF TypeOK, AheadRec
  <2>2. ahead' = [ahead EXCEPT !.pc = "run", !.req = <<>>, !.dd = NoDev, !.count = 0]
    BY <1>1
  <2>. QED BY <2>1, <2>2, Zenon DEF AheadRec
<1>10. TypeOK'
  <2>1. tree' \in SUBSET Bds
    BY <1>0, <1>7 DEF Done, TypeOK
  <2>. QED BY <1>0, <1>1, <1>8, <1>9, <2>1 DEF TypeOK, OnlyWoken, AheadRec
<1>11. RequestsInv'
  <2>1. IsInjective(<<>>)
    BY DEF IsInjective
  <2>. QED BY <1>0, <1>1, <1>9, <2>1 DEF RequestsInv
<1>12. \A b \in Bds : Drivers(b)' = Drivers(b) \ (IF b \in X THEN {h} ELSE {})
  <2>1. \A b : Writers(b)' = Writers(b) /\ Readers(b)' = Readers(b)
    BY <1>1, <1>8, DriversSplit DEF Writers
  <2> DEFINE A(b) == IF b \in ToSet(swap.bds) THEN {"swapout"} ELSE {}
             B(b) == Readers(b) \cup Writers(b)
  <2>2. \A b : b \notin ToSet(ahead'.req)
    <3>1. ToSet(<<>>) = {}
      BY NoNodes DEF IsList
    <3>. QED BY <1>9, <3>1
  <2>3. /\ \A b : Drivers(b) = B(b) \cup A(b) \cup (IF b \in X THEN {h} ELSE {})
        /\ \A b : h \notin A(b) /\ h \notin B(b)
    BY DriversSplit
  <2>4. \A b : Drivers(b)' = B(b) \cup A(b)
    BY <1>1, <2>1, <2>2, DriversSplit
  <2> HIDE DEF A, B, X, h
  <2>. QED BY <2>3, <2>4
<1>13. Ends(f, X, h, ok)
  BY <1>1, <1>2, <1>3, <1>6, <1>7, <1>12 DEF Ends
<1>14. Inv' /\ Moves
  <2> HIDE DEF X, h
  <2>. QED BY <1>10, <1>11, <1>13, EndsStep
<1>. QED BY <1>1, <1>14, GoodStep

\* A task that has no buffer and waits for none.
Apart(c) == c.pc \notin OwnPc \cup BdWait \cup {"reading"}

\* Every task keeps its buffer, or has none before and after.
HandsKept ==
    \A u \in Tasks : \/ task'[u].pc = task[u].pc /\ task'[u].bd = task[u].bd
                     \/ Apart(task[u]) /\ Apart(task'[u])

\* Who has and who awaits a buffer depends on the tasks near one only.
LEMMA HandsFrame ==
  ASSUME HandsKept
  PROVE  /\ \A b : Owners(b)' = Owners(b) /\ Waiting(b)' = Waiting(b)
         /\ \A b : Readers(b)' = Readers(b)
         /\ \A g : Sleepers(g)' = Sleepers(g)
<1>1. \A u \in Tasks : task'[u].pc \in OwnPc <=> task[u].pc \in OwnPc
  BY DEF HandsKept, Apart
<1>2. \A u \in Tasks : task'[u].pc \in BdWait <=> task[u].pc \in BdWait
  BY DEF HandsKept, Apart
<1>3. \A u \in Tasks : task'[u].pc = "reading" <=> task[u].pc = "reading"
  BY DEF HandsKept, Apart
<1>4. \A u \in Tasks : task[u].pc \in OwnPc \cup BdWait \cup {"reading"} => task'[u].bd = task[u].bd
  BY DEF HandsKept, Apart
<1>5. \A b : Owners(b)' = Owners(b)
  BY <1>1, <1>4 DEF Owners
<1>6. \A b : Waiting(b)' = Waiting(b)
  BY <1>2, <1>4 DEF Waiting
<1>7. \A b : Readers(b)' = Readers(b)
  BY <1>3, <1>4 DEF Readers
<1>8. \A g : Sleepers(g)' = Sleepers(g)
  BY <1>2, <1>4 DEF Sleepers
<1>. QED BY <1>5, <1>6, <1>7, <1>8

\* A step that touches no buffer and no list.
Untouched == UNCHANGED <<bd, tree, lru, modified, sync, group>>

\* A step that leaves the buffers alone keeps what the invariant says of them.
LEMMA UntouchedStep ==
  ASSUME Inv, Untouched, HandsKept, SameRequests, TypeOK', TasksInv', RequestsInv',
         hist.orphan => hist'.orphan, hist'.resized = hist.resized,
         \A d \in Devs : dev'[d].bds_per_group = dev[d].bds_per_group,
         \A u \in Tasks : task'[u].pc \in {"rec", "search"} => task[u].pc \in {"rec", "search"}
  PROVE  Inv' /\ Moves
<1>1. Live' = Live
  BY LiveFrame DEF Untouched
<1>2. ListsInv' /\ KeysInv'
  BY <1>1 DEF Untouched, Inv, ListsInv, KeysInv, In
<1>3. SizesInv'
  BY DEF Inv, SizesInv, Untouched
<1>4. /\ \A b : Owners(b)' = Owners(b) /\ Waiting(b)' = Waiting(b)
      /\ \A b : Readers(b)' = Readers(b)
      /\ \A g : Sleepers(g)' = Sleepers(g)
  BY HandsFrame
<1>5. CountInv'
  <2>1. \A g : Used(g)' = Used(g)
    BY DEF Untouched, Used
  <2>. QED BY <1>4, <2>1 DEF Inv, CountInv, Untouched
<1>6. \A b : Drivers(b)' = Drivers(b)
  <2>1. \A b : Writers(b)' = Writers(b)
    BY DEF Writers, SameRequests
  <2>2. swap'.bds = swap.bds /\ ahead'.req = ahead.req
    BY DEF SameRequests
  <2>. QED BY <1>4, <2>1, <2>2, DriversSplit
<1>7. ASSUME NEW b \in Bds PROVE BufferInv(b)'
  <2>1. SameBuffer(b)
    BY <1>1, <1>4, <1>6 DEF SameBuffer, Untouched
  <2>. QED BY <2>1, BufferFrame DEF Inv
<1>. QED BY <1>2, <1>3, <1>5, <1>7 DEF Inv, Moves, Untouched

\* The calls of a task that touch no buffer.
LEMMA SyncdevStep ==
  ASSUME Inv, NEW t \in Tasks, NEW op \in {"syncdev", "resize"}, NEW d \in Devs, Syncdev(t, op, d)
  PROVE  Good
<1>0. TypeOK /\ TasksInv /\ RequestsInv /\ task \in TaskFun
  BY DEF Inv, TypeOK
<1>1. /\ task[t].pc = "idle" /\ Untouched
      /\ UNCHANGED <<dev, disk, swap, worker, free_workers, ahead, fatal>>
      /\ syncing' = [active |-> TRUE, device |-> d, requester |-> t, lock |-> t]
  BY DEF Syncdev, Untouched, lists, io
<1> DEFINE r == [task[t] EXCEPT !.pc = "syncwait", !.op = op, !.dd = d]
<1>2. r \in TaskRec /\ r.pc = "syncwait" /\ r.dd = d
  <2>1. task[t] \in TaskRec /\ "syncwait" \in TaskPc
    BY <1>0 DEF TaskFun, TaskPc
  <2>. QED BY <2>1 DEF TaskRec
<1>3. task' = [task EXCEPT ![t] = r]
  BY DEF Syncdev
<1> HIDE DEF r
<1>4. task' \in TaskFun /\ task'[t] = r /\ \A u \in Tasks \ {t} : task'[u] = task[u]
  BY <1>0, <1>2, <1>3, PlainStep
<1>5. HandsKept
  <2>1. Apart(task[t]) /\ Apart(task'[t])
    BY <1>1, <1>2, <1>4 DEF Apart, OwnPc, BdWait
  <2>. QED BY <1>4, <2>1 DEF HandsKept
<1>6. HistKept
  <2> DEFINE p == UNION {{[dd |-> d, m |-> m, v |-> hist.latest[d][m]] : m \in Covers(b)} : b \in Dirty(d)}
  <2>1. hist' = [hist EXCEPT !.pending = p]
    BY DEF Syncdev
  <2> HIDE DEF p
  <2>2. HistRec(hist)
    BY <1>0 DEF TypeOK, HistRec
  <2>. QED BY <2>1, <2>2, Zenon DEF HistRec, HistKept
<1>7. TypeOK'
  <2>1. syncing' \in [active : {syncing'.active}, device : Devs \cup {NoDev},
                      requester : Tasks \cup {None}, lock : Tasks \cup {None}]
    BY <1>1
  <2>. QED BY <1>0, <1>1, <1>4, <1>6, <2>1 DEF TypeOK, Untouched, HistKept, HistRec
<1>8. TasksInv' /\ RequestsInv' /\ SameRequests
  <2>1. TasksInv'
    <3>1. task'[t].pc \notin OwnPc \cup BdWait \cup {"reading"} /\ task'[t].dd \in Devs
      BY <1>2, <1>4 DEF OwnPc, BdWait
    <3>. QED BY <1>0, <1>4, <3>1 DEF TasksInv
  <2>. QED BY <1>0, <1>1, <2>1 DEF RequestsInv, SameRequests
<1>9. \A u \in Tasks : task'[u].pc \in {"rec", "search"} => task[u].pc \in {"rec", "search"}
  BY <1>2, <1>4
<1>10. Inv' /\ Moves
  BY <1>1, <1>5, <1>6, <1>7, <1>8, <1>9, UntouchedStep DEF HistKept
<1>. QED BY <1>1, <1>10, GoodStep

\* rtems_bdbuf_syncdev gives the sync lock back.
LEMMA SyncdevReturnStep ==
  ASSUME Inv, NEW t \in Tasks, SyncdevReturn(t)
  PROVE  Good
<1>0. TypeOK /\ TasksInv /\ RequestsInv /\ task \in TaskFun
  BY DEF Inv, TypeOK
<1>1. /\ task[t].pc = "syncdone" /\ Untouched
      /\ UNCHANGED <<dev, disk, swap, worker, free_workers, ahead, fatal>>
      /\ syncing' = [syncing EXCEPT !.lock = None]
  BY DEF SyncdevReturn, Untouched, lists, io
<1> DEFINE r == IF task[t].op = "resize" THEN [task[t] EXCEPT !.pc = "resize"] ELSE Idle(task[t])
<1>2. r \in TaskRec /\ r.pc \in {"resize", "idle"} /\ (r.pc # "idle" => r.dd = task[t].dd)
  <2>1. task[t] \in TaskRec /\ "resize" \in TaskPc
    BY <1>0 DEF TaskFun, TaskPc
  <2>2. Idle(task[t]) \in TaskRec /\ Idle(task[t]).pc = "idle"
    BY <2>1, IdleFacts
  <2> DEFINE q == [task[t] EXCEPT !.pc = "resize"]
  <2>3. q \in TaskRec /\ q.pc = "resize" /\ q.dd = task[t].dd
    BY <2>1 DEF TaskRec
  <2> HIDE DEF q
  <2>4. r = IF task[t].op = "resize" THEN q ELSE Idle(task[t])
    BY DEF q
  <2> HIDE DEF r
  <2>. QED BY <2>2, <2>3, <2>4
<1>3. task' = [task EXCEPT ![t] = r]
  BY DEF SyncdevReturn
<1> HIDE DEF r
<1>4. task' \in TaskFun /\ task'[t] = r /\ \A u \in Tasks \ {t} : task'[u] = task[u]
  BY <1>0, <1>2, <1>3, PlainStep
<1>5. HandsKept
  <2>1. Apart(task[t]) /\ Apart(task'[t])
    BY <1>1, <1>2, <1>4 DEF Apart, OwnPc, BdWait
  <2>. QED BY <1>4, <2>1 DEF HandsKept
<1>6. HistKept
  <2>1. hist' = [hist EXCEPT !.pending = {}]
    BY DEF SyncdevReturn
  <2>2. HistRec(hist)
    BY <1>0 DEF TypeOK, HistRec
  <2>. QED BY <2>1, <2>2, Zenon DEF HistRec, HistKept
<1>7. TypeOK'
  <2>1. syncing' \in [active : {syncing'.active}, device : Devs \cup {NoDev},
                      requester : Tasks \cup {None}, lock : Tasks \cup {None}]
    <3>1. syncing \in [active : {syncing.active}, device : Devs \cup {NoDev},
                      requester : Tasks \cup {None}, lock : Tasks \cup {None}]
      BY <1>0 DEF TypeOK
    <3>. QED BY <1>1, <3>1, Zenon
  <2>. QED BY <1>0, <1>1, <1>4, <1>6, <2>1 DEF TypeOK, Untouched, HistKept, HistRec
<1>8. TasksInv' /\ RequestsInv' /\ SameRequests
  <2>1. TasksInv'
    <3>1. task'[t].pc \notin OwnPc \cup BdWait \cup {"reading"} /\ (task'[t].pc # "idle" => task'[t].dd \in Devs)
      BY <1>0, <1>1, <1>2, <1>4 DEF OwnPc, BdWait, TasksInv
    <3>. QED BY <1>0, <1>4, <3>1 DEF TasksInv
  <2>. QED BY <1>0, <1>1, <2>1 DEF RequestsInv, SameRequests
<1>9. \A u \in Tasks : task'[u].pc \in {"rec", "search"} => task[u].pc \in {"rec", "search"}
  BY <1>2, <1>4
<1>10. Inv' /\ Moves
  BY <1>1, <1>5, <1>6, <1>7, <1>8, <1>9, UntouchedStep DEF HistKept
<1>. QED BY <1>1, <1>10, GoodStep

\* Steps that leave the tasks alone, too.
LEMMA UnnoticedStep ==
  ASSUME Inv, Untouched, UNCHANGED <<task, hist, fatal>>, SameRequests, TypeOK', RequestsInv',
         \A d \in Devs : dev'[d].bds_per_group = dev[d].bds_per_group
  PROVE  Good
<1>1. HandsKept
  BY DEF HandsKept
<1>2. TasksInv'
  BY DEF Inv, TasksInv
<1>3. Inv' /\ Moves
  BY <1>1, <1>2, UntouchedStep
<1>. QED BY <1>3, GoodStep

\* rtems_bdbuf_peek sets the trigger of the read-ahead.
LEMMA PeekStep ==
  ASSUME Inv, NEW t \in Tasks, NEW d \in Devs, NEW k \in 0 .. MediaBlocks - 1,
         NEW n \in 1 .. MaxReadAhead, Peek(t, d, k, n)
  PROVE  Good
<1>0. TypeOK /\ RequestsInv /\ dev \in DevFun
  BY DEF Inv, TypeOK
<1>1. /\ Untouched
      /\ UNCHANGED <<task, disk, swap, worker, free_workers, syncing, fatal, hist>>
  BY DEF Peek, Untouched, lists, io
<1>2. ahead' = AddedToChain(Cancelled(ahead, d), d)
  BY DEF Peek
<1>3. AheadRec(ahead') /\ SameAhead(ahead', ahead)
  <2>1. AheadRec(ahead)
    BY <1>0 DEF TypeOK, AheadRec
  <2> DEFINE a == Cancelled(ahead, d)
  <2>2. AheadRec(a) /\ SameAhead(a, ahead)
    BY <2>1, CancelledFacts
  <2> HIDE DEF a
  <2>3. AheadRec(AddedToChain(a, d)) /\ SameAhead(AddedToChain(a, d), a)
    BY <2>2, AddedToChainFacts
  <2>4. ahead' = AddedToChain(a, d)
    BY <1>2 DEF a
  <2>. QED BY <2>2, <2>3, <2>4 DEF SameAhead
<1>4. dev' \in DevFun /\ \A e \in Devs : dev'[e].bds_per_group = dev[e].bds_per_group
  <2>1. NoTrigger \in Int /\ k \in Int /\ n \in Int
    BY BdbufAssumption DEF NoTrigger
  <2>2. dev[d] \in DevRec
    BY <1>0 DEF DevFun, DevRec
  <2> DEFINE v == [dev[d] EXCEPT !.trigger = NoTrigger, !.next = k, !.nr_blocks = n]
  <2>3. v \in DevRec /\ v.bds_per_group = dev[d].bds_per_group
    BY <2>1, <2>2 DEF DevRec
  <2>4. dev' = [dev EXCEPT ![d] = v]
    BY DEF Peek
  <2> HIDE DEF v
  <2>. QED BY <1>0, <2>3, <2>4 DEF DevFun, DevRec
<1>5. TypeOK'
  BY <1>0, <1>1, <1>3, <1>4 DEF TypeOK, Untouched, AheadRec
<1>6. RequestsInv' /\ SameRequests
  BY <1>0, <1>1, <1>3 DEF RequestsInv, SameRequests, SameAhead
<1>. QED BY <1>1, <1>4, <1>5, <1>6, UnnoticedStep

\* The task that asked for the sync waits for its end.
SyncInv == syncing.requester \in Tasks => task[syncing.requester].pc = "syncwait"

\* The end of a sync wakes the task that asked for it.
LEMMA EndSyncStep ==
  ASSUME Inv, SyncInv, EndSync
  PROVE  Good /\ SyncInv'
<1>0. TypeOK /\ TasksInv /\ RequestsInv /\ task \in TaskFun
  BY DEF Inv, TypeOK
<1>1. /\ Untouched /\ swap.pc = "endsync"
      /\ UNCHANGED <<dev, disk, worker, free_workers, ahead, fatal, hist>>
      /\ swap' = [swap EXCEPT !.pc = "wait"]
      /\ syncing' = [syncing EXCEPT !.active = FALSE, !.requester = None]
      /\ task' = [t \in Tasks |-> IF t = syncing.requester THEN [task[t] EXCEPT !.pc = "syncdone"]
                                                           ELSE task[t]]
  BY DEF EndSync, Untouched, lists
<1>2. ASSUME NEW t \in Tasks
      PROVE  /\ task'[t] \in TaskRec /\ task'[t].bd = task[t].bd /\ task'[t].dd = task[t].dd
             /\ task'[t].pc = IF t = syncing.requester THEN "syncdone" ELSE task[t].pc
             /\ t = syncing.requester => task[t].pc = "syncwait"
  <2>1. task[t] \in TaskRec /\ "syncdone" \in TaskPc
    BY <1>0 DEF TaskFun, TaskPc
  <2>2. task'[t] = IF t = syncing.requester THEN [task[t] EXCEPT !.pc = "syncdone"] ELSE task[t]
    BY <1>1
  <2>3. t = syncing.requester => task[t].pc = "syncwait"
    BY DEF SyncInv
  <2> DEFINE q == [task[t] EXCEPT !.pc = "syncdone"]
  <2>4. q \in TaskRec /\ q.pc = "syncdone" /\ q.bd = task[t].bd /\ q.dd = task[t].dd
    BY <2>1 DEF TaskRec
  <2>5. task'[t] = IF t = syncing.requester THEN q ELSE task[t]
    BY <2>2 DEF q
  <2> HIDE DEF q
  <2>. QED BY <2>1, <2>3, <2>4, <2>5
<1>3. task' \in TaskFun
  BY <1>1, <1>2 DEF TaskFun
<1>4. HandsKept
  <2>1. ASSUME NEW t \in Tasks, t = syncing.requester PROVE Apart(task[t]) /\ Apart(task'[t])
    BY <1>2, <2>1 DEF Apart, OwnPc, BdWait
  <2>. QED BY <1>2, <2>1 DEF HandsKept
<1>5. syncing' \in [active : {syncing'.active}, device : Devs \cup {NoDev},
                    requester : Tasks \cup {None}, lock : Tasks \cup {None}]
      /\ syncing'.requester = None
  <2>1. syncing \in [active : {syncing.active}, device : Devs \cup {NoDev},
                     requester : Tasks \cup {None}, lock : Tasks \cup {None}]
    BY <1>0 DEF TypeOK
  <2>. QED BY <1>1, <2>1, Zenon
<1>6. /\ swap' \in [pc : {"run", "write", "endsync", "wait", "einval"}, update : {swap'.update}, bds : Seq(Bds)]
      /\ swap'.bds = swap.bds
  <2>1. swap \in [pc : {"run", "write", "endsync", "wait", "einval"}, update : {swap.update}, bds : Seq(Bds)]
    BY <1>0 DEF TypeOK
  <2>. QED BY <1>1, <2>1, Zenon
<1>7. TypeOK'
  BY <1>0, <1>1, <1>3, <1>5, <1>6 DEF TypeOK, Untouched
<1>8. TasksInv' /\ RequestsInv' /\ SameRequests
  <2>1. TasksInv'
    BY <1>0, <1>2 DEF TasksInv, OwnPc, BdWait
  <2>2. swap.bds = <<>>
    BY <1>0, <1>1 DEF RequestsInv
  <2>. QED BY <1>0, <1>1, <1>6, <2>1, <2>2 DEF RequestsInv, SameRequests
<1>9. \A u \in Tasks : task'[u].pc \in {"rec", "search"} => task[u].pc \in {"rec", "search"}
  BY <1>2
<1>10. Inv' /\ Moves
  BY <1>1, <1>4, <1>7, <1>8, <1>9, UntouchedStep
<1>11. SyncInv'
  BY <1>5, BdbufAssumption DEF SyncInv
<1>. QED BY <1>1, <1>10, <1>11, GoodStep

\* The swapout task wakes up, by its event or its period.
LEMMA SwapoutWakeStep ==
  ASSUME Inv, SwapoutWake
  PROVE  Good
<1>0. TypeOK /\ RequestsInv
  BY DEF Inv, TypeOK
<1>1. /\ Untouched /\ swap.pc = "wait"
      /\ UNCHANGED <<task, dev, disk, worker, free_workers, syncing, ahead, hist>>
  BY DEF SwapoutWake, Untouched, lists
<1>2. \/ swap' = [swap EXCEPT !.pc = "run", !.update = TRUE] /\ fatal' = fatal
      \/ swap' = [swap EXCEPT !.pc = "einval"] /\ fatal' = TRUE
  BY DEF SwapoutWake
<1>3. /\ swap' \in [pc : {"run", "write", "endsync", "wait", "einval"}, update : {swap'.update}, bds : Seq(Bds)]
      /\ swap'.bds = swap.bds /\ swap'.pc # "write"
      /\ fatal' = fatal \/ swap'.pc = "einval"
  <2>1. swap \in [pc : {"run", "write", "endsync", "wait", "einval"}, update : {swap.update}, bds : Seq(Bds)]
    BY <1>0 DEF TypeOK
  <2>2. CASE swap' = [swap EXCEPT !.pc = "run", !.update = TRUE] /\ fatal' = fatal
    BY <2>1, <2>2, Zenon
  <2>3. CASE swap' = [swap EXCEPT !.pc = "einval"]
    BY <2>1, <2>3, Zenon
  <2>. QED BY <1>2, <2>2, <2>3
<1>4. TypeOK'
  BY <1>0, <1>1, <1>3 DEF TypeOK, Untouched
<1>5. RequestsInv' /\ SameRequests
  <2>1. swap.bds = <<>>
    BY <1>0, <1>1 DEF RequestsInv
  <2>. QED BY <1>0, <1>1, <1>3, <2>1 DEF RequestsInv, SameRequests
<1>6. TasksInv' /\ HandsKept
  BY <1>1 DEF Inv, TasksInv, HandsKept
<1>7. Inv' /\ Moves
  BY <1>1, <1>4, <1>5, <1>6, UntouchedStep
<1>. QED BY <1>3, <1>7 DEF Good

\* A worker goes back to the list of free workers.
LEMMA WorkerBackStep ==
  ASSUME Inv, NEW w \in Workers, WorkerBack(w)
  PROVE  Good
<1> DEFINE WorkerRec == [pc : {"idle", "write", "back"}, bds : Seq(Bds)]
<1>0. TypeOK /\ RequestsInv /\ worker \in [Workers -> WorkerRec] /\ free_workers \in Seq(Workers)
  BY DEF Inv, TypeOK
<1>1. /\ Untouched /\ worker[w].pc = "back"
      /\ UNCHANGED <<task, dev, disk, swap, syncing, ahead, fatal, hist>>
      /\ free_workers' = Append(free_workers, w)
  BY DEF WorkerBack, Untouched, lists
<1> DEFINE y == [worker[w] EXCEPT !.pc = "idle"]
<1>2. worker' = [worker EXCEPT ![w] = y]
  BY DEF WorkerBack
<1>3. y \in WorkerRec /\ y.pc = "idle" /\ y.bds = worker[w].bds
  BY <1>0
<1> HIDE DEF y
<1>4. worker' \in [Workers -> WorkerRec] /\ worker'[w] = y /\ \A v \in Workers \ {w} : worker'[v] = worker[v]
  BY <1>0, <1>2, <1>3
<1>5. IsList(Workers, free_workers', ToSet(free_workers) \cup {w})
  <2>1. IsList(Workers, free_workers, ToSet(free_workers))
    BY <1>0 DEF IsList, RequestsInv
  <2>2. w \notin ToSet(free_workers)
    BY <1>0, <1>1 DEF RequestsInv
  <2> DEFINE X == ToSet(free_workers)
  <2>3. IsList(Workers, free_workers, X) /\ w \in Workers \ X
    BY <2>1, <2>2
  <2> HIDE DEF X
  <2>4. IsList(Workers, Append(free_workers, w), X \cup {w})
    BY <2>3, ListOps
  <2>. QED BY <1>1, <2>4 DEF X
<1>6. free_workers' \in Seq(Workers) /\ IsInjective(free_workers') /\ ToSet(free_workers') = ToSet(free_workers) \cup {w}
  BY <1>5 DEF IsList
<1>7. TypeOK'
  BY <1>0, <1>1, <1>4, <1>6 DEF TypeOK, Untouched
<1>8. SameRequests
  BY <1>1, <1>3, <1>4 DEF SameRequests
<1>9. RequestsInv'
  <2>1. \A v \in Workers : IsInjective(worker'[v].bds) /\ (worker'[v].pc # "write" => worker'[v].bds = <<>>)
    BY <1>0, <1>1, <1>3, <1>4, ZenonT(60) DEF RequestsInv
  <2>2. \A v \in ToSet(free_workers') : worker'[v].pc = "idle"
    <3>1. \A v \in ToSet(free_workers) : v \in Workers
      BY <1>0, ListFacts
    <3>. QED BY <1>0, <1>3, <1>4, <1>6, <3>1 DEF RequestsInv
  <2>. QED BY <1>0, <1>1, <1>6, <2>1, <2>2 DEF RequestsInv
<1>. QED BY <1>1, <1>7, <1>8, <1>9, UnnoticedStep

\* The read-ahead task goes to sleep and wakes up.
LEMMA ReadAheadTurnStep ==
  ASSUME Inv, ReadAheadWake \/ ReadAheadSleep
  PROVE  Good
<1>0. TypeOK /\ RequestsInv /\ AheadRec(ahead)
  BY DEF Inv, TypeOK, AheadRec
<1>1. /\ Untouched /\ UNCHANGED <<task, dev, disk, swap, worker, free_workers, syncing, fatal, hist>>
      /\ ahead.pc \in {"wait", "run"}
  BY DEF ReadAheadWake, ReadAheadSleep, Untouched, lists, io
<1>2. AheadRec(ahead') /\ ahead'.pc \in {"wait", "run"} /\ ahead'.req = ahead.req
  <2>1. CASE ReadAheadWake
    <3>1. PICK e : ahead' = [ahead EXCEPT !.sem = e, !.pc = "run"]
      BY <2>1 DEF ReadAheadWake
    <3>. QED BY <1>0, <3>1, Zenon DEF AheadRec
  <2>2. CASE ReadAheadSleep
    <3>1. ahead' = [ahead EXCEPT !.pc = "wait"]
      BY <2>2 DEF ReadAheadSleep
    <3>. QED BY <1>0, <3>1, Zenon DEF AheadRec
  <2>. QED BY <2>1, <2>2
<1>3. TypeOK'
  BY <1>0, <1>1, <1>2 DEF TypeOK, Untouched, AheadRec
<1>4. RequestsInv' /\ SameRequests
  BY <1>0, <1>1, <1>2 DEF RequestsInv, SameRequests
<1>. QED BY <1>1, <1>3, <1>4, UnnoticedStep

\* The read-ahead task takes a buffer for its request.
LEMMA PrefetchStep ==
  ASSUME Inv, NEW d \in Devs, NEW m \in Int, NEW rest, AheadRec(rest), rest.pc = "gather", rest.dd = d,
         rest.req = ahead.req, CanPrefetch(d, m), Prefetch(d, m, rest),
         UNCHANGED <<disk, swap, worker, free_workers, syncing, hist>>,
         dev' \in DevFun, \A e \in Devs : dev'[e].bds_per_group = dev[e].bds_per_group
  PROVE  Good
<1>0. /\ TypeOK /\ TasksInv /\ RequestsInv /\ bd \in BdFun /\ task \in TaskFun /\ "TRANSFER" \in States
      /\ ahead.req \in Seq(Bds) /\ IsInjective(ahead.req)
  BY DEF Inv, TypeOK, States, Transferring, RequestsInv
<1>1. \A y : None \notin Waiting(y)
  BY BdbufAssumption DEF Waiting
<1>2. PICK x, O : x = FromLru(None, d) /\ Taken(x, d, O)
  BY <1>1, FromLruFacts DEF CanPrefetch
<1> DEFINE b == x.b
           f == SetupEmpty(x, d, m, "TRANSFER")
<1>3. ~x.ok => hist.orphan
  BY <1>2 DEF Taken
<1>4. \/ ~x.ok /\ Fatal
      \/ /\ x.ok /\ lru' = x.lru /\ tree' = x.tree \cup {b} /\ bd' = f
         /\ group' = Users(x.group, GroupOf(b), 1)
         /\ task' = Woken(IF x.fresh # {} THEN {"buffer"} ELSE {}, task)
         /\ ahead' = [rest EXCEPT !.req = Append(@, b)]
         /\ UNCHANGED <<modified, sync, fatal>>
  BY <1>2 DEF Prefetch
<1>5. InTree(d, m) = {}
  BY DEF CanPrefetch
<1>6. CASE ~x.ok /\ Fatal
  BY <1>3, <1>6, FatalStep DEF Aside
<1>7. CASE /\ x.ok /\ lru' = x.lru /\ tree' = x.tree \cup {b} /\ bd' = f
           /\ group' = Users(x.group, GroupOf(b), 1)
           /\ task' = Woken(IF x.fresh # {} THEN {"buffer"} ELSE {}, task)
           /\ ahead' = [rest EXCEPT !.req = Append(@, b)]
           /\ UNCHANGED <<modified, sync, fatal>>
  <2>1. /\ b \in Bds /\ x.group \in GroupFun /\ Waiting(b) = {} /\ Owners(b) = {} /\ Drivers(b) = {}
    BY <1>2 DEF Taken, Still, GroupFun
  <2>2. /\ f \in BdFun
        /\ f[b].dd = d /\ f[b].block = m /\ f[b].state = "TRANSFER"
        /\ \A y \in Bds \ {b} :
                /\ f[y].state = IF y \in x.fresh THEN "FREE" ELSE bd[y].state
                /\ f[y].dd = bd[y].dd /\ f[y].block = bd[y].block
    BY <1>0, <2>1, SetupEmptyFacts
  <2> HIDE DEF f
  <2>3. OnlyWoken
    <3>1. PICK cvs : task' = Woken(cvs, task)
      BY <1>7
    <3>. QED BY <1>0, <3>1, OnlyWokenFacts
  <2>4. Counted(x.group, b, 1) /\ group' \in GroupFun
    <3>1. Counted(x.group, b, 1)
      BY <1>7, <2>1, CountedUsers
    <3>. QED BY <3>1 DEF Counted
  <2> DEFINE s == ahead.req
             X == ToSet(s)
  <2>5. b \notin X
    BY <2>1 DEF Drivers
  <2>6. IsList(Bds, Append(s, b), X \cup {b})
    <3>1. IsList(Bds, s, X) /\ b \in Bds \ X
      BY <1>0, <2>1, <2>5 DEF IsList
    <3> HIDE DEF s, X, b
    <3>. QED BY <3>1, ListOps
  <2>7. /\ AheadRec(ahead') /\ ahead'.pc = "gather" /\ ahead'.dd = d /\ ahead'.req = Append(s, b)
        /\ Append(s, b) # <<>> /\ IsInjective(Append(s, b)) /\ ToSet(Append(s, b)) = X \cup {b}
    <3>1. Append(s, b) \in Seq(Bds) /\ IsInjective(Append(s, b)) /\ ToSet(Append(s, b)) = X \cup {b}
      BY <2>6 DEF IsList
    <3> DEFINE q == Append(s, b)
    <3>2. ahead' = [rest EXCEPT !.req = q]
      BY <1>7
    <3>3. q # <<>>
      <4>1. ToSet(<<>>) = {}
        BY NoNodes DEF IsList
      <4>2. b \in ToSet(q)
        BY <3>1
      <4> HIDE DEF q
      <4>. QED BY <4>1, <4>2
    <3>4. q \in Seq(Bds)
      BY <3>1
    <3>5. AheadRec(ahead') /\ ahead'.pc = "gather" /\ ahead'.dd = d /\ ahead'.req = q
      <4> HIDE DEF q
      <4>. QED BY <3>2, <3>4, Zenon DEF AheadRec
    <3>. QED BY <3>1, <3>3, <3>5
  <2>8. TypeOK'
    <3>1. tree' \in SUBSET Bds
      BY <1>0, <1>2, <1>7, <2>1 DEF Taken, TypeOK
    <3>. QED BY <1>0, <1>7, <2>2, <2>3, <2>4, <2>7, <3>1 DEF TypeOK, AheadRec, OnlyWoken
  <2>9. TasksInv' /\ \A g \in Groups : Sleepers(g)' = Sleepers(g)
    BY <1>0, <2>3, WokenHands
  <2>10. RequestsInv'
    BY <1>0, <2>7 DEF RequestsInv
  <2>11. \A y : Owners(y)' = Owners(y) /\ Waiting(y)' = Waiting(y)
    BY <2>3, WokenHands
  <2>12. \A y : Drivers(y)' = IF y = b THEN Drivers(y) \cup {"ahead"} ELSE Drivers(y)
    <3>1. \A y : Writers(y)' = Writers(y) /\ Readers(y)' = Readers(y)
      BY <2>3, DriversSplit DEF Writers
    <3> DEFINE A(y) == Readers(y) \cup Writers(y) \cup (IF y \in ToSet(swap.bds) THEN {"swapout"} ELSE {})
    <3>2. \A y : Drivers(y) = A(y) \cup (IF y \in X THEN {"ahead"} ELSE {})
      BY DriversSplit
    <3>3. \A y : Drivers(y)' = A(y) \cup (IF y \in X \cup {b} THEN {"ahead"} ELSE {})
      BY <2>7, <3>1, DriversSplit
    <3> HIDE DEF A, X
    <3>. QED BY <3>2, <3>3
  <2>13. Took(x, d, m, "ahead")
    <3>1. \A u \in Tasks : task'[u].pc \in {"rec", "search"} => task[u].pc \in {"rec", "search"}
      BY <2>3 DEF OnlyWoken
    <3>2. /\ Owners(b)' = {} /\ Waiting(b)' = {} /\ Drivers(b)' = {"ahead"} /\ bd'[b].state = "TRANSFER"
          /\ bd'[b].dd = d /\ bd'[b].block = m
      BY <1>7, <2>1, <2>2, <2>11, <2>12
    <3>3. \A y \in Bds \ {b} :
         /\ bd'[y].state = IF y \in x.fresh THEN "FREE" ELSE bd[y].state
         /\ bd'[y].dd = bd[y].dd /\ bd'[y].block = bd[y].block
         /\ Owners(y)' = Owners(y) /\ Drivers(y)' = Drivers(y) /\ Waiting(y)' = Waiting(y)
      BY <1>7, <2>2, <2>11, <2>12
    <3>. QED BY <1>7, <2>4, <2>9, <3>1, <3>2, <3>3 DEF Took
  <2>14. Inv' /\ Moves
    BY <1>2, <1>5, <1>7, <2>8, <2>9, <2>10, <2>13, TookStep
  <2>. QED BY <1>7, <2>14, GoodStep
<1>. QED BY <1>4, <1>6, <1>7

\* A device's trigger changes, its block size does not.
LEMMA SetTriggerFacts ==
  ASSUME dev \in DevFun, NEW d \in Devs, NEW i \in Int, NEW j \in Int,
         \/ dev' = dev \/ dev' = [dev EXCEPT ![d].trigger = i]
         \/ dev' = [dev EXCEPT ![d].trigger = i, ![d].next = j]
  PROVE  dev' \in DevFun /\ \A e \in Devs : dev'[e].bds_per_group = dev[e].bds_per_group
<1>1. dev[d] \in DevRec
  BY DEF DevFun, DevRec
<1> DEFINE v == [dev[d] EXCEPT !.trigger = i]
           w == [dev[d] EXCEPT !.trigger = i, !.next = j]
<1>2. v \in DevRec /\ v.bds_per_group = dev[d].bds_per_group
  BY <1>1 DEF DevRec
<1>3. w \in DevRec /\ w.bds_per_group = dev[d].bds_per_group
  BY <1>1 DEF DevRec
<1>4. dev' = dev \/ dev' = [dev EXCEPT ![d] = v] \/ dev' = [dev EXCEPT ![d] = w]
  OBVIOUS
<1> HIDE DEF v, w
<1>. QED BY <1>2, <1>3, <1>4 DEF DevFun, DevRec

\* A buffer covers at least one media block.
LEMMA SpanFacts ==
  ASSUME dev \in DevFun, NEW d \in Devs
  PROVE  Span(d) \in Int /\ Span(d) >= 1
<1>1. dev[d].bds_per_group \in 1 .. MaxBdsPerGroup
  BY DEF DevFun
<1> DEFINE n == dev[d].bds_per_group
<1>2. n \in Int /\ n >= 1 /\ n <= MaxBdsPerGroup /\ MaxBdsPerGroup \in Int
  BY <1>1, BdbufAssumption
<1> HIDE DEF n
<1>3. MaxBdsPerGroup \div n \in Int /\ MaxBdsPerGroup \div n >= 1
  BY <1>2
<1>. QED BY <1>3 DEF Span, n

\* rtems_bdbuf_read_ahead_task takes a device off its chain.
LEMMA ReadAheadNextStep ==
  ASSUME Inv, ReadAheadNext
  PROVE  Good
<1> DEFINE d == Head(ahead.chain)
           v == dev[d]
           k == v.next
           end == BlockCount(d) - k
           auto == v.nr_blocks = AutoSize
           count == CHOOSE n \in {IF auto THEN end ELSE v.nr_blocks, end, MaxReadAhead} :
                      n <= end /\ n <= MaxReadAhead /\ (auto \/ n <= v.nr_blocks)
           off == [ahead EXCEPT !.chain = Tail(@)]
<1>0. TypeOK /\ RequestsInv /\ AheadRec(ahead) /\ dev \in DevFun /\ ahead.chain \in Seq(Devs)
  BY DEF Inv, TypeOK, AheadRec
<1>1. /\ ahead.pc = "run" /\ ahead.chain # <<>>
      /\ UNCHANGED <<disk, swap, worker, free_workers, syncing, hist>>
      /\ \/ /\ dev' = [dev EXCEPT ![d].trigger = NoTrigger]
            /\ ahead' = off
            /\ UNCHANGED <<bd, lists, group, task, fatal>>
         \/ /\ ahead' = off
            /\ UNCHANGED <<bd, lists, group, task, dev, fatal>>
         \/ /\ CanPrefetch(d, k * Span(d))
            /\ Prefetch(d, k * Span(d), [off EXCEPT !.pc = "gather", !.dd = d, !.count = count])
            /\ dev' = IF ~auto \/ fatal' THEN dev
                       ELSE IF end >= MaxReadAhead
                       THEN [dev EXCEPT ![d].trigger = k + MaxReadAhead \div 2,
                                        ![d].next = k + MaxReadAhead]
                       ELSE [dev EXCEPT ![d].trigger = NoTrigger]
  BY DEF ReadAheadNext, io
<1>2. d \in Devs /\ Tail(ahead.chain) \in Seq(Devs)
  BY <1>0, <1>1, HeadTailProperties
<1>3. k \in Int /\ Span(d) \in Int
  BY <1>0, <1>2, SpanFacts DEF DevFun
<1>4. k * Span(d) \in Int
  BY <1>3
<1> DEFINE c == Tail(ahead.chain)
<1>5. AheadRec(off) /\ off.req = ahead.req /\ off.pc = ahead.pc /\ off.dd = ahead.dd
  <2> HIDE DEF c
  <2>1. off = [ahead EXCEPT !.chain = c]
    BY DEF c
  <2>2. c \in Seq(Devs)
    BY <1>2 DEF c
  <2>. QED BY <1>0, <2>1, <2>2, Zenon DEF AheadRec
<1>6. k + MaxReadAhead \div 2 \in Int /\ k + MaxReadAhead \in Int /\ NoTrigger \in Int
  BY <1>3, BdbufAssumption DEF NoTrigger
<1> HIDE DEF off
<1>7. CASE /\ dev' = [dev EXCEPT ![d].trigger = NoTrigger] \/ dev' = dev
           /\ ahead' = off
           /\ UNCHANGED <<bd, lists, group, task, fatal>>
  <2>1. dev' \in DevFun /\ \A e \in Devs : dev'[e].bds_per_group = dev[e].bds_per_group
    <3> HIDE DEF d
    <3>. QED BY <1>0, <1>2, <1>6, <1>7, SetTriggerFacts
  <2>2. Untouched
    BY <1>7 DEF Untouched, lists
  <2>3. TypeOK'
    BY <1>0, <1>1, <1>5, <1>7, <2>1, <2>2 DEF TypeOK, Untouched, AheadRec
  <2>4. RequestsInv' /\ SameRequests
    BY <1>0, <1>1, <1>5, <1>7 DEF RequestsInv, SameRequests
  <2>. QED BY <1>1, <1>7, <2>1, <2>2, <2>3, <2>4, UnnoticedStep
<1>8. CASE /\ CanPrefetch(d, k * Span(d))
           /\ Prefetch(d, k * Span(d), [off EXCEPT !.pc = "gather", !.dd = d, !.count = count])
           /\ dev' = IF ~auto \/ fatal' THEN dev
                      ELSE IF end >= MaxReadAhead
                      THEN [dev EXCEPT ![d].trigger = k + MaxReadAhead \div 2,
                                       ![d].next = k + MaxReadAhead]
                      ELSE [dev EXCEPT ![d].trigger = NoTrigger]
  <2> DEFINE i == k + MaxReadAhead \div 2
             j == k + MaxReadAhead
             m == k * Span(d)
             rest == [off EXCEPT !.pc = "gather", !.dd = d, !.count = count]
  <2>1. dev' \in DevFun /\ \A e \in Devs : dev'[e].bds_per_group = dev[e].bds_per_group
    <3>1. \/ dev' = dev \/ dev' = [dev EXCEPT ![d].trigger = NoTrigger]
          \/ dev' = [dev EXCEPT ![d].trigger = i, ![d].next = j]
      BY <1>8
    <3>2. i \in Int /\ j \in Int
      BY <1>6
    <3> HIDE DEF d, i, j
    <3>. QED BY <1>0, <1>2, <1>6, <3>1, <3>2, SetTriggerFacts
  <2>2. AheadRec(rest) /\ rest.pc = "gather" /\ rest.dd = d /\ rest.req = ahead.req
    <3> HIDE DEF d, count
    <3>. QED BY <1>2, <1>5, Zenon DEF AheadRec
  <2>3. CanPrefetch(d, m) /\ Prefetch(d, m, rest) /\ m \in Int /\ d \in Devs
    BY <1>2, <1>4, <1>8
  <2> HIDE DEF d, m, rest
  <2>. QED BY <1>1, <2>1, <2>2, <2>3, PrefetchStep
<1>. QED BY <1>1, <1>7, <1>8

\* The read-ahead task adds a buffer to its request, or hands it to the driver.
LEMMA ReadAheadGatherStep ==
  ASSUME Inv, ReadAheadGather
  PROVE  Good
<1> DEFINE d == ahead.dd
           s == ahead.req
           m == bd[s[Len(s)]].block + Span(d)
<1>0. TypeOK /\ RequestsInv /\ AheadRec(ahead) /\ dev \in DevFun /\ bd \in BdFun /\ s \in Seq(Bds)
  BY DEF Inv, TypeOK, AheadRec
<1>1. /\ ahead.pc = "gather"
      /\ UNCHANGED <<dev, disk, swap, worker, free_workers, syncing, hist>>
      /\ \/ CanPrefetch(d, m) /\ Prefetch(d, m, ahead)
         \/ /\ ahead' = [ahead EXCEPT !.pc = "reading"]
            /\ UNCHANGED <<bd, lists, group, task, fatal>>
  BY DEF ReadAheadGather, io
<1>2. d \in Devs /\ s # <<>>
  BY <1>0, <1>1 DEF RequestsInv
<1>3. m \in Int
  <2>1. Len(s) \in 1 .. Len(s)
    <3> HIDE DEF s
    <3>1. Len(s) \in Nat /\ Len(s) # 0
      BY <1>0, <1>2, LenProperties, EmptySeq
    <3>. QED BY <3>1
  <2>2. s[Len(s)] \in Bds
    <3> HIDE DEF s
    <3>. QED BY <1>0, <2>1, ElementOfSeq
  <2>3. bd[s[Len(s)]].block \in Int
    BY <1>0, <2>2 DEF BdFun, BdRec
  <2>. QED BY <1>0, <1>2, <2>3, SpanFacts
<1>4. CASE CanPrefetch(d, m) /\ Prefetch(d, m, ahead)
  <2> HIDE DEF m
  <2>. QED BY <1>0, <1>1, <1>2, <1>3, <1>4, PrefetchStep
<1>5. CASE /\ ahead' = [ahead EXCEPT !.pc = "reading"]
           /\ UNCHANGED <<bd, lists, group, task, fatal>>
  <2>1. AheadRec(ahead') /\ ahead'.pc = "reading" /\ ahead'.req = ahead.req /\ ahead'.dd = ahead.dd
    BY <1>0, <1>5, Zenon DEF AheadRec
  <2>2. Untouched
    BY <1>5 DEF Untouched, lists
  <2>3. TypeOK'
    BY <1>0, <1>1, <1>5, <2>1, <2>2 DEF TypeOK, Untouched, AheadRec
  <2>4. RequestsInv' /\ SameRequests
    BY <1>0, <1>1, <1>2, <2>1 DEF RequestsInv, SameRequests
  <2>. QED BY <1>1, <1>5, <2>2, <2>3, <2>4, UnnoticedStep
<1>. QED BY <1>1, <1>4, <1>5

\* One pass over a chain picks buffers of the chain, and ages them all.
LEMMA PickFacts ==
  ASSUME bd \in BdFun, NEW chain, NEW X, IsList(Bds, chain, X), NEW d, NEW active, NEW update
  PROVE  /\ Pick(chain, d, active, update).bds \subseteq X
         /\ DOMAIN Pick(chain, d, active, update).hold = X
         /\ \A b \in X : Pick(chain, d, active, update).hold[b] \in Int
<1> DEFINE held == [b \in ToSet(chain) |-> HoldAfter(Forced(d, active, b), update, bd[b].hold)]
           S == {b \in ToSet(chain) : held[b] = 0}
           due == Only(chain, S)
           which == IF d # NoDev \/ due = <<>> THEN d ELSE bd[due[1]].dd
<1>1. Pick(chain, d, active, update) = [hold |-> held, dd |-> which, bds |-> {b \in ToSet(due) : bd[b].dd = which}]
  BY DEF Pick
<1>2. ToSet(chain) = X /\ X \subseteq Bds
  <2>1. X \subseteq Bds
    BY ListOps
  <2>. QED BY <2>1 DEF IsList
<1>3. ToSet(due) \subseteq X
  <2> HIDE DEF S
  <2>1. IsList(Bds, due, X \cap S)
    BY OnlyFacts
  <2>. QED BY <2>1 DEF IsList
<1>4. DOMAIN held = X /\ \A b \in X : held[b] \in Int
  <2>1. \A b \in X : held[b] = HoldAfter(Forced(d, active, b), update, bd[b].hold)
    BY <1>2
  <2>2. \A b \in X : bd[b].hold \in Int
    BY <1>2 DEF BdFun, BdRec
  <2>3. \A b \in X : HoldAfter(Forced(d, active, b), update, bd[b].hold) \in Int
    BY <2>2 DEF HoldAfter
  <2>4. DOMAIN held = X
    BY <1>2
  <2>. QED BY <2>1, <2>3, <2>4
<1> HIDE DEF held, S, due, which
<1>. QED BY <1>1, <1>3, <1>4

\* The buffers T go to driver h.
LEMMA GatherStep ==
  ASSUME Inv, TypeOK', RequestsInv', NEW T, T \subseteq In({"SYNC"}) \cup In({"MODIFIED"}), NEW h,
         \A b \in Bds : /\ bd'[b].state = IF b \in T THEN "TRANSFER" ELSE bd[b].state
                        /\ bd'[b].dd = bd[b].dd /\ bd'[b].block = bd[b].block,
         \A b \in Bds : Drivers(b)' = Drivers(b) \cup (IF b \in T THEN {h} ELSE {}),
         sync' = Without(sync, T), modified' = Without(modified, T),
         UNCHANGED <<tree, lru, group, dev, task, hist>>
  PROVE  Inv' /\ Moves
<1>0. /\ TypeOK /\ ListsInv /\ KeysInv /\ TasksInv /\ group \in GroupFun /\ tree \subseteq Bds
      /\ SizesInv /\ CountInv
      /\ \A b \in Bds : BufferInv(b)
  BY DEF Inv, TypeOK
<1>1. Live' = Live /\ Live \subseteq Bds
  BY <1>0, LiveFrame, LiveFacts
<1>2. \A b : Owners(b)' = Owners(b) /\ Waiting(b)' = Waiting(b) /\ \A g : Sleepers(g)' = Sleepers(g)
  BY DEF Owners, Waiting, Sleepers
<1>3. \A b \in T : b \in Live /\ b \in Bds /\ bd[b].state \in {"SYNC", "MODIFIED"}
  BY <1>1 DEF In
<1>4. ASSUME NEW b \in Bds PROVE BufferInv(b)'
  <2>1. CASE b \in T
    <3>1. Drivers(b) = {} /\ Owners(b) = {}
      BY <1>0, <1>3, <2>1 DEF BufferInv, Access, AtDriver
    <3>2. Drivers(b)' = {h} /\ Owners(b)' = {} /\ bd'[b].state = "TRANSFER" /\ b \in Live'
      BY <1>1, <1>2, <1>3, <2>1, <3>1
    <3>3. bd[b].state # "FREE" /\ bd'[b].dd \in Devs /\ (Sound => b \in tree)
      BY <1>0, <1>3, <2>1 DEF BufferInv
    <3>. QED BY <3>2, <3>3 DEF BufferInv, Access, AtDriver, Sound
  <2>2. CASE b \notin T
    <3>1. Drivers(b)' = Drivers(b)
      BY <2>2
    <3>2. SameBuffer(b)
      BY <1>1, <1>2, <2>2, <3>1 DEF SameBuffer
    <3>. QED BY <1>0, <3>2, BufferFrame
  <2>. QED BY <2>1, <2>2
<1>5. ListsInv'
  <2>1. /\ In({"FREE", "CACHED"})' = In({"FREE", "CACHED"})
        /\ In({"MODIFIED"})' = In({"MODIFIED"}) \ T
        /\ In({"SYNC"})' = In({"SYNC"}) \ T
    BY <1>1, <1>3 DEF In
  <2> DEFINE A == In({"MODIFIED"})
             B == In({"SYNC"})
  <2>2. IsList(Bds, modified, A) /\ IsList(Bds, sync, B)
    BY <1>0 DEF ListsInv
  <2>3. IsList(Bds, modified', A \ T) /\ IsList(Bds, sync', B \ T)
    <3> HIDE DEF A, B
    <3>. QED BY <2>2, WithoutFacts
  <2>. QED BY <1>0, <2>1, <2>3 DEF ListsInv
<1>6. KeysInv' /\ TasksInv' /\ SizesInv'
  <2>1. KeysInv'
    BY <1>0 DEF KeysInv
  <2>. QED BY <1>0, <2>1 DEF TasksInv, SizesInv
<1>7. CountInv'
  <2>1. ASSUME NEW g \in Groups PROVE Used(g)' = Used(g)
    <3>1. \A b \in LiveIn(g, group[g].bds_per_group) : b \in Bds
      BY <1>0, LiveFacts
    <3>2. \A b \in Bds : bd'[b].state \in InUse <=> bd[b].state \in InUse
      BY <1>3 DEF InUse, Transferring
    <3>. QED BY <3>1, <3>2 DEF Used
  <2>. QED BY <1>0, <1>2, <2>1 DEF CountInv
<1>8. Moves
  <2>1. \A b \in T : <<bd[b].state, "TRANSFER">> \in Transitions
    BY <1>3, TransitionFacts
  <2>. QED BY <2>1 DEF Moves
<1>. QED BY <1>4, <1>5, <1>6, <1>7, <1>8 DEF Inv

\* The order in which the buffers are written
LEMMA WriteOrderFacts ==
  ASSUME Inv, NEW T, T \subseteq In({"SYNC"}) \cup In({"MODIFIED"}), NEW a, NEW o,
         a = Reverse(Only(sync \o modified, T)),
         o = Sorted(a, [i \in DOMAIN a |-> bd[a[i]].block])
  PROVE  IsList(Bds, o, T)
<1> DEFINE A == In({"MODIFIED"})
           B == In({"SYNC"})
<1>1. IsList(Bds, modified, A) /\ IsList(Bds, sync, B) /\ B \cap A = {} /\ (B \cup A) \cap T = T
  BY DEF Inv, ListsInv, In
<1> HIDE DEF A, B
<1>2. IsList(Bds, sync \o modified, B \cup A)
  <2>1. \A r, Y : IsList(Bds, r, Y) /\ B \cap Y = {} => IsList(Bds, sync \o r, B \cup Y)
    BY <1>1, ListOps
  <2>. QED BY <1>1, <2>1
<1> DEFINE C == B \cup A
           s == sync \o modified
<1>3. IsList(Bds, s, C) /\ C \cap T = T
  BY <1>1, <1>2
<1> HIDE DEF C, s
<1>4. IsList(Bds, Only(s, T), T)
  <2>1. IsList(Bds, Only(s, T), C \cap T)
    BY <1>3, OnlyFacts
  <2>. QED BY <1>3, <2>1
<1>5. IsList(Bds, a, T)
  <2>1. a = Reverse(Only(s, T))
    BY DEF s
  <2>. QED BY <1>4, <2>1, ReverseFacts
<1> DEFINE key == [i \in DOMAIN a |-> bd[a[i]].block]
<1>6. key \in [DOMAIN a -> Int]
  <2>1. a \in Seq(Bds) /\ bd \in BdFun
    BY <1>5 DEF IsList, Inv, TypeOK
  <2>2. \A i \in DOMAIN a : a[i] \in Bds
    BY <2>1, LenProperties, ElementOfSeq
  <2>3. \A i \in DOMAIN a : bd[a[i]].block \in Int
    BY <2>1, <2>2 DEF BdFun, BdRec
  <2>. QED BY <2>3
<1> HIDE DEF key
<1>7. o = Sorted(a, key)
  BY DEF key
<1>. QED BY <1>5, <1>6, <1>7, SortedFacts

\* rtems_bdbuf_swapout_processing gathers the buffers to write and hands them out.
LEMMA SwapoutProcessingStep ==
  ASSUME Inv, SwapoutProcessing
  PROVE  Good
<1> DEFINE p1 == Pick(sync, IF syncing.active THEN syncing.device ELSE NoDev, TRUE, FALSE)
           p2 == Pick(modified, p1.dd, syncing.active, swap.update)
           take == p1.bds \cup p2.bds
           arrived == Reverse(Only(sync \o modified, take))
           order == Sorted(arrived, [i \in DOMAIN arrived |-> bd[arrived[i]].block])
           wk == IF syncing.active \/ free_workers = <<>> THEN None ELSE Head(free_workers)
           aged == [b \in Bds |-> IF b \in DOMAIN p1.hold THEN [bd[b] EXCEPT !.hold = p1.hold[b]]
                                  ELSE IF b \in DOMAIN p2.hold THEN [bd[b] EXCEPT !.hold = p2.hold[b]]
                                  ELSE bd[b]]
           A == In({"MODIFIED"})
           B == In({"SYNC"})
<1>0. /\ TypeOK /\ RequestsInv /\ bd \in BdFun /\ free_workers \in Seq(Workers)
      /\ IsList(Bds, modified, A) /\ IsList(Bds, sync, B)
  BY DEF Inv, TypeOK, ListsInv
<1>1. /\ swap.pc = "run"
      /\ bd' = SetState(aged, take, "TRANSFER")
      /\ sync' = Without(sync, take)
      /\ modified' = Without(modified, take)
      /\ free_workers' = IF wk = None THEN free_workers ELSE Tail(free_workers)
      /\ worker' = IF wk # None /\ take # {}
                   THEN [worker EXCEPT ![wk] = [pc |-> "write", bds |-> order]] ELSE worker
      /\ swap' = IF take = {} THEN [swap EXCEPT !.pc = IF syncing.active THEN "endsync" ELSE "wait"]
                 ELSE IF wk # None THEN [swap EXCEPT !.update = FALSE]
                 ELSE [pc |-> "write", update |-> FALSE, bds |-> order]
      /\ UNCHANGED <<tree, lru, group, dev, disk, task, syncing, ahead, fatal, hist>>
  BY DEF SwapoutProcessing
<1>2. /\ p1.bds \subseteq B /\ DOMAIN p1.hold = B /\ \A b \in B : p1.hold[b] \in Int
  <2> DEFINE dd == IF syncing.active THEN syncing.device ELSE NoDev
  <2> HIDE DEF B, dd
  <2>. QED BY <1>0, PickFacts, ZenonT(60)
<1>3. /\ p2.bds \subseteq A /\ DOMAIN p2.hold = A /\ \A b \in A : p2.hold[b] \in Int
  <2> HIDE DEF A, p1
  <2>. QED BY <1>0, PickFacts
<1> HIDE DEF p1, p2
<1>4. take \subseteq B \cup A
  BY <1>2, <1>3
<1>5. aged \in BdFun /\ \A b \in Bds : aged[b].state = bd[b].state /\ aged[b].dd = bd[b].dd /\ aged[b].block = bd[b].block
  <2>1. ASSUME NEW b \in Bds
        PROVE  aged[b] \in BdRec /\ aged[b].state = bd[b].state /\ aged[b].dd = bd[b].dd /\ aged[b].block = bd[b].block
    <3>1. bd[b] \in BdRec
      BY <1>0 DEF BdFun
    <3>2. \E i \in Int : aged[b] = [bd[b] EXCEPT !.hold = i] \/ aged[b] = bd[b]
      <4>1. CASE b \in DOMAIN p1.hold
        BY <1>2, <4>1
      <4>2. CASE b \notin DOMAIN p1.hold /\ b \in DOMAIN p2.hold
        BY <1>3, <4>2
      <4>3. CASE b \notin DOMAIN p1.hold /\ b \notin DOMAIN p2.hold
        BY <4>3
      <4>. QED BY <4>1, <4>2, <4>3
    <3> HIDE DEF aged
    <3>. QED BY <3>1, <3>2 DEF BdRec
  <2>2. aged = [b \in Bds |-> aged[b]]
    OBVIOUS
  <2> HIDE DEF aged
  <2>. QED BY <2>1, <2>2 DEF BdFun
<1>6. PICK T, o, w : T = take /\ o = order /\ w = wk
  OBVIOUS
<1>7. T \subseteq B \cup A /\ IsList(Bds, o, T)
  <2>1. T \subseteq B \cup A
    BY <1>4, <1>6
  <2> DEFINE a == Reverse(Only(sync \o modified, T))
  <2>2. o = Sorted(a, [i \in DOMAIN a |-> bd[a[i]].block])
    BY <1>6
  <2> HIDE DEF a
  <2>. QED BY <2>1, <2>2, WriteOrderFacts DEF a
<1>8. /\ bd' = SetState(aged, T, "TRANSFER")
      /\ sync' = Without(sync, T)
      /\ modified' = Without(modified, T)
      /\ free_workers' = IF w = None THEN free_workers ELSE Tail(free_workers)
      /\ worker' = IF w # None /\ T # {}
                   THEN [worker EXCEPT ![w] = [pc |-> "write", bds |-> o]] ELSE worker
      /\ swap' = IF T = {} THEN [swap EXCEPT !.pc = IF syncing.active THEN "endsync" ELSE "wait"]
                 ELSE IF w # None THEN [swap EXCEPT !.update = FALSE]
                 ELSE [pc |-> "write", update |-> FALSE, bds |-> o]
  <2> HIDE DEF take, order, wk, aged
  <2>. QED BY <1>1, <1>6
<1>9. w # None => /\ free_workers # <<>> /\ w = Head(free_workers)
  BY <1>6
<1> HIDE DEF take, order, wk, aged, arrived
<1>10. /\ bd' \in BdFun
       /\ \A b \in Bds : /\ bd'[b].state = IF b \in T THEN "TRANSFER" ELSE bd[b].state
                         /\ bd'[b].dd = bd[b].dd /\ bd'[b].block = bd[b].block
  <2>1. "TRANSFER" \in States
    BY DEF States, Transferring
  <2>2. /\ SetState(aged, T, "TRANSFER") \in BdFun
        /\ \A b \in Bds :
              /\ SetState(aged, T, "TRANSFER")[b].state = IF b \in T THEN "TRANSFER" ELSE aged[b].state
              /\ SetState(aged, T, "TRANSFER")[b].dd = aged[b].dd
              /\ SetState(aged, T, "TRANSFER")[b].block = aged[b].block
    BY <1>5, <2>1, SetStateFacts
  <2>. QED BY <1>5, <1>8, <2>2
<1> DEFINE WorkerRec == [pc : {"idle", "write", "back"}, bds : Seq(Bds)]
           F == ToSet(free_workers)
<1>11. worker \in [Workers -> WorkerRec] /\ o \in Seq(Bds) /\ IsInjective(o) /\ ToSet(o) = T
       /\ swap.bds = <<>> /\ ToSet(<<>>) = {}
  BY <1>0, <1>1, <1>7, NoNodes DEF TypeOK, IsList, RequestsInv
<1>12. IsList(Workers, free_workers, F)
  BY <1>0 DEF IsList, RequestsInv
<1>13. w # None => /\ w \in Workers /\ w \in F /\ worker[w].pc = "idle" /\ worker[w].bds = <<>>
                   /\ IsList(Workers, Tail(free_workers), F \ {w})
  <2>1. w # None => w \in F /\ IsList(Workers, Tail(free_workers), F \ {w}) /\ F \subseteq Workers
    <3> HIDE DEF F
    <3> DEFINE s == free_workers
    <3>0. IsList(Workers, s, F)
      BY <1>12
    <3> HIDE DEF s
    <3>1. s # <<>> => Head(s) \in F /\ IsList(Workers, Tail(s), F \ {Head(s)})
      BY <3>0, ListOps
    <3>2. F \subseteq Workers
      BY <3>0, ListOps
    <3>. QED BY <1>9, <3>1, <3>2 DEF s
  <2>2. w \in F => worker[w].pc = "idle"
    BY <1>0 DEF RequestsInv
  <2>3. w \in F /\ w \in Workers => worker[w].bds = <<>>
    BY <1>0, <2>2 DEF RequestsInv
  <2>. QED BY <2>1, <2>2, <2>3
<1>14. /\ free_workers' \in Seq(Workers) /\ IsInjective(free_workers') /\ ToSet(free_workers') \subseteq F
       /\ w # None => w \notin ToSet(free_workers')
  <2>1. CASE w = None
    BY <1>8, <1>12, <2>1 DEF IsList
  <2>2. CASE w # None
    BY <1>8, <1>13, <2>2 DEF IsList
  <2>. QED BY <2>1, <2>2
<1>15. /\ worker' \in [Workers -> WorkerRec]
       /\ w # None /\ T # {} => worker'[w].pc = "write" /\ worker'[w].bds = o
       /\ \A v \in Workers : (v = w /\ T # {}) \/ worker'[v] = worker[v]
  <2> DEFINE y == [pc |-> "write", bds |-> o]
  <2>1. y \in WorkerRec /\ y.pc = "write" /\ y.bds = o
    BY <1>11
  <2>2. worker' = IF w # None /\ T # {} THEN [worker EXCEPT ![w] = y] ELSE worker
    BY <1>8
  <2> HIDE DEF y
  <2>3. CASE w # None /\ T # {}
    BY <1>11, <1>13, <2>1, <2>2, <2>3
  <2>4. CASE ~(w # None /\ T # {})
    BY <1>11, <2>2, <2>4, BdbufAssumption
  <2>. QED BY <2>3, <2>4
<1>16. /\ swap' \in [pc : {"run", "write", "endsync", "wait", "einval"}, update : {swap'.update}, bds : Seq(Bds)]
       /\ \/ T # {} /\ w = None /\ swap'.bds = o /\ swap'.pc = "write"
          \/ (T = {} \/ w # None) /\ swap'.bds = <<>>
  <2>1. swap \in [pc : {"run", "write", "endsync", "wait", "einval"}, update : {swap.update}, bds : Seq(Bds)]
    BY <1>0 DEF TypeOK
  <2>2. CASE T = {}
    <3>1. PICK q \in {"endsync", "wait", "einval"} : swap' = [swap EXCEPT !.pc = q]
      BY <1>8, <2>2
    <3>2. q \in {"run", "write", "endsync", "wait", "einval"}
      BY <3>1
    <3>3. /\ swap' \in [pc : {"run", "write", "endsync", "wait", "einval"}, update : {swap'.update}, bds : Seq(Bds)]
          /\ swap'.bds = swap.bds
      BY <2>1, <3>1, <3>2, Zenon
    <3>. QED BY <1>11, <2>2, <3>3
  <2>3. CASE T # {} /\ w # None
    <3>1. swap' = [swap EXCEPT !.update = FALSE]
      BY <1>8, <2>3
    <3>2. /\ swap' \in [pc : {"run", "write", "endsync", "wait", "einval"}, update : {swap'.update}, bds : Seq(Bds)]
          /\ swap'.bds = swap.bds
      BY <2>1, <3>1, Zenon
    <3>. QED BY <1>11, <2>3, <3>2
  <2>4. CASE T # {} /\ w = None
    <3>1. swap' = [pc |-> "write", update |-> FALSE, bds |-> o]
      BY <1>8, <2>4
    <3>. QED BY <1>11, <2>4, <3>1
  <2>. QED BY <2>2, <2>3, <2>4
<1>17. TypeOK'
  <2>1. bd' \in BdFun /\ worker' \in [Workers -> WorkerRec] /\ free_workers' \in Seq(Workers)
    BY <1>10, <1>14, <1>15
  <2>. QED BY <1>0, <1>1, <1>16, <2>1 DEF TypeOK
<1>18. RequestsInv'
  <2>1. \A v \in Workers : IsInjective(worker'[v].bds) /\ (worker'[v].pc # "write" => worker'[v].bds = <<>>)
    <3>. SUFFICES ASSUME NEW v \in Workers
                  PROVE  IsInjective(worker'[v].bds) /\ (worker'[v].pc # "write" => worker'[v].bds = <<>>)
      OBVIOUS
    <3>1. w = v => w # None
      BY BdbufAssumption
    <3>. QED BY <1>0, <1>11, <1>15, <3>1 DEF RequestsInv
  <2>2. \A v \in ToSet(free_workers') : worker'[v].pc = "idle"
    <3>1. \A v \in F : v \in Workers /\ worker[v].pc = "idle"
      BY <1>0, ListFacts DEF RequestsInv
    <3>2. \A v \in ToSet(free_workers') : v # w
      <4>1. \A v \in ToSet(free_workers') : v # None
        BY <1>14, <3>1, BdbufAssumption
      <4>. QED BY <1>14, <4>1
    <3>. QED BY <1>14, <1>15, <3>1, <3>2
  <2>3. IsInjective(swap'.bds) /\ (swap'.pc # "write" => swap'.bds = <<>>)
    BY <1>0, <1>11, <1>16 DEF RequestsInv
  <2>. QED BY <1>0, <1>1, <1>14, <2>1, <2>2, <2>3 DEF RequestsInv
<1>19. PICK h : h = IF w = None THEN "swapout" ELSE w
  OBVIOUS
<1>20. \A b \in Bds : Drivers(b)' = Drivers(b) \cup (IF b \in T THEN {h} ELSE {})
  <2>1. \A b : Readers(b)' = Readers(b)
    BY <1>1 DEF Readers
  <2> DEFINE P(b) == IF b \in ToSet(ahead.req) THEN {"ahead"} ELSE {}
             Q(b) == IF b \in ToSet(swap'.bds) THEN {"swapout"} ELSE {}
  <2>2. \A b : Drivers(b) = Readers(b) \cup Writers(b) \cup P(b)
    BY <1>11, DriversSplit
  <2>3. \A b : Drivers(b)' = Readers(b) \cup Writers(b)' \cup Q(b) \cup P(b)
    BY <1>1, <2>1, DriversSplit
  <2>4. CASE w = None
    <3>1. \A v \in Workers : worker'[v] = worker[v]
      BY <1>15, <2>4, BdbufAssumption
    <3>2. \A b : Writers(b)' = Writers(b)
      BY <3>1 DEF Writers
    <3>3. \A b : b \in ToSet(swap'.bds) <=> b \in T
      BY <1>11, <1>16, <2>4
    <3>4. \A b : Q(b) = IF b \in T THEN {h} ELSE {}
      BY <1>19, <2>4, <3>3
    <3> HIDE DEF P, Q
    <3>. QED BY <2>2, <2>3, <3>2, <3>4
  <2>5. CASE w # None
    <3>1. \A b : Q(b) = {}
      BY <1>11, <1>16, <2>5
    <3>2. \A b : w \notin Writers(b)
      BY <1>11, <1>13, <2>5 DEF Writers
    <3>3. \A b : w \in Writers(b)' <=> b \in T
      BY <1>11, <1>13, <1>15, <2>5 DEF Writers
    <3>4. \A b : \A v : v # w => (v \in Writers(b)' <=> v \in Writers(b))
      BY <1>15 DEF Writers
    <3>5. h = w
      BY <1>19, <2>5
    <3>6. \A b : Writers(b)' = Writers(b) \cup (IF b \in T THEN {h} ELSE {})
      BY <3>2, <3>3, <3>4, <3>5
    <3> HIDE DEF P, Q
    <3>. QED BY <2>2, <2>3, <3>1, <3>6
  <2>. QED BY <2>4, <2>5
<1>21. Inv' /\ Moves
  BY <1>1, <1>7, <1>8, <1>10, <1>17, <1>18, <1>20, GatherStep DEF A, B
<1>. QED BY <1>1, <1>21, GoodStep

\* Purging: buffers S are discarded, U and R marked.
PurgedBd(t, f, S, U, R) ==
    SetState(SetState(Discard(t, f, S), U, "ACCESS_PURGED"), R, "TRANSFER_PURGED")

\* A purge keeps the type of the buffers.
LEMMA PurgedType ==
  ASSUME NEW t, NEW f \in BdFun, NEW S, NEW U, NEW R
  PROVE  PurgedBd(t, f, S, U, R) \in BdFun
<1>0. "ACCESS_PURGED" \in States /\ "TRANSFER_PURGED" \in States
  BY DEF States, Access, Transferring
<1>1. Discard(t, f, S) \in BdFun
  BY DiscardFacts
<1>2. SetState(Discard(t, f, S), U, "ACCESS_PURGED") \in BdFun
  BY <1>0, <1>1, SetStateFacts
<1>. QED BY <1>0, <1>2, SetStateFacts DEF PurgedBd

\* What a purge makes of each buffer of the device, by its state.
LEMMA PurgedFacts ==
  ASSUME NEW t, NEW f \in BdFun, NEW S, NEW U, NEW R, S \cap U = {}, S \cap R = {}, U \cap R = {},
         NEW e, e = PurgedBd(t, f, S, U, R)
  PROVE  \A b \in Bds : /\ e[b].dd = f[b].dd /\ e[b].block = f[b].block /\ e[b].val = f[b].val
                        /\ b \in S \/ b \in U \/ b \in R \/ e[b].state = f[b].state
                        /\ b \notin S \/ ~Waited(t, b) \/ e[b].state = "EMPTY"
                        /\ b \notin S \/ Waited(t, b) \/ e[b].state = "FREE"
                        /\ b \notin U \/ e[b].state = "ACCESS_PURGED"
                        /\ b \notin R \/ e[b].state = "TRANSFER_PURGED"
<1>0. "ACCESS_PURGED" \in States /\ "TRANSFER_PURGED" \in States
  BY DEF States, Access, Transferring
<1> DEFINE i == Discard(t, f, S)
           j == SetState(i, U, "ACCESS_PURGED")
           k == SetState(j, R, "TRANSFER_PURGED")
<1>1. /\ i \in BdFun
      /\ \A b \in Bds : /\ i[b].dd = f[b].dd /\ i[b].block = f[b].block /\ i[b].val = f[b].val
                        /\ b \in S \/ i[b].state = f[b].state
                        /\ b \notin S \/ ~Waited(t, b) \/ i[b].state = "EMPTY"
                        /\ b \notin S \/ Waited(t, b) \/ i[b].state = "FREE"
  BY DiscardFacts
<1> HIDE DEF i
<1>2. /\ j \in BdFun
      /\ \A b \in Bds : /\ j[b].state = IF b \in U THEN "ACCESS_PURGED" ELSE i[b].state
                        /\ j[b].dd = i[b].dd /\ j[b].block = i[b].block /\ j[b].val = i[b].val
  BY <1>0, <1>1, SetStateFacts
<1> HIDE DEF j
<1>3. /\ k \in BdFun
      /\ \A b \in Bds : /\ k[b].state = IF b \in R THEN "TRANSFER_PURGED" ELSE j[b].state
                        /\ k[b].dd = j[b].dd /\ k[b].block = j[b].block /\ k[b].val = j[b].val
  BY <1>0, <1>2, SetStateFacts
<1>4. e = k
  BY DEF PurgedBd, i, j
<1> HIDE DEF k
<1>. QED BY <1>1, <1>2, <1>3, <1>4

\* Whatever order the buffers are found in, a purge keeps the invariant.
LEMMA PurgeDevStep ==
  ASSUME Inv, NEW t \in Tasks, Apart(task[t]), NEW d \in Devs, NEW s \in PurgeOrders(d),
         NEW tk \in TaskFun, \A u \in Tasks \ {t} : tk[u] = task[u], tk[t].pc = "idle",
         PurgeDev(t, d, s, tk), dev' \in DevFun, HistRec(hist'), hist'.orphan = hist.orphan,
         \/ hist'.resized
         \/ /\ hist'.resized = hist.resized
            /\ \A e \in Devs : dev'[e].bds_per_group = dev[e].bds_per_group
  PROVE  Good
<1> DEFINE mine(st) == {b \in tree : bd[b].dd = d /\ bd[b].state \in st}
<1>0. /\ TypeOK /\ ListsInv /\ KeysInv /\ TasksInv /\ RequestsInv /\ SizesInv
      /\ bd \in BdFun /\ group \in GroupFun /\ tree \subseteq Bds /\ AheadRec(ahead)
      /\ \A b \in Bds : BufferInv(b)
  BY DEF Inv, TypeOK, AheadRec
<1>1. PICK S, U, R, X : /\ S = mine({"SYNC", "MODIFIED", "CACHED"})
                        /\ U = mine({"ACCESS_CACHED", "ACCESS_EMPTY", "ACCESS_MODIFIED"})
                        /\ R = mine({"TRANSFER"})
                        /\ X = mine({"SYNC", "MODIFIED"})
  OBVIOUS
<1>2. /\ \A b : b \in S <=> b \in tree /\ bd[b].dd = d /\ bd[b].state \in {"SYNC", "MODIFIED", "CACHED"}
      /\ \A b : b \in U <=> b \in tree /\ bd[b].dd = d
                            /\ bd[b].state \in {"ACCESS_CACHED", "ACCESS_EMPTY", "ACCESS_MODIFIED"}
      /\ \A b : b \in R <=> b \in tree /\ bd[b].dd = d /\ bd[b].state = "TRANSFER"
      /\ \A b : b \in X <=> b \in tree /\ bd[b].dd = d /\ bd[b].state \in {"SYNC", "MODIFIED"}
  BY <1>1
<1>3. IsFiniteSet(Bds) /\ S \in SUBSET Bds /\ X \in SUBSET Bds
  BY <1>0, <1>2, GroupFacts
<1>4. IsFiniteSet(S) /\ IsFiniteSet(X)
  BY <1>3, FS_Subset
<1>5. IsList(Bds, s, S) /\ ToSet(s) = S
  <2>1. s \in SetToSeqs(S)
    BY <1>1 DEF PurgeOrders
  <2>2. IsList(Bds, s, S)
    BY <1>3, <1>4, <2>1, SetToSeqsFacts
  <2>. QED BY <2>2 DEF IsList
<1>6. S \cap U = {} /\ S \cap R = {} /\ U \cap R = {}
  BY <1>2
<1> DEFINE cvs == (IF {b \in {b \in tree : bd[b].dd = d} : bd[b].state \in {"SYNC"}} # {} THEN {"transfer"} ELSE {})
                        \cup (IF Unwaited(t, ToSet(s)) # {} THEN {"buffer"} ELSE {})
<1>7. /\ bd' = PurgedBd(t, bd, S, U, R)
      /\ tree' = tree \ Unwaited(t, S)
      /\ lru' = DiscardLru(t, s) \o Without(lru, S)
      /\ modified' = Without(modified, S)
      /\ sync' = Without(sync, S)
      /\ group' = [g \in Groups |-> [group[g] EXCEPT
                       !.users = @ - Cardinality({b \in X : GroupOf(b) = g})]]
      /\ task' = Woken(cvs, tk)
      /\ ahead' = Cancelled(ahead, d)
      /\ UNCHANGED <<disk, swap, worker, free_workers, syncing, fatal>>
  <2> DEFINE m == {b \in tree : bd[b].dd = d}
  <2>1. /\ {b \in m : bd[b].state \in {"ACCESS_CACHED", "ACCESS_EMPTY", "ACCESS_MODIFIED"}} = U
        /\ {b \in m : bd[b].state \in {"TRANSFER"}} = R
        /\ {b \in m : bd[b].state \in {"SYNC", "MODIFIED"}} = X
    BY <1>2
  <2>. QED BY <1>5, <2>1 DEF PurgeDev, PurgedBd, io
<1> HIDE DEF cvs
<1>8. /\ bd' \in BdFun
      /\ \A b \in Bds : /\ bd'[b].dd = bd[b].dd /\ bd'[b].block = bd[b].block
                        /\ b \in S \/ b \in U \/ b \in R \/ bd'[b].state = bd[b].state
                        /\ b \notin S \/ ~Waited(t, b) \/ bd'[b].state = "EMPTY"
                        /\ b \notin S \/ Waited(t, b) \/ bd'[b].state = "FREE"
                        /\ b \notin U \/ bd'[b].state = "ACCESS_PURGED"
                        /\ b \notin R \/ bd'[b].state = "TRANSFER_PURGED"
  <2>1. bd' = PurgedBd(t, bd, S, U, R) /\ bd \in BdFun
    BY <1>0, <1>7
  <2>0. PICK e : e = PurgedBd(t, bd, S, U, R)
    OBVIOUS
  <2>2. e \in BdFun
    BY <2>0, <2>1, PurgedType
  <2>3. \A b \in Bds : /\ e[b].dd = bd[b].dd /\ e[b].block = bd[b].block
                       /\ b \in S \/ b \in U \/ b \in R \/ e[b].state = bd[b].state
                       /\ b \notin S \/ ~Waited(t, b) \/ e[b].state = "EMPTY"
                       /\ b \notin S \/ Waited(t, b) \/ e[b].state = "FREE"
                       /\ b \notin U \/ e[b].state = "ACCESS_PURGED"
                       /\ b \notin R \/ e[b].state = "TRANSFER_PURGED"
    BY <1>6, <2>0, <2>1, PurgedFacts
  <2>4. bd' = e
    BY <2>0, <2>1
  <2>. QED BY <2>2, <2>3, <2>4
<1>9. \A b : Waited(t, b) <=> Waiting(b) # {}
  BY DEF Waited, Waiting, Apart
<1>10. /\ task' \in TaskFun
       /\ \A u \in Tasks : task'[u].pc = tk[u].pc /\ task'[u].bd = tk[u].bd /\ task'[u].dd = tk[u].dd
  BY <1>7, WokenFacts
<1>11. HandsKept
  <2>1. Apart(task'[t])
    BY <1>10 DEF Apart, OwnPc, BdWait
  <2>. QED BY <1>10, <2>1 DEF HandsKept
<1>12. /\ \A b : Owners(b)' = Owners(b) /\ Waiting(b)' = Waiting(b)
       /\ \A b : Readers(b)' = Readers(b)
       /\ \A g : Sleepers(g)' = Sleepers(g)
  BY <1>11, HandsFrame
<1>13. AheadRec(ahead') /\ SameAhead(ahead', ahead)
  BY <1>0, <1>7, CancelledFacts
<1>14. \A b : Drivers(b)' = Drivers(b)
  <2>1. \A b : Writers(b)' = Writers(b)
    BY <1>7 DEF Writers
  <2>2. swap'.bds = swap.bds /\ ahead'.req = ahead.req
    BY <1>7, <1>13 DEF SameAhead
  <2>. QED BY <1>12, <2>1, <2>2, DriversSplit
<1>15. /\ group' \in GroupFun
       /\ \A g \in Groups :
              /\ group'[g].bds_per_group = group[g].bds_per_group
              /\ group'[g].users = group[g].users - Cardinality({b \in X : GroupOf(b) = g})
  <2> DEFINE n(g) == Cardinality({b \in X : GroupOf(b) = g})
             q(g) == [group[g] EXCEPT !.users = group[g].users - n(g)]
  <2>1. \A g : n(g) \in Nat
    <3>. TAKE g
    <3> DEFINE Y == {b \in X : GroupOf(b) = g}
    <3>1. Y \in SUBSET X
      OBVIOUS
    <3> HIDE DEF Y
    <3>2. IsFiniteSet(Y)
      BY <1>4, <3>1, FS_Subset
    <3>3. Cardinality(Y) \in Nat
      BY <3>2, FS_CardinalityType
    <3>. QED BY <3>3 DEF Y
  <2>2. group' = [g \in Groups |-> q(g)]
    BY <1>7
  <2> HIDE DEF n
  <2>3. \A g \in Groups : group[g] \in [bds_per_group : 1 .. MaxBdsPerGroup, users : Int]
    BY <1>0 DEF GroupFun
  <2>4. \A g \in Groups : /\ q(g) \in [bds_per_group : 1 .. MaxBdsPerGroup, users : Int]
                          /\ q(g).users = group[g].users - n(g) /\ q(g).bds_per_group = group[g].bds_per_group
    BY <2>1, <2>3
  <2> HIDE DEF q
  <2>. QED BY <2>2, <2>4 DEF GroupFun, n
<1>16. Live' = Live /\ Live \subseteq Bds
  BY <1>0, <1>15, LiveFrame, LiveFacts
<1>17. \A b : b \in tree' <=> b \in tree /\ (b \notin S \/ Waiting(b) # {})
  BY <1>7, <1>9, UnwaitedFacts
<1>18. TypeOK'
  <2>1. tree' \in SUBSET Bds
    BY <1>0, <1>17
  <2>. QED BY <1>0, <1>7, <1>8, <1>10, <1>13, <1>15, <2>1 DEF TypeOK, AheadRec, HistRec
<1>19. TasksInv'
  <2>1. task'[t].pc \notin OwnPc \cup BdWait \cup {"reading"}
    BY <1>10 DEF OwnPc, BdWait
  <2>. QED BY <1>0, <1>10, <2>1 DEF TasksInv
<1>20. RequestsInv'
  BY <1>0, <1>7, <1>13 DEF RequestsInv, SameAhead
<1>21. SizesInv'
  <2>1. \A u \in Tasks : task'[u].pc \in {"rec", "search"} => task[u].pc \in {"rec", "search"}
    BY <1>10
  <2>. QED BY <1>0, <1>15, <2>1 DEF SizesInv
<1>22. KeysInv'
  BY <1>0, <1>8, <1>17 DEF KeysInv
<1>23. \A b \in tree : b \in Bds /\ b \in Live /\ bd[b].state # "FREE" /\ bd[b].dd \in Devs
  BY <1>0 DEF BufferInv
<1>24. ASSUME NEW b \in Bds PROVE BufferInv(b)'
  <2>0. BufferInv(b) /\ Owners(b)' = Owners(b) /\ Waiting(b)' = Waiting(b) /\ Drivers(b)' = Drivers(b)
        /\ (b \in Live' <=> b \in Live) /\ bd'[b].dd = bd[b].dd
    BY <1>0, <1>8, <1>12, <1>14, <1>16
  <2>1. CASE b \in S
    <3>1. b \in tree /\ b \in Live /\ bd[b].dd \in Devs /\ bd[b].state \in {"SYNC", "MODIFIED", "CACHED"}
      BY <1>2, <1>23, <2>1
    <3>2. Drivers(b) = {} /\ Owners(b) = {}
      BY <2>0, <3>1 DEF BufferInv, Access, AtDriver
    <3>3. CASE Waiting(b) # {}
      <4>1. bd'[b].state = "EMPTY" /\ b \in tree'
        BY <1>8, <1>9, <1>17, <2>1, <3>1, <3>3
      <4>. QED BY <2>0, <3>1, <3>2, <3>3, <4>1 DEF BufferInv, Access, AtDriver
    <3>4. CASE Waiting(b) = {}
      <4>1. bd'[b].state = "FREE" /\ b \notin tree'
        BY <1>8, <1>9, <1>17, <2>1, <3>1, <3>4
      <4>. QED BY <2>0, <3>1, <3>2, <3>4, <4>1 DEF BufferInv, Access, AtDriver
    <3>. QED BY <3>3, <3>4
  <2>2. CASE b \in U
    <3>1. b \in tree /\ b \in Live /\ bd[b].dd \in Devs /\ bd[b].state \in Access
      BY <1>2, <1>23, <2>2 DEF Access
    <3>2. bd'[b].state = "ACCESS_PURGED" /\ b \in tree'
      BY <1>6, <1>8, <1>17, <2>2, <3>1
    <3>3. Drivers(b) = {} /\ \E u \in Tasks : Owners(b) = {u}
      BY <2>0, <3>1 DEF BufferInv
    <3>. QED BY <2>0, <3>1, <3>2, <3>3 DEF BufferInv, Access, AtDriver
  <2>3. CASE b \in R
    <3>1. b \in tree /\ b \in Live /\ bd[b].dd \in Devs /\ bd[b].state \in AtDriver
      BY <1>2, <1>23, <2>3 DEF AtDriver
    <3>2. bd'[b].state = "TRANSFER_PURGED" /\ b \in tree'
      BY <1>6, <1>8, <1>17, <2>3, <3>1
    <3>3. Owners(b) = {} /\ \E h : Drivers(b) = {h}
      BY <2>0, <3>1 DEF BufferInv
    <3>. QED BY <2>0, <3>1, <3>2, <3>3 DEF BufferInv, Access, AtDriver
  <2>4. CASE b \notin S /\ b \notin U /\ b \notin R
    <3>1. bd'[b].state = bd[b].state /\ (b \in tree' <=> b \in tree)
      BY <1>8, <1>17, <2>4
    <3>2. SameBuffer(b)
      BY <2>0, <3>1 DEF SameBuffer
    <3>. QED BY <2>0, <3>2, BufferFrame
  <2>. QED BY <2>1, <2>2, <2>3, <2>4
<1>25. \A b \in S : bd'[b].state \in {"EMPTY", "FREE"} /\ (bd'[b].state = "FREE" <=> b \in Unwaited(t, S))
  <2>1. \A b \in S : b \in Bds
    BY <1>3
  <2>2. \A b : b \in Unwaited(t, S) <=> b \in S /\ ~Waited(t, b)
    BY UnwaitedFacts
  <2>. QED BY <1>8, <2>1, <2>2
<1>26. ListsInv'
  <2> DEFINE L == In({"FREE", "CACHED"})
             M == In({"MODIFIED"})
             Y == In({"SYNC"})
             W == Unwaited(t, S)
  <2>0. W \subseteq S
    BY UnwaitedFacts
  <2>1. In({"FREE", "CACHED"})' = W \cup (L \ S)
    BY <1>2, <1>8, <1>16, <1>23, <1>25, <2>0 DEF In
  <2>2. In({"MODIFIED"})' = M \ S /\ In({"SYNC"})' = Y \ S
    BY <1>2, <1>8, <1>16, <1>25 DEF In
  <2>3. IsList(Bds, lru, L) /\ IsList(Bds, modified, M) /\ IsList(Bds, sync, Y)
    BY <1>0 DEF ListsInv
  <2>4. IsList(Bds, DiscardLru(t, s), W)
    BY <1>5, UnwaitedFacts
  <2> HIDE DEF L, M, Y, W
  <2>5. IsList(Bds, modified', M \ S) /\ IsList(Bds, sync', Y \ S)
    BY <1>7, <2>3, WithoutFacts
  <2>6. IsList(Bds, lru', W \cup (L \ S))
    <3> DEFINE k == DiscardLru(t, s)
               l == Without(lru, S)
               E == L \ S
    <3>1. IsList(Bds, l, E) /\ IsList(Bds, k, W) /\ W \cap E = {} /\ lru' = k \o l
      BY <1>7, <2>0, <2>3, <2>4, WithoutFacts
    <3> HIDE DEF k, l, E
    <3>2. \A r, Z : IsList(Bds, r, Z) /\ W \cap Z = {} => IsList(Bds, k \o r, W \cup Z)
      BY <3>1, ListOps
    <3>3. IsList(Bds, lru', W \cup E)
      BY <3>1, <3>2
    <3>. QED BY <3>3 DEF E
  <2>. QED BY <2>1, <2>2, <2>5, <2>6 DEF ListsInv
<1>27. CountInv'
  <2>1. X \subseteq Live
    BY <1>2, <1>23
  <2>2. \A b \in X : bd[b].state \in InUse /\ bd'[b].state \notin InUse
    <3>1. \A b \in X : b \in S /\ bd[b].state \in {"SYNC", "MODIFIED"}
      BY <1>2
    <3>. QED BY <1>25, <3>1 DEF InUse, Access, Transferring
  <2>3. \A b \in Bds \ X : bd'[b].state \in InUse <=> bd[b].state \in InUse
    <3>. TAKE b \in Bds \ X
    <3>1. CASE b \in S
      <4>1. bd[b].state = "CACHED"
        BY <1>2, <3>1
      <4>. QED BY <1>25, <3>1, <4>1 DEF InUse, Access, Transferring
    <3>2. CASE b \in U
      BY <1>2, <1>8, <3>2 DEF InUse, Access
    <3>3. CASE b \in R
      BY <1>2, <1>8, <3>3 DEF InUse, Transferring
    <3>4. CASE b \notin S /\ b \notin U /\ b \notin R
      BY <1>8, <3>4
    <3>. QED BY <3>1, <3>2, <3>3, <3>4
  <2>. QED BY <1>4, <1>12, <1>15, <2>1, <2>2, <2>3, CountOut
<1>28. Moves
  <2>. SUFFICES ASSUME NEW b \in Bds
                PROVE  bd'[b].state = bd[b].state \/ <<bd[b].state, bd'[b].state>> \in Transitions
    BY DEF Moves
  <2>1. CASE b \in S
    <3>1. bd[b].state \in {"SYNC", "MODIFIED", "CACHED"} /\ bd'[b].state \in {"EMPTY", "FREE"}
      BY <1>2, <1>25, <2>1
    <3>. QED BY <3>1, TransitionFacts
  <2>2. CASE b \in U
    <3>1. bd[b].state \in {"ACCESS_CACHED", "ACCESS_EMPTY", "ACCESS_MODIFIED"} /\ bd'[b].state = "ACCESS_PURGED"
      BY <1>2, <1>8, <2>2
    <3>. QED BY <3>1, TransitionFacts
  <2>3. CASE b \in R
    <3>1. bd[b].state = "TRANSFER" /\ bd'[b].state = "TRANSFER_PURGED"
      BY <1>2, <1>8, <2>3
    <3>. QED BY <3>1, TransitionFacts
  <2>4. CASE b \notin S /\ b \notin U /\ b \notin R
    BY <1>8, <2>4
  <2>. QED BY <2>1, <2>2, <2>3, <2>4
<1>29. Inv'
  BY <1>18, <1>19, <1>20, <1>21, <1>22, <1>24, <1>26, <1>27 DEF Inv
<1>. QED BY <1>7, <1>28, <1>29, GoodStep

\* rtems_bdbuf_purge_dev.
LEMMA PurgeStep ==
  ASSUME Inv, NEW t \in Tasks, NEW d \in Devs, Purge(t, d)
  PROVE  Good
<1>0. TypeOK /\ task \in TaskFun /\ dev \in DevFun /\ NoTrigger \in Int /\ HistRec(hist)
  BY DEF Inv, TypeOK, NoTrigger, HistRec
<1>1. PICK s \in PurgeOrders(d) : PurgeDev(t, d, s, task)
  BY DEF Purge
<1>2. /\ task[t].pc = "idle" /\ dev' = [dev EXCEPT ![d].trigger = NoTrigger]
      /\ hist' = [hist EXCEPT !.lost = @ \cup GivenUp(d)]
  BY DEF Purge
<1>3. dev' \in DevFun /\ \A e \in Devs : dev'[e].bds_per_group = dev[e].bds_per_group
  BY <1>0, <1>2, SetTriggerFacts
<1>4. HistRec(hist') /\ hist'.orphan = hist.orphan /\ hist'.resized = hist.resized
  BY <1>0, <1>2, Zenon DEF HistRec
<1>5. Apart(task[t])
  BY <1>2 DEF Apart, OwnPc, BdWait
<1>. QED BY <1>0, <1>1, <1>2, <1>3, <1>4, <1>5, PurgeDevStep

\* rtems_bdbuf_set_block_size: the new size, and the purge.
LEMMA SetBlockSizeStep ==
  ASSUME Inv, NEW t \in Tasks, NEW n \in 1 .. MaxBdsPerGroup, SetBlockSize(t, n)
  PROVE  Good
<1>0. TypeOK /\ task \in TaskFun /\ dev \in DevFun /\ NoTrigger \in Int /\ HistRec(hist) /\ TasksInv
  BY DEF Inv, TypeOK, NoTrigger, HistRec
<1>00. task[t].pc = "resize" /\ task[t].dd \in Devs /\ task[t] \in TaskRec
  <2>1. task[t].pc = "resize"
    BY DEF SetBlockSize
  <2>. QED BY <1>0, <2>1 DEF TasksInv, TaskFun
<1>1. PICK d \in Devs : d = task[t].dd
  BY <1>00
<1> DEFINE k == [task EXCEPT ![t] = Idle(task[t])]
<1>2. PICK s \in PurgeOrders(d) : PurgeDev(t, d, s, k)
  BY <1>1 DEF SetBlockSize
<1>3. PICK tk : tk = k
  OBVIOUS
<1>4. tk \in TaskFun /\ tk[t].pc = "idle" /\ \A u \in Tasks \ {t} : tk[u] = task[u]
  <2> DEFINE r == Idle(task[t])
  <2>1. r \in TaskRec /\ r.pc = "idle"
    BY <1>00, IdleFacts
  <2>2. tk = [task EXCEPT ![t] = r]
    BY <1>3
  <2> HIDE DEF r
  <2>. QED BY <1>0, <2>1, <2>2 DEF TaskFun
<1>5. PurgeDev(t, d, s, tk)
  BY <1>2, <1>3
<1>6. dev' \in DevFun
  <2> DEFINE v == [dev[d] EXCEPT !.trigger = NoTrigger, !.bds_per_group = n]
  <2>1. v \in DevRec
    BY <1>0 DEF DevFun, DevRec
  <2>2. dev' = [dev EXCEPT ![d] = v]
    BY <1>1 DEF SetBlockSize
  <2> HIDE DEF v
  <2>. QED BY <1>0, <2>1, <2>2 DEF DevFun, DevRec
<1>7. HistRec(hist') /\ hist'.orphan = hist.orphan /\ hist'.resized
  <2> DEFINE o == hist.stale \cup {u \in Tasks : task[u].cv = "buffer" /\ task[u].dd = task[t].dd}
  <2>1. hist' = [hist EXCEPT !.resized = TRUE, !.stale = o]
    BY DEF SetBlockSize
  <2> HIDE DEF o
  <2>2. HistRec(hist') /\ hist'.orphan = hist.orphan /\ hist'.resized = TRUE
    BY <1>0, <2>1, Zenon DEF HistRec
  <2>. QED BY <2>2
<1>8. Apart(task[t])
  BY <1>00 DEF Apart, OwnPc, BdWait
<1> HIDE DEF k
<1>. QED BY <1>4, <1>5, <1>6, <1>7, <1>8, PurgeDevStep

\* The initial state
LEMMA InitInv ==
  ASSUME Init
  PROVE  Inv /\ SyncInv /\ ~fatal
<1>1. /\ bd = [b \in Bds |-> [state |-> "FREE", dd |-> NoDev, block |-> 0, hold |-> 0,
                              val |-> [i \in 0 .. MaxBdsPerGroup - 1 |-> 0]]]
      /\ tree = {} /\ modified = <<>> /\ sync = <<>> /\ lru = Ascending(Bds)
      /\ group = [g \in Groups |-> [bds_per_group |-> MaxBdsPerGroup, users |-> 0]]
      /\ dev = [d \in Devs |-> [bds_per_group |-> MaxBdsPerGroup, trigger |-> NoTrigger,
                                next |-> 0, nr_blocks |-> AutoSize]]
      /\ disk = [d \in Devs |-> [m \in 0 .. MediaBlocks - 1 |-> 0]]
      /\ task = [t \in Tasks |-> [pc |-> "idle", op |-> "none", dd |-> NoDev, block |-> 0, media |-> 0,
                                  bd |-> -1, cv |-> "none"]]
      /\ swap = [pc |-> "run", update |-> TRUE, bds |-> <<>>]
      /\ worker = [w \in Workers |-> [pc |-> "idle", bds |-> <<>>]]
      /\ free_workers = SetToSeq(Workers)
      /\ syncing = [active |-> FALSE, device |-> NoDev, requester |-> None, lock |-> None]
      /\ ahead = [pc |-> "wait", sem |-> 0, chain |-> <<>>, dd |-> NoDev, count |-> 0, req |-> <<>>]
      /\ fatal = FALSE
      /\ hist = [latest |-> disk, lost |-> {}, version |-> 0, orphan |-> FALSE, resized |-> FALSE,
                 pending |-> {}, stale |-> {}]
  BY DEF Init
<1>2. MaxBdsPerGroup \in 1 .. MaxBdsPerGroup /\ 0 \in Int /\ -1 \in Int /\ NoTrigger \in Int /\ AutoSize \in Int
  BY BdbufAssumption DEF NoTrigger, AutoSize
<1>3. /\ <<>> \in Seq(Bds) /\ <<>> \in Seq(Devs) /\ IsInjective(<<>>) /\ ToSet(<<>>) = {}
      /\ IsList(Bds, <<>>, {})
  BY NoNodes DEF IsList
<1>4. IsList(Workers, free_workers, Workers)
  BY <1>1, SetToSeqFacts, BdbufAssumption
<1>5. IsList(Bds, lru, Bds)
  <2>1. Bds \subseteq Int /\ IsFiniteSet(Bds)
    BY GroupFacts
  <2> DEFINE key == [x \in Bds |-> x]
  <2>2. key \in [Bds -> Int]
    BY <2>1
  <2> HIDE DEF key
  <2>3. IsList(Bds, InOrder(Bds, key), Bds)
    BY <2>1, <2>2, OrderedList
  <2>. QED BY <1>1, <2>3 DEF Ascending, key
<1>6. /\ \A b \in Bds : bd[b].state = "FREE"
      /\ bd \in BdFun
  <2> DEFINE v == [i \in 0 .. MaxBdsPerGroup - 1 |-> 0]
             r == [state |-> "FREE", dd |-> NoDev, block |-> 0, hold |-> 0, val |-> v]
  <2>1. v \in [0 .. MaxBdsPerGroup - 1 -> Int]
    OBVIOUS
  <2>2. bd = [b \in Bds |-> r]
    BY <1>1
  <2> HIDE DEF v
  <2>3. r \in BdRec /\ r.state = "FREE"
    BY <2>1 DEF BdRec, States
  <2> HIDE DEF r
  <2>. QED BY <2>2, <2>3 DEF BdFun
<1>7. /\ group \in GroupFun
      /\ \A g \in Groups : group[g].bds_per_group = MaxBdsPerGroup /\ group[g].users = 0
  BY <1>1, <1>2 DEF GroupFun
<1>8. dev \in DevFun /\ \A d \in Devs : dev[d].bds_per_group = MaxBdsPerGroup
  BY <1>1, <1>2 DEF DevFun
<1>9. disk \in DiskFun
  BY <1>1, <1>2 DEF DiskFun
<1>10. /\ task \in TaskFun /\ \A t \in Tasks : task[t].pc = "idle" /\ task[t].bd = -1
  <2>1. "idle" \in TaskPc
    BY DEF TaskPc
  <2>. QED BY <1>1, <1>2, <2>1 DEF TaskFun, TaskRec
<1>11. /\ swap \in [pc : {"run", "write", "endsync", "wait", "einval"}, update : {swap.update}, bds : Seq(Bds)]
       /\ swap.bds = <<>>
  BY <1>1, <1>3
<1>12. /\ worker \in [Workers -> [pc : {"idle", "write", "back"}, bds : Seq(Bds)]]
       /\ \A w \in Workers : worker[w].pc = "idle" /\ worker[w].bds = <<>>
  BY <1>1, <1>3
<1>13. /\ ahead \in [pc : {"wait", "run", "gather", "reading"}, sem : {ahead.sem}, chain : Seq(Devs),
                  dd : Devs \cup {NoDev}, count : {ahead.count}, req : Seq(Bds)]
       /\ ahead.req = <<>> /\ ahead.pc = "wait"
  BY <1>1, <1>3
<1>14. /\ hist \in [latest : {hist.latest}, lost : {hist.lost}, version : Int, orphan : {hist.orphan},
                 resized : {hist.resized}, pending : {hist.pending}, stale : {hist.stale}]
  BY <1>1, <1>2
<1>15. /\ syncing \in [active : {syncing.active}, device : Devs \cup {NoDev},
                    requester : Tasks \cup {None}, lock : Tasks \cup {None}]
       /\ syncing.requester = None
  BY <1>1
<1>16. free_workers \in Seq(Workers) /\ IsInjective(free_workers) /\ ToSet(free_workers) = Workers
  BY <1>4 DEF IsList
<1>17. TypeOK
  BY <1>1, <1>6, <1>7, <1>8, <1>9, <1>10, <1>11, <1>12, <1>13, <1>14, <1>15, <1>16 DEF TypeOK
<1>18. /\ \A b : Owners(b) = {} /\ Waiting(b) = {} /\ Drivers(b) = {}
       /\ \A g : Sleepers(g) = {}
  <2>1. \A t \in Tasks : task[t].pc \notin OwnPc /\ task[t].pc \notin BdWait /\ task[t].pc # "reading"
    BY <1>10 DEF OwnPc, BdWait
  <2>. QED BY <1>3, <1>11, <1>12, <1>13, <2>1 DEF Owners, Waiting, Drivers, Sleepers
<1>19. \A b \in Bds : b \in Live
  BY <1>7, GroupFacts, LiveFacts
<1>20. Live = Bds
  BY <1>7, <1>19, LiveFacts
<1>21. ListsInv
  <2>1. In({"FREE", "CACHED"}) = Bds /\ In({"MODIFIED"}) = {} /\ In({"SYNC"}) = {}
    BY <1>6, <1>20 DEF In
  <2>. QED BY <1>1, <1>3, <1>5, <2>1 DEF ListsInv
<1>22. KeysInv /\ TasksInv /\ SizesInv
  BY <1>1, <1>7, <1>8, <1>10 DEF KeysInv, TasksInv, SizesInv, OwnPc, BdWait
<1>23. RequestsInv
  BY <1>3, <1>11, <1>12, <1>13, <1>16 DEF RequestsInv
<1>24. CountInv
  <2>. SUFFICES ASSUME NEW g \in Groups
                PROVE  group[g].users = Cardinality(Used(g)) + Cardinality(Sleepers(g))
    BY DEF CountInv
  <2>1. Used(g) = {}
    <3>1. \A b \in LiveIn(g, group[g].bds_per_group) : b \in Bds
      BY <1>7, LiveFacts
    <3>. QED BY <1>6, <3>1 DEF Used, InUse, Access, Transferring
  <2>2. Cardinality({}) = 0
    BY FS_EmptySet
  <2>. QED BY <1>7, <1>18, <2>1, <2>2
<1>25. ASSUME NEW b \in Bds PROVE BufferInv(b)
  BY <1>1, <1>6, <1>18, <1>19 DEF BufferInv, Access, AtDriver
<1>26. SyncInv
  BY <1>15, BdbufAssumption DEF SyncInv
<1>. QED BY <1>1, <1>17, <1>21, <1>22, <1>23, <1>24, <1>25, <1>26 DEF Inv

\* A task that waits for the end of its sync goes on waiting.
Patient == \A u \in Tasks : task[u].pc = "syncwait" => task'[u].pc = "syncwait"

\* A step of another task, or a broadcast, leaves a task that waits for its sync there.
LEMMA PatientFacts ==
  ASSUME task \in TaskFun, NEW t, t \in Tasks => task[t].pc # "syncwait", NEW r, NEW cvs, NEW k,
         k = [task EXCEPT ![t] = r] \/ k = task,
         task' = Woken(cvs, k) \/ task' = k
  PROVE  Patient
<1>. SUFFICES ASSUME NEW u \in Tasks, task[u].pc = "syncwait" PROVE task'[u].pc = "syncwait"
  BY DEF Patient
<1>1. k[u] = task[u] /\ task[u] \in TaskRec
  BY DEF TaskFun
<1>2. Woken(cvs, k)[u] = IF k[u].cv \in cvs THEN [k[u] EXCEPT !.cv = "none"] ELSE k[u]
  BY DEF Woken
<1>3. k[u].pc = "syncwait" /\ [k[u] EXCEPT !.cv = "none"].pc = "syncwait"
  BY <1>1 DEF TaskRec
<1>. QED BY <1>2, <1>3

\* The tasks after a step of t
ByTask(t) == \E r, cvs, k : /\ k = [task EXCEPT ![t] = r] \/ k = task
                            /\ task' = Woken(cvs, k) \/ task' = k

\* The same, for a step whose record and broadcast are not named.
LEMMA ByTaskFacts ==
  ASSUME task \in TaskFun, NEW t, t \in Tasks => task[t].pc # "syncwait", ByTask(t)
  PROVE  Patient
<1>1. PICK r, cvs, k : /\ k = [task EXCEPT ![t] = r] \/ k = task
                       /\ task' = Woken(cvs, k) \/ task' = k
  BY DEF ByTask
<1>. QED BY <1>1, PatientFacts

\* The forms in which the actions give the tasks of the next state.
LEMMA ByTaskForms ==
  ASSUME NEW t
  PROVE  /\ \A r, cvs : task' = Woken(cvs, [task EXCEPT ![t] = r]) => ByTask(t)
         /\ \A r : task' = [task EXCEPT ![t] = r] => ByTask(t)
         /\ \A cvs : task' = Woken(cvs, task) => ByTask(t)
         /\ task' = task => ByTask(t)
<1>1. ASSUME NEW r, NEW cvs, task' = Woken(cvs, [task EXCEPT ![t] = r]) PROVE ByTask(t)
  <2>1. PICK k : k = [task EXCEPT ![t] = r]
    OBVIOUS
  <2>. QED BY <1>1, <2>1 DEF ByTask
<1>2. ASSUME NEW r, task' = [task EXCEPT ![t] = r] PROVE ByTask(t)
  <2>1. PICK k : k = [task EXCEPT ![t] = r]
    OBVIOUS
  <2>. QED BY <1>2, <2>1 DEF ByTask
<1>3. ASSUME NEW cvs, task' = Woken(cvs, task) PROVE ByTask(t)
  BY <1>3 DEF ByTask
<1>4. ASSUME task' = task PROVE ByTask(t)
  BY <1>4 DEF ByTask
<1>. QED BY <1>1, <1>2, <1>3, <1>4

\* A wait in get or read is a step of its task.
LEMMA GetByTask ==
  ASSUME NEW t, NEW c, NEW b, NEW g
  PROVE  /\ WaitForAccess(t, c, b, g) => ByTask(t)
         /\ WaitForRecycle(t, c, b, g) => ByTask(t)
<1>1. \A f, h, cvs : Grant(t, c, b, f, h, cvs) => ByTask(t)
  BY ByTaskForms DEF Grant
<1>2. \A pc, cv, h : Sleep(t, c, pc, b, cv, h) => ByTask(t)
  BY ByTaskForms DEF Sleep
<1>3. Fatal => ByTask(t)
  BY ByTaskForms DEF Fatal
<1>4. SleepForBuffer(t, c, g) => ByTask(t)
  BY ByTaskForms DEF SleepForBuffer
<1>5. WaitForAccess(t, c, b, g) => ByTask(t)
  BY <1>1, <1>2, <1>3 DEF WaitForAccess
<1>6. WaitForRecycle(t, c, b, g) => ByTask(t)
  BY <1>2, <1>3, <1>4, ByTaskForms DEF WaitForRecycle
<1>. QED BY <1>5, <1>6

\* A search is a step of its task.
LEMMA SearchByTask ==
  ASSUME NEW t, NEW c, GetBufferForAccess(t, c)
  PROVE  ByTask(t)
<1>1. ASSUME NEW b, IF group[GroupOf(b)].bds_per_group = dev[c.dd].bds_per_group
                    THEN WaitForAccess(t, c, b, group)
                    ELSE WaitForRecycle(t, c, b, group)
      PROVE  ByTask(t)
  BY <1>1, GetByTask
<1>2. ASSUME NEW x, NEW f, NEW h, NEW cvs, Grant(t, c, x, f, h, cvs) PROVE ByTask(t)
  BY <1>2, ByTaskForms DEF Grant
<1>3. ASSUME SleepForBuffer(t, c, group) PROVE ByTask(t)
  BY <1>3, ByTaskForms DEF SleepForBuffer
<1>4. ASSUME Fatal PROVE ByTask(t)
  BY <1>4, ByTaskForms DEF Fatal
<1>. QED BY <1>1, <1>2, <1>3, <1>4 DEF GetBufferForAccess

\* The end of a request only wakes tasks.
LEMMA TransferByTask ==
  ASSUME NEW t, NEW f, NEW s, NEW ok, TransferDone(None, f, s, ok, task)
  PROVE  ByTask(t)
BY ByTaskForms DEF TransferDone, WakeFor

\* get and read are steps of their task and leave the sync alone.
LEMMA TaskSteps ==
  ASSUME NEW t \in Tasks,
         \/ \E op \in {"get", "read"}, d \in Devs, k \in 0 .. MediaBlocks - 1 : Get(t, op, d, k)
         \/ SearchAgain(t) \/ AccessAgain(t) \/ RecycleAgain(t)
  PROVE  ByTask(t) /\ task[t].pc # "syncwait" /\ syncing' = syncing
<1>1. ASSUME NEW op, NEW d, NEW k, Get(t, op, d, k)
      PROVE  ByTask(t) /\ task[t].pc # "syncwait" /\ syncing' = syncing
  BY <1>1, SearchByTask DEF Get
<1>2. CASE SearchAgain(t)
  BY <1>2, SearchByTask DEF SearchAgain
<1>3. CASE AccessAgain(t)
  BY <1>3, GetByTask DEF AccessAgain
<1>4. CASE RecycleAgain(t)
  BY <1>4, GetByTask DEF RecycleAgain
<1>. QED BY <1>1, <1>2, <1>3, <1>4

\* So are release, release_modified, sync and the end of a read.
LEMMA HolderSteps ==
  ASSUME NEW t \in Tasks,
         \/ Release(t) \/ ReleaseModified(t) \/ PassSyncLock(t) \/ AddModified(t)
         \/ Sync(t) \/ SyncAgain(t) \/ ReadDone(t)
  PROVE  ByTask(t) /\ task[t].pc # "syncwait" /\ syncing' = syncing
<1>1. \A b : ToLru(t, b) => ByTask(t)
  BY ByTaskForms DEF ToLru, WakeFor
<1>2. \A b : DiscardAfterAccess(t, b) => ByTask(t)
  BY ByTaskForms DEF DiscardAfterAccess, WakeFor
<1>3. \A b, f : ToModified(t, b, f) => ByTask(t)
  BY ByTaskForms DEF ToModified
<1>4. ASSUME NEW v, task' = [task EXCEPT ![t].pc = v] PROVE ByTask(t)
  BY <1>4, ByTaskForms
<1>5. \A b, f : AddToModified(t, b, f) => ByTask(t)
  BY <1>3, <1>4 DEF AddToModified
<1>6. CASE Release(t)
  BY <1>1, <1>2, <1>5, <1>6 DEF Release, Holding
<1>7. CASE ReleaseModified(t)
  BY <1>2, <1>5, <1>7 DEF ReleaseModified, Holding
<1>8. CASE PassSyncLock(t)
  BY <1>4, <1>8 DEF PassSyncLock
<1>9. CASE AddModified(t)
  BY <1>3, <1>9 DEF AddModified
<1>10. CASE Sync(t)
  BY <1>2, <1>10, ByTaskForms DEF Sync, Holding
<1>11. CASE SyncAgain(t)
  <2>1. task[t].pc = "syn" /\ syncing' = syncing
    BY <1>11 DEF SyncAgain
  <2>2. \/ \E pc, b, cv, g : Sleep(t, task[t], pc, b, cv, g)
        \/ \E cvs : task' = Woken(cvs, [task EXCEPT ![t] = Idle(@)])
        \/ Fatal
    BY <1>11 DEF SyncAgain
  <2>3. ASSUME NEW pc, NEW b, NEW cv, NEW g, Sleep(t, task[t], pc, b, cv, g) PROVE ByTask(t)
    BY <2>3, ByTaskForms DEF Sleep
  <2>4. Fatal => ByTask(t)
    BY ByTaskForms DEF Fatal
  <2>. QED BY <2>1, <2>2, <2>3, <2>4, ByTaskForms
<1>12. CASE ReadDone(t)
  <2>1. task[t].pc = "reading" /\ syncing' = syncing
    BY <1>12 DEF ReadDone
  <2>2. \/ \E cvs : task' = Woken(cvs, [task EXCEPT ![t].pc = "holding"])
        \/ \E cvs, r : task' = Woken(cvs, [task EXCEPT ![t] = r])
    <3>1. \A S, cv, tk : \E cvs : WakeFor(t, S, cv, tk) = Woken(cvs, tk)
      BY DEF WakeFor
    <3>2. \A f, s, ok, tk : TransferDone(t, f, s, ok, tk) => \E cvs : task' = Woken(cvs, tk)
      BY <3>1 DEF TransferDone
    <3>3. \/ task' = WakeFor(t, {task[t].bd}, "transfer", [task EXCEPT ![t].pc = "holding"])
          \/ TransferDone(t, bd, <<task[t].bd>>, FALSE, [task EXCEPT ![t] = At(task[t], "idle", -1, "none")])
      BY <1>12 DEF ReadDone
    <3>4. CASE task' = WakeFor(t, {task[t].bd}, "transfer", [task EXCEPT ![t].pc = "holding"])
      BY <3>4, <3>1
    <3>5. CASE TransferDone(t, bd, <<task[t].bd>>, FALSE, [task EXCEPT ![t] = At(task[t], "idle", -1, "none")])
      BY <3>5, <3>2
    <3>. QED BY <3>3, <3>4, <3>5
  <2>. QED BY <2>1, <2>2, ByTaskForms
<1>. QED BY <1>6, <1>7, <1>8, <1>9, <1>10, <1>11, <1>12

\* The swapout, worker and read-ahead tasks leave the sync alone until it ends.
LEMMA DaemonSteps ==
  ASSUME \/ SwapoutProcessing \/ SwapoutWake \/ SwapoutWrite
         \/ \E w \in Workers : WorkerWrite(w) \/ WorkerBack(w)
         \/ ReadAheadWake \/ ReadAheadSleep \/ ReadAheadNext \/ ReadAheadGather \/ ReadAheadDone
  PROVE  ByTask(None) /\ syncing' = syncing
<1>1. \A s : WriteRequest(s) => ByTask(None)
  BY TransferByTask DEF WriteRequest
<1>2. \A d, m, rest : Prefetch(d, m, rest) => ByTask(None)
  BY ByTaskForms DEF Prefetch, Fatal
<1>3. CASE SwapoutProcessing \/ SwapoutWake \/ ReadAheadWake \/ ReadAheadSleep
  BY <1>3, ByTaskForms DEF SwapoutProcessing, SwapoutWake, ReadAheadWake, ReadAheadSleep
<1>4. CASE SwapoutWrite
  BY <1>1, <1>4 DEF SwapoutWrite
<1>5. ASSUME NEW w \in Workers, WorkerWrite(w) \/ WorkerBack(w) PROVE ByTask(None) /\ syncing' = syncing
  BY <1>1, <1>5, ByTaskForms DEF WorkerWrite, WorkerBack
<1>6. CASE ReadAheadNext
  <2>1. syncing' = syncing /\ (task' = task \/ \E d, m, rest : Prefetch(d, m, rest))
    BY <1>6 DEF ReadAheadNext
  <2>. QED BY <1>2, <2>1, ByTaskForms
<1>7. CASE ReadAheadGather
  <2>1. syncing' = syncing /\ (task' = task \/ \E d, m, rest : Prefetch(d, m, rest))
    BY <1>7 DEF ReadAheadGather
  <2>. QED BY <1>2, <2>1, ByTaskForms
<1>8. CASE ReadAheadDone
  BY <1>8, TransferByTask DEF ReadAheadDone
<1>. QED BY <1>3, <1>4, <1>5, <1>6, <1>7, <1>8

\* Who asked for the sync
LEMMA SyncKept ==
  ASSUME SyncInv, Patient, syncing'.requester = syncing.requester
  PROVE  SyncInv'
BY DEF SyncInv, Patient

\* syncdev, purge, set_block_size and peek keep the invariant of the sync.
LEMMA DeviceSteps ==
  ASSUME Inv, SyncInv, NEW t \in Tasks,
         \/ \E op \in {"syncdev", "resize"}, d \in Devs : Syncdev(t, op, d)
         \/ SyncdevReturn(t)
         \/ \E d \in Devs : Purge(t, d)
         \/ \E n \in 1 .. MaxBdsPerGroup : SetBlockSize(t, n)
         \/ \E d \in Devs, k \in 0 .. MediaBlocks - 1, n \in 1 .. MaxReadAhead : Peek(t, d, k, n)
  PROVE  SyncInv'
<1>0. task \in TaskFun
  BY DEF Inv, TypeOK
<1>1. ASSUME NEW op, NEW d, Syncdev(t, op, d) PROVE SyncInv'
  <2> DEFINE r == [task[t] EXCEPT !.pc = "syncwait", !.op = op, !.dd = d]
  <2>1. r.pc = "syncwait"
    BY <1>0 DEF TaskFun, TaskRec
  <2>2. task' = [task EXCEPT ![t] = r] /\ syncing' = [active |-> TRUE, device |-> d, requester |-> t, lock |-> t]
    BY <1>1 DEF Syncdev
  <2> HIDE DEF r
  <2>3. task'[t] = r /\ syncing'.requester = t
    BY <1>0, <2>2 DEF TaskFun
  <2>. QED BY <2>1, <2>3 DEF SyncInv
<1>2. CASE SyncdevReturn(t)
  <2>1. task[t].pc = "syncdone" /\ syncing' = [syncing EXCEPT !.lock = None]
    BY <1>2 DEF SyncdevReturn
  <2>2. syncing'.requester = syncing.requester
    BY <2>1 DEF Inv, TypeOK
  <2>3. ByTask(t)
    BY <1>2, ByTaskForms DEF SyncdevReturn
  <2>4. Patient
    BY <1>0, <2>1, <2>3, ByTaskFacts
  <2>. QED BY <2>2, <2>4, SyncKept
<1>3. ASSUME NEW d, NEW s, NEW tk, PurgeDev(t, d, s, tk), tk = task \/ tk = [task EXCEPT ![t] = Idle(task[t])],
             task[t].pc \in {"idle", "resize"}
      PROVE  SyncInv'
  <2>1. syncing' = syncing /\ \E cvs : task' = Woken(cvs, tk)
    BY <1>3 DEF PurgeDev
  <2>2. ByTask(t)
    BY <1>3, <2>1, ByTaskForms
  <2>3. Patient
    BY <1>0, <1>3, <2>2, ByTaskFacts
  <2>. QED BY <2>1, <2>3, SyncKept
<1>4. ASSUME NEW d, Purge(t, d) PROVE SyncInv'
  BY <1>3, <1>4 DEF Purge
<1>5. ASSUME NEW n, SetBlockSize(t, n) PROVE SyncInv'
  <2>1. PICK s : PurgeDev(t, task[t].dd, s, [task EXCEPT ![t] = Idle(task[t])])
    BY <1>5 DEF SetBlockSize
  <2>2. task[t].pc = "resize"
    BY <1>5 DEF SetBlockSize
  <2>. QED BY <1>3, <2>1, <2>2
<1>6. ASSUME NEW d, NEW k, NEW n, Peek(t, d, k, n) PROVE SyncInv'
  BY <1>6 DEF Peek, SyncInv
<1>. QED BY <1>1, <1>2, <1>4, <1>5, <1>6

\* Nothing runs after rtems_bdbuf_fatal, which ends the program.
LEMMA NothingAfterFatal ==
  ASSUME Next
  PROVE  ~fatal
<1>1. ASSUME NEW t \in Tasks,
             \/ \E op \in {"get", "read"}, d \in Devs, k \in 0 .. MediaBlocks - 1 : Get(t, op, d, k)
             \/ SearchAgain(t) \/ AccessAgain(t) \/ RecycleAgain(t) \/ ReadDone(t)
             \/ Release(t) \/ ReleaseModified(t) \/ PassSyncLock(t) \/ AddModified(t)
             \/ Sync(t) \/ SyncAgain(t)
             \/ \E op \in {"syncdev", "resize"}, d \in Devs : Syncdev(t, op, d)
             \/ SyncdevReturn(t)
             \/ \E d \in Devs : Purge(t, d)
             \/ \E n \in 1 .. MaxBdsPerGroup : SetBlockSize(t, n)
             \/ \E d \in Devs, k \in 0 .. MediaBlocks - 1, n \in 1 .. MaxReadAhead : Peek(t, d, k, n)
      PROVE  ~fatal
  BY <1>1 DEF Get, SearchAgain, AccessAgain, RecycleAgain, ReadDone, Release, ReleaseModified,
              PassSyncLock, AddModified, Sync, SyncAgain, Syncdev, SyncdevReturn, Purge, SetBlockSize,
              Peek, Holding, Running
<1>2. ASSUME \/ SwapoutProcessing \/ EndSync \/ SwapoutWake \/ SwapoutWrite
             \/ \E w \in Workers : WorkerWrite(w) \/ WorkerBack(w)
             \/ ReadAheadWake \/ ReadAheadSleep \/ ReadAheadNext \/ ReadAheadGather \/ ReadAheadDone
      PROVE  ~fatal
  BY <1>2 DEF SwapoutProcessing, EndSync, SwapoutWake, SwapoutWrite, WorkerWrite, WorkerBack,
              ReadAheadWake, ReadAheadSleep, ReadAheadNext, ReadAheadGather, ReadAheadDone, Running
<1>. QED BY <1>1, <1>2 DEF Next

\* Every step keeps the invariant of the sync.
LEMMA SyncInvStep ==
  ASSUME Inv, SyncInv, Next
  PROVE  SyncInv'
<1>0. task \in TaskFun /\ None \notin Tasks
  BY BdbufAssumption DEF Inv, TypeOK
<1>1. ASSUME NEW t, t \in Tasks => task[t].pc # "syncwait", ByTask(t), syncing' = syncing PROVE SyncInv'
  <2>1. Patient
    BY <1>0, <1>1, ByTaskFacts
  <2>. QED BY <1>1, <2>1, SyncKept
<1>2. ASSUME NEW t \in Tasks,
         \/ \E op \in {"get", "read"}, d \in Devs, k \in 0 .. MediaBlocks - 1 : Get(t, op, d, k)
         \/ SearchAgain(t) \/ AccessAgain(t) \/ RecycleAgain(t)
      PROVE  SyncInv'
  <2>1. ByTask(t) /\ task[t].pc # "syncwait" /\ syncing' = syncing
    BY <1>2, TaskSteps
  <2>. QED BY <1>1, <2>1
<1>3. ASSUME NEW t \in Tasks,
         \/ Release(t) \/ ReleaseModified(t) \/ PassSyncLock(t) \/ AddModified(t)
         \/ Sync(t) \/ SyncAgain(t) \/ ReadDone(t)
      PROVE  SyncInv'
  <2>1. ByTask(t) /\ task[t].pc # "syncwait" /\ syncing' = syncing
    BY <1>3, HolderSteps
  <2>. QED BY <1>1, <2>1
<1>4. ASSUME \/ SwapoutProcessing \/ SwapoutWake \/ SwapoutWrite
             \/ \E w \in Workers : WorkerWrite(w) \/ WorkerBack(w)
             \/ ReadAheadWake \/ ReadAheadSleep \/ ReadAheadNext \/ ReadAheadGather \/ ReadAheadDone
      PROVE  SyncInv'
  <2>1. ByTask(None) /\ syncing' = syncing
    BY <1>4, DaemonSteps
  <2>. QED BY <1>0, <1>1, <2>1
<1>5. CASE EndSync
  BY <1>5, EndSyncStep
<1>6. ASSUME NEW t \in Tasks,
         \/ \E op \in {"syncdev", "resize"}, d \in Devs : Syncdev(t, op, d)
         \/ SyncdevReturn(t)
         \/ \E d \in Devs : Purge(t, d)
         \/ \E n \in 1 .. MaxBdsPerGroup : SetBlockSize(t, n)
         \/ \E d \in Devs, k \in 0 .. MediaBlocks - 1, n \in 1 .. MaxReadAhead : Peek(t, d, k, n)
      PROVE  SyncInv'
  BY <1>6, DeviceSteps
<1>7. ASSUME NEW t \in Tasks,
             \/ \E op \in {"get", "read"}, d \in Devs, k \in 0 .. MediaBlocks - 1 : Get(t, op, d, k)
             \/ SearchAgain(t) \/ AccessAgain(t) \/ RecycleAgain(t) \/ ReadDone(t)
             \/ Release(t) \/ ReleaseModified(t) \/ PassSyncLock(t) \/ AddModified(t)
             \/ Sync(t) \/ SyncAgain(t)
             \/ \E op \in {"syncdev", "resize"}, d \in Devs : Syncdev(t, op, d)
             \/ SyncdevReturn(t)
             \/ \E d \in Devs : Purge(t, d)
             \/ \E n \in 1 .. MaxBdsPerGroup : SetBlockSize(t, n)
             \/ \E d \in Devs, k \in 0 .. MediaBlocks - 1, n \in 1 .. MaxReadAhead : Peek(t, d, k, n)
      PROVE  SyncInv'
  BY <1>2, <1>3, <1>6, <1>7
<1>8. ASSUME \/ SwapoutProcessing \/ EndSync \/ SwapoutWake \/ SwapoutWrite
             \/ \E w \in Workers : WorkerWrite(w) \/ WorkerBack(w)
             \/ ReadAheadWake \/ ReadAheadSleep \/ ReadAheadNext \/ ReadAheadGather \/ ReadAheadDone
      PROVE  SyncInv'
  <2>1. \/ EndSync
        \/ SwapoutProcessing \/ SwapoutWake \/ SwapoutWrite
        \/ \E w \in Workers : WorkerWrite(w) \/ WorkerBack(w)
        \/ ReadAheadWake \/ ReadAheadSleep \/ ReadAheadNext \/ ReadAheadGather \/ ReadAheadDone
    BY <1>8
  <2>. QED BY <1>4, <1>5, <2>1
<1>. QED BY <1>7, <1>8 DEF Next

\* Every step keeps the invariant, follows the diagram and, before a purge during a read or a change
\* of the block size, meets no assertion.
LEMMA NextStep ==
  ASSUME Inv, SyncInv, Next
  PROVE  Good
<1>1. ASSUME NEW t \in Tasks, NEW op \in {"get", "read"}, NEW d \in Devs, NEW k \in 0 .. MediaBlocks - 1,
             Get(t, op, d, k)
      PROVE  Good
  BY <1>1, GetStep
<1>2. ASSUME NEW t \in Tasks, SearchAgain(t) \/ AccessAgain(t) \/ RecycleAgain(t) PROVE Good
  BY <1>2, AgainSteps
<1>3. ASSUME NEW t \in Tasks, ReadDone(t) PROVE Good
  BY <1>3, ReadDoneStep
<1>4. ASSUME NEW t \in Tasks, Release(t) \/ ReleaseModified(t) \/ PassSyncLock(t) \/ AddModified(t) PROVE Good
  BY <1>4, ReleaseStep
<1>5. ASSUME NEW t \in Tasks, Sync(t) PROVE Good
  BY <1>5, SyncStep
<1>6. ASSUME NEW t \in Tasks, SyncAgain(t) PROVE Good
  BY <1>6, SyncAgainStep
<1>7. ASSUME NEW t \in Tasks, NEW op \in {"syncdev", "resize"}, NEW d \in Devs, Syncdev(t, op, d) PROVE Good
  BY <1>7, SyncdevStep
<1>8. ASSUME NEW t \in Tasks, SyncdevReturn(t) PROVE Good
  BY <1>8, SyncdevReturnStep
<1>9. ASSUME NEW t \in Tasks, NEW d \in Devs, Purge(t, d) PROVE Good
  BY <1>9, PurgeStep
<1>10. ASSUME NEW t \in Tasks, NEW n \in 1 .. MaxBdsPerGroup, SetBlockSize(t, n) PROVE Good
  BY <1>10, SetBlockSizeStep
<1>11. ASSUME NEW t \in Tasks, NEW d \in Devs, NEW k \in 0 .. MediaBlocks - 1, NEW n \in 1 .. MaxReadAhead,
              Peek(t, d, k, n)
       PROVE  Good
  BY <1>11, PeekStep
<1>12. ASSUME \/ SwapoutProcessing \/ EndSync \/ SwapoutWake \/ SwapoutWrite
              \/ \E w \in Workers : WorkerWrite(w) \/ WorkerBack(w)
       PROVE  Good
  BY <1>12, SwapoutProcessingStep, EndSyncStep, SwapoutWakeStep, SwapoutWriteStep, WorkerWriteStep, WorkerBackStep
<1>13. ASSUME ReadAheadWake \/ ReadAheadSleep \/ ReadAheadNext \/ ReadAheadGather \/ ReadAheadDone
       PROVE  Good
  BY <1>13, ReadAheadTurnStep, ReadAheadNextStep, ReadAheadGatherStep, ReadAheadDoneStep
<1>. QED BY <1>1, <1>2, <1>3, <1>4, <1>5, <1>6, <1>7, <1>8, <1>9, <1>10, <1>11, <1>12, <1>13 DEF Next

\* The inductive invariant of the cache.
IInv == Inv /\ SyncInv /\ NoFatal

\* The invariant is inductive.
LEMMA IInvStep ==
  ASSUME IInv, [Next]_vars
  PROVE  IInv' /\ (~hist'.orphan => Moves)
<1>1. CASE Next
  <2>1. Good /\ SyncInv' /\ ~fatal
    BY <1>1, NextStep, SyncInvStep, NothingAfterFatal DEF IInv
  <2>2. Inv' /\ (~hist'.orphan => Moves) /\ (fatal' => fatal \/ hist'.orphan \/ hist'.resized \/ swap'.pc = "einval")
    BY <2>1 DEF Good
  <2>3. NoFatal'
    BY <2>1, <2>2 DEF NoFatal
  <2>. QED BY <2>1, <2>2, <2>3 DEF IInv
<1>2. CASE UNCHANGED vars
  <2>1. Inv' /\ Moves
    BY <1>2, InvFrame DEF IInv, vars
  <2>2. SyncInv' /\ NoFatal'
    BY <1>2 DEF IInv, SyncInv, NoFatal, vars
  <2>. QED BY <2>1, <2>2 DEF IInv
<1>. QED BY <1>1, <1>2

\* The inductive invariant holds in every reachable state of the cache, for any number of tasks,
\* workers, devices, groups and buffers.
THEOREM CacheInvariant == Spec => []IInv
<1>1. Init => IInv
  BY InitInv DEF IInv, NoFatal
<1>2. IInv /\ [Next]_vars => IInv'
  BY IInvStep
<1>. QED BY <1>1, <1>2, PTL DEF Spec

\* Every variable of the cache keeps its type.
THEOREM CacheTyped == Spec => []TypeOK
<1>1. IInv => TypeOK
  BY DEF IInv, Inv
<1>. QED BY <1>1, CacheInvariant, PTL

\* The table of bdbuf.h follows from the invariant.
LEMMA TableHolds ==
  ASSUME Inv
  PROVE  StateTable
<1>0. ListsInv /\ KeysInv /\ \A b \in Bds : BufferInv(b)
  BY DEF Inv
<1>1. Live \subseteq Bds /\ tree \subseteq Bds
  BY LiveFacts DEF Inv, TypeOK
<1>2. /\ ToSet(lru) = In({"FREE", "CACHED"}) /\ IsInjective(lru)
      /\ ToSet(modified) = In({"MODIFIED"}) /\ IsInjective(modified)
      /\ ToSet(sync) = In({"SYNC"}) /\ IsInjective(sync)
  BY <1>0 DEF ListsInv, IsList
<1>3. \A S : In(S) \subseteq Live /\ \A b \in Live : b \in In(S) <=> bd[b].state \in S
  BY DEF In
<1>4. \A b \in Live : /\ (bd[b].state \in {"FREE", "CACHED"}) <=> (b \in ToSet(lru))
                      /\ (bd[b].state = "MODIFIED") <=> (b \in ToSet(modified))
                      /\ (bd[b].state = "SYNC") <=> (b \in ToSet(sync))
  BY <1>2, <1>3
<1>5. ASSUME Sound, NEW b \in Live PROVE (bd[b].state # "FREE") <=> (b \in tree)
  BY <1>0, <1>1, <1>5 DEF BufferInv
<1>6. \A s \in {lru, modified, sync} : IsInjective(s) /\ ToSet(s) \subseteq Live
  BY <1>2, <1>3
<1>7. tree \subseteq Live
  BY <1>0, <1>1 DEF BufferInv
<1>. QED BY <1>0, <1>4, <1>5, <1>6, <1>7 DEF StateTable, KeysInv

\* rtems_bdbuf: whatever tasks, swapout, workers and read-ahead do, the state of a buffer tells which
\* list it is on and whether the tree has it (bdbuf.h:172-231), until a purge meets a read.
THEOREM StatesTellLists == Spec => []StateTable
<1>1. IInv => StateTable
  BY TableHolds DEF IInv
<1>. QED BY <1>1, CacheInvariant, PTL

\* The invariant names the one holder of a buffer in an access or transfer state.
LEMMA HolderCount ==
  ASSUME Inv
  PROVE  OneHolder
<1>0. Live \subseteq Bds
  BY LiveFacts DEF Inv, TypeOK
<1>. SUFFICES ASSUME NEW b \in Live
              PROVE  Cardinality(Holders(b)) =
                        IF bd[b].state \in Access \cup {"TRANSFER", "TRANSFER_PURGED"} THEN 1 ELSE 0
  BY DEF OneHolder
<1>1. BufferInv(b)
  BY <1>0 DEF Inv
<1>2. Holders(b) = Owners(b) \cup Drivers(b)
  BY DEF Holders, Owners, Drivers, OwnPc
<1>3. CASE bd[b].state \in Access
  <2>1. \E h : Holders(b) = {h}
    BY <1>1, <1>2, <1>3 DEF BufferInv
  <2>. QED BY <1>3, <2>1, FS_Singleton
<1>4. CASE bd[b].state \in AtDriver
  <2>1. \E h : Holders(b) = {h}
    BY <1>1, <1>2, <1>4 DEF BufferInv
  <2>. QED BY <1>4, <2>1, FS_Singleton DEF AtDriver
<1>5. CASE bd[b].state \notin Access \cup AtDriver
  <2>1. Holders(b) = {}
    BY <1>1, <1>2, <1>5 DEF BufferInv
  <2>. QED BY <1>5, <2>1, FS_EmptySet DEF AtDriver
<1>. QED BY <1>3, <1>4, <1>5

\* rtems_bdbuf: a buffer in an access or transfer state has exactly one user, any other has none.
THEOREM NeverTwoHolders == Spec => []OneHolder
<1>1. IInv => OneHolder
  BY HolderCount DEF IInv
<1>. QED BY <1>1, CacheInvariant, PTL

\* rtems_bdbuf: the user count of a group is the number of its buffers in use and of the tasks that
\* wait for one of them, so group_realloc cuts up unused groups only.
THEOREM UsersCounted == Spec => []GroupUsers
<1>1. IInv => GroupUsers
  BY DEF IInv, Inv, CountInv, GroupUsers, Used, Sleepers, InUse
<1>. QED BY <1>1, CacheInvariant, PTL

\* rtems_bdbuf: no assertion fails and no node is extracted twice before a purge meets a read, the
\* block size is changed, or the swap-out task waits for an invalid time (bdbuf.c:2848-2855).
THEOREM AssertionsHold == Spec => []NoFatal
<1>1. IInv => NoFatal
  BY DEF IInv
<1>. QED BY <1>1, CacheInvariant, PTL

\* rtems_bdbuf: until a purge meets a read, a buffer changes its state along the diagram of
\* bdbuf.h:76-127, except where release_modified puts a buffer on the modified list that was purged
\* while its holder waited for the sync lock (bdbuf.c:1040-1071).
THEOREM DiagramFollowed == Spec => OneDeviation
<1>1. IInv /\ [Next]_vars => [\A b \in Bds : bd'[b].state # bd[b].state /\ ~hist'.orphan =>
         <<bd[b].state, bd'[b].state>> \in Transitions \/ ReleasedLate(b)]_vars
  BY IInvStep DEF Moves
<1>. QED BY <1>1, CacheInvariant, PTL DEF Spec, OneDeviation

============================================================================
