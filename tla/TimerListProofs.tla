-------------------------- MODULE TimerListProofs --------------------------
(***************************************************************************)
(* Proofs about the timer list for every number of timers and all delays:  *)
(* the deltas add up, a timer is called as soon as the time handed to      *)
(* timer_schedule reaches its delay and not before, and the list agrees    *)
(* with the states.                                                        *)
(***************************************************************************)
EXTENDS TimerList, SequenceTheorems, TLAPS

(* Facts about the list as timer_list.c changes it. *)

\* list_del in the middle.
LEMMA RemoveAtFacts ==
  ASSUME NEW S, NEW s \in Seq(S), NEW i \in 1..Len(s)
  PROVE  /\ RemoveAt(s, i) \in Seq(S)
         /\ Len(RemoveAt(s, i)) = Len(s) - 1
         /\ \A k \in 1..(Len(s) - 1) :
              RemoveAt(s, i)[k] = IF k < i THEN s[k] ELSE s[k + 1]
<1> DEFINE a == SubSeq(s, 1, i - 1)
           b == SubSeq(s, i + 1, Len(s))
<1>0. Len(s) \in Nat /\ \A k \in 1..Len(s) : s[k] \in S
  BY LenProperties, ElementOfSeq
<1>1. a \in Seq(S) /\ Len(a) = i - 1 /\ \A k \in 1..(i - 1) : a[k] = s[k]
  BY <1>0, SubSeqProperties
<1>2. /\ b \in Seq(S) /\ Len(b) = Len(s) - i
      /\ \A k \in 1..(Len(s) - i) : b[k] = s[k + i]
  <2>1. /\ b \in Seq(S)
        /\ Len(b) = IF i + 1 <= Len(s) THEN Len(s) - (i + 1) + 1 ELSE 0
        /\ \A k \in 1..(Len(s) - (i + 1) + 1) : b[k] = s[i + 1 + k - 1]
    BY <1>0, SubSeqProperties
  <2>. QED BY <1>0, <2>1
<1> HIDE DEF a, b
<1>3. /\ a \o b \in Seq(S) /\ Len(a \o b) = Len(a) + Len(b)
      /\ \A k \in 1..(Len(a) + Len(b)) :
           (a \o b)[k] = IF k <= Len(a) THEN a[k] ELSE b[k - Len(a)]
  BY <1>1, <1>2, ConcatProperties
<1>4. RemoveAt(s, i) = a \o b
  BY DEF RemoveAt, a, b
<1>5. Len(RemoveAt(s, i)) = Len(s) - 1
  BY <1>0, <1>1, <1>2, <1>3, <1>4
<1>6. ASSUME NEW k \in 1..(Len(s) - 1)
      PROVE  RemoveAt(s, i)[k] = IF k < i THEN s[k] ELSE s[k + 1]
  <2>1. CASE k < i
    <3>1. k \in 1..(Len(a) + Len(b)) /\ k <= Len(a) /\ k \in 1..(i - 1)
      BY <1>0, <1>1, <1>2, <2>1
    <3>. QED BY <1>1, <1>3, <1>4, <2>1, <3>1
  <2>2. CASE k >= i
    <3>1. /\ k \in 1..(Len(a) + Len(b)) /\ ~(k <= Len(a))
          /\ k - Len(a) \in 1..(Len(s) - i) /\ (k - Len(a)) + i = k + 1
      BY <1>0, <1>1, <1>2, <2>2
    <3>2. RemoveAt(s, i)[k] = b[k - Len(a)]
      BY <1>3, <1>4, <3>1
    <3>3. b[k - Len(a)] = s[(k - Len(a)) + i]
      BY <1>2, <3>1
    <3>4. ~(k < i)
      BY <1>0, <2>2
    <3>. QED BY <3>1, <3>2, <3>3, <3>4
  <2>. QED BY <1>0, <2>1, <2>2
<1>. QED BY <1>3, <1>4, <1>5, <1>6

\* list_add_tail before the node at place i.
LEMMA InsertAtFacts ==
  ASSUME NEW S, NEW s \in Seq(S), NEW i \in 1..(Len(s) + 1), NEW e \in S
  PROVE  /\ InsertAt(s, i, e) \in Seq(S)
         /\ Len(InsertAt(s, i, e)) = Len(s) + 1
         /\ \A k \in 1..(Len(s) + 1) :
              InsertAt(s, i, e)[k] =
                IF k < i THEN s[k] ELSE IF k = i THEN e ELSE s[k - 1]
<1> DEFINE a == SubSeq(s, 1, i - 1)
           b == SubSeq(s, i, Len(s))
           c == <<e>>
<1>0. Len(s) \in Nat /\ \A k \in 1..Len(s) : s[k] \in S
  BY LenProperties, ElementOfSeq
<1>1. a \in Seq(S) /\ Len(a) = i - 1 /\ \A k \in 1..(i - 1) : a[k] = s[k]
  BY <1>0, SubSeqProperties
<1>2. /\ b \in Seq(S) /\ Len(b) = Len(s) + 1 - i
      /\ \A k \in 1..(Len(s) + 1 - i) : b[k] = s[k + i - 1]
  <2>1. /\ b \in Seq(S)
        /\ Len(b) = IF i <= Len(s) THEN Len(s) - i + 1 ELSE 0
        /\ \A k \in 1..(Len(s) - i + 1) : b[k] = s[i + k - 1]
    BY <1>0, SubSeqProperties
  <2>. QED BY <1>0, <2>1
<1>3. c \in Seq(S) /\ Len(c) = 1 /\ c[1] = e
  OBVIOUS
<1> HIDE DEF a, b, c
<1>4. /\ a \o c \in Seq(S) /\ Len(a \o c) = i
      /\ \A k \in 1..i : (a \o c)[k] = IF k < i THEN s[k] ELSE e
  <2>1. /\ a \o c \in Seq(S) /\ Len(a \o c) = Len(a) + Len(c)
        /\ \A k \in 1..(Len(a) + Len(c)) :
             (a \o c)[k] = IF k <= Len(a) THEN a[k] ELSE c[k - Len(a)]
    BY <1>1, <1>3, ConcatProperties
  <2>. QED BY <1>0, <1>1, <1>3, <2>1
<1> DEFINE ac == a \o c
<1>5. ac \in Seq(S) /\ Len(ac) = i /\ \A k \in 1..i : ac[k] = IF k < i THEN s[k] ELSE e
  BY <1>4
<1>6. InsertAt(s, i, e) = ac \o b
  BY DEF InsertAt, a, b, c
<1> HIDE DEF ac
<1>7. /\ ac \o b \in Seq(S) /\ Len(ac \o b) = Len(ac) + Len(b)
      /\ \A k \in 1..(Len(ac) + Len(b)) :
           (ac \o b)[k] = IF k <= Len(ac) THEN ac[k] ELSE b[k - Len(ac)]
  BY <1>2, <1>5, ConcatProperties
<1>8. Len(InsertAt(s, i, e)) = Len(s) + 1
  BY <1>0, <1>2, <1>5, <1>6, <1>7
<1>9. ASSUME NEW k \in 1..(Len(s) + 1)
      PROVE  InsertAt(s, i, e)[k] =
               IF k < i THEN s[k] ELSE IF k = i THEN e ELSE s[k - 1]
  <2>1. CASE k <= i
    <3>1. k \in 1..(Len(ac) + Len(b)) /\ k <= Len(ac) /\ k \in 1..i
      BY <1>0, <1>2, <1>5, <2>1
    <3>2. InsertAt(s, i, e)[k] = ac[k]
      BY <1>6, <1>7, <3>1
    <3>. QED BY <1>5, <3>1, <3>2
  <2>2. CASE k > i
    <3>1. /\ k \in 1..(Len(ac) + Len(b)) /\ ~(k <= Len(ac))
          /\ k - Len(ac) \in 1..(Len(s) + 1 - i) /\ (k - Len(ac)) + i - 1 = k - 1
          /\ ~(k < i) /\ k # i
      BY <1>0, <1>2, <1>5, <2>2
    <3>2. InsertAt(s, i, e)[k] = b[k - Len(ac)]
      BY <1>6, <1>7, <3>1
    <3>3. b[k - Len(ac)] = s[(k - Len(ac)) + i - 1]
      BY <1>2, <3>1
    <3>. QED BY <3>1, <3>2, <3>3
  <2>. QED BY <1>0, <2>1, <2>2
<1>. QED BY <1>6, <1>7, <1>8, <1>9
-----------------------------------------------------------------------------
(* The heart of the invariant, as a statement about places: d[p] is the      *)
(* delta stored at place p of the list, r[p] the time until that timer is    *)
(* due.                                                                      *)
Sums(n, d, r) == \A p \in 1..n : r[p] = (IF p = 1 THEN 0 ELSE r[p - 1]) + d[p]

\* Removal at place i, whose share goes to its successor.
LEMMA RemoveKeepsSums ==
  ASSUME NEW n \in Nat, NEW i \in 1..n,
         NEW d \in [1..n -> Int], NEW r \in [1..n -> Int],
         NEW d2 \in [1..(n - 1) -> Int], NEW r2 \in [1..(n - 1) -> Int],
         Sums(n, d, r),
         \A k \in 1..(n - 1) : r2[k] = IF k < i THEN r[k] ELSE r[k + 1],
         \A k \in 1..(n - 1) : d2[k] = IF k < i THEN d[k]
                                       ELSE IF k = i THEN d[k + 1] + d[k] ELSE d[k + 1]
  PROVE  Sums(n - 1, d2, r2)
<1> SUFFICES ASSUME NEW p \in 1..(n - 1)
             PROVE  r2[p] = (IF p = 1 THEN 0 ELSE r2[p - 1]) + d2[p]
  BY DEF Sums
<1>0. \A k \in 1..n : r[k] \in Int /\ d[k] \in Int
  OBVIOUS
<1>1. /\ r[p] = (IF p = 1 THEN 0 ELSE r[p - 1]) + d[p]
      /\ r[p + 1] = r[p] + d[p + 1]
  <2>1. p \in 1..n /\ p + 1 \in 1..n /\ p + 1 # 1 /\ (p + 1) - 1 = p
    OBVIOUS
  <2>. QED BY <2>1 DEF Sums
<1>2. CASE p < i
  <2>1. r2[p] = r[p] /\ d2[p] = d[p] /\ (p # 1 => r2[p - 1] = r[p - 1])
    BY <1>2
  <2>. QED BY <1>1, <2>1
<1>3. CASE p = i
  <2>1. r2[p] = r[p + 1] /\ d2[p] = d[p + 1] + d[p] /\ (p # 1 => r2[p - 1] = r[p - 1])
    BY <1>3
  <2> DEFINE x == IF p = 1 THEN 0 ELSE r[p - 1]
  <2>2. p \in 1..n /\ p + 1 \in 1..n /\ (p # 1 => p - 1 \in 1..n)
    OBVIOUS
  <2>3. x \in Int /\ d[p] \in Int /\ d[p + 1] \in Int
    BY <1>0, <2>2
  <2>4. r[p] = x + d[p] /\ r[p + 1] = r[p] + d[p + 1]
    BY <1>1
  <2>5. (IF p = 1 THEN 0 ELSE r2[p - 1]) = x
    BY <2>1
  <2>6. r2[p] = r[p + 1] /\ d2[p] = d[p + 1] + d[p]
    BY <2>1
  <2> HIDE DEF x
  <2>7. r[p + 1] = x + (d[p + 1] + d[p])
    BY <2>3, <2>4
  <2>. QED BY <2>5, <2>6, <2>7
<1>4. CASE p > i
  <2>1. r2[p] = r[p + 1] /\ d2[p] = d[p + 1] /\ p # 1 /\ r2[p - 1] = r[p]
    BY <1>4
  <2>. QED BY <1>1, <2>1
<1>. QED BY <1>2, <1>3, <1>4

\* Insertion before place i with the share e.
LEMMA InsertKeepsSums ==
  ASSUME NEW n \in Nat, NEW i \in 1..(n + 1), NEW e \in Int,
         NEW d \in [1..n -> Int], NEW r \in [1..n -> Int],
         NEW d2 \in [1..(n + 1) -> Int], NEW r2 \in [1..(n + 1) -> Int],
         Sums(n, d, r),
         \A k \in 1..(n + 1) : r2[k] = IF k < i THEN r[k] ELSE IF k = i
                                 THEN (IF i = 1 THEN 0 ELSE r[i - 1]) + e ELSE r[k - 1],
         \A k \in 1..(n + 1) : d2[k] = IF k < i THEN d[k] ELSE IF k = i THEN e
                                 ELSE IF k = i + 1 THEN d[i] - e ELSE d[k - 1]
  PROVE  Sums(n + 1, d2, r2)
<1> SUFFICES ASSUME NEW p \in 1..(n + 1)
             PROVE  r2[p] = (IF p = 1 THEN 0 ELSE r2[p - 1]) + d2[p]
  BY DEF Sums
<1>0. \A k \in 1..n : r[k] \in Int /\ d[k] \in Int
  OBVIOUS
<1>1. \A k \in 1..n : r[k] = (IF k = 1 THEN 0 ELSE r[k - 1]) + d[k]
  BY DEF Sums
<1>2. CASE p < i
  <2>1. r2[p] = r[p] /\ d2[p] = d[p] /\ (p # 1 => r2[p - 1] = r[p - 1]) /\ p \in 1..n
    BY <1>2
  <2>. QED BY <1>1, <2>1
<1>3. CASE p = i
  <2>1. /\ r2[p] = (IF p = 1 THEN 0 ELSE r[p - 1]) + e /\ d2[p] = e
        /\ (p # 1 => r2[p - 1] = r[p - 1])
    BY <1>3
  <2>. QED BY <2>1
<1>4. CASE p = i + 1
  <2>1. /\ r2[p] = r[i] /\ d2[p] = d[i] - e /\ p # 1 /\ i \in 1..n
        /\ r2[p - 1] = (IF i = 1 THEN 0 ELSE r[i - 1]) + e
    BY <1>4
  <2> DEFINE x == IF i = 1 THEN 0 ELSE r[i - 1]
  <2>2. i # 1 => i - 1 \in 1..n
    BY <2>1
  <2>3. x \in Int /\ d[i] \in Int
    BY <1>0, <2>1, <2>2
  <2>4. r[i] = x + d[i]
    BY <1>1, <2>1
  <2>5. r2[p - 1] = x + e
    BY <2>1
  <2> HIDE DEF x
  <2>. QED BY <2>1, <2>3, <2>4, <2>5
<1>5. CASE p > i + 1
  <2>0. p - 1 \in 1..n /\ p - 1 \in 1..(n + 1) /\ p # 1 /\ p - 1 # 1 /\ p # i + 1
        /\ ~(p < i) /\ p # i /\ ~(p - 1 < i) /\ p - 1 # i
    BY <1>5
  <2>1. r2[p] = r[p - 1] /\ d2[p] = d[p - 1] /\ r2[p - 1] = r[(p - 1) - 1]
    BY <2>0
  <2>. QED BY <1>1, <2>0, <2>1
<1>. QED BY <1>2, <1>3, <1>4, <1>5

\* The first timer is taken off the list, and its share accounted for.
LEMMA TailKeepsSums ==
  ASSUME NEW n \in Nat \ {0},
         NEW d \in [1..n -> Int], NEW r \in [1..n -> Int],
         NEW d2 \in [1..(n - 1) -> Int], NEW r2 \in [1..(n - 1) -> Int],
         Sums(n, d, r),
         NEW e \in Int, e = d[1],
         \A k \in 1..(n - 1) : r2[k] = r[k + 1] - e,
         \A k \in 1..(n - 1) : d2[k] = d[k + 1]
  PROVE  Sums(n - 1, d2, r2) /\ r[1] = e
<1>0. \A k \in 1..n : r[k] \in Int /\ d[k] \in Int
  OBVIOUS
<1>1. \A k \in 1..n : r[k] = (IF k = 1 THEN 0 ELSE r[k - 1]) + d[k]
  BY DEF Sums
<1>2. r[1] = d[1]
  <2>1. 1 \in 1..n
    OBVIOUS
  <2>2. r[1] = 0 + d[1] /\ d[1] \in Int
    BY <1>0, <1>1, <2>1
  <2>. QED BY <2>2
<1>3. ASSUME NEW p \in 1..(n - 1)
      PROVE  r2[p] = (IF p = 1 THEN 0 ELSE r2[p - 1]) + d2[p]
  <2>0. p + 1 \in 1..n /\ p + 1 # 1 /\ (p + 1) - 1 = p /\ p \in 1..n /\ 1 \in 1..n
    OBVIOUS
  <2>1. r[p + 1] = r[p] + d[p + 1] /\ r2[p] = r[p + 1] - d[1] /\ d2[p] = d[p + 1]
    BY <1>1, <2>0
  <2>2. r[p] \in Int /\ d[p + 1] \in Int /\ d[1] \in Int
    BY <1>0, <2>0
  <2>3. r2[p] = (r[p] - d[1]) + d2[p]
    BY ONLY <2>1, <2>2
  <2>4. CASE p = 1
    BY <1>2, <2>2, <2>3, <2>4
  <2>5. CASE p # 1
    <3>1. p - 1 \in 1..(n - 1) /\ (p - 1) + 1 = p
      BY <2>5
    <3>2. r2[p - 1] = r[p] - d[1]
      BY <3>1
    <3>. QED BY <2>3, <2>5, <3>2
  <2>. QED BY <2>4, <2>5
<1>. QED BY <1>2, <1>3 DEF Sums

\* The first timer's share shrinks by the time that has passed.
LEMMA ShortenKeepsSums ==
  ASSUME NEW n \in Nat, NEW e \in Int,
         NEW d \in [1..n -> Int], NEW r \in [1..n -> Int],
         NEW d2 \in [1..n -> Int], NEW r2 \in [1..n -> Int],
         Sums(n, d, r),
         \A k \in 1..n : r2[k] = r[k] - e,
         \A k \in 1..n : d2[k] = IF k = 1 THEN d[k] - e ELSE d[k]
  PROVE  Sums(n, d2, r2)
<1>0. \A k \in 1..n : r[k] \in Int /\ d[k] \in Int
  OBVIOUS
<1>1. \A k \in 1..n : r[k] = (IF k = 1 THEN 0 ELSE r[k - 1]) + d[k]
  BY DEF Sums
<1>2. ASSUME NEW p \in 1..n
      PROVE  r2[p] = (IF p = 1 THEN 0 ELSE r2[p - 1]) + d2[p]
  <2>1. r[p] \in Int /\ d[p] \in Int /\ r2[p] = r[p] - e
    BY <1>0
  <2>2. CASE p = 1
    <3>1. r[p] = 0 + d[p] /\ d2[p] = d[p] - e
      BY <1>1, <2>2
    <3>. QED BY <2>1, <2>2, <3>1
  <2>3. CASE p # 1
    <3>1. p - 1 \in 1..n
      BY <2>3
    <3>2. r[p] = r[p - 1] + d[p] /\ d2[p] = d[p] /\ r2[p - 1] = r[p - 1] - e
      BY <1>1, <2>3, <3>1
    <3>3. r[p - 1] \in Int
      BY <1>0, <3>1
    <3>. QED BY <2>1, <2>3, <3>2, <3>3
  <2>. QED BY <2>2, <2>3
<1>. QED BY <1>2 DEF Sums

-----------------------------------------------------------------------------
(* The inductive invariant. *)

\* The time until a timer is due, from the time up to which the list is worked
\* off; deltas and times by place on the list.
rem == [t \in Timers |-> due[t] + left]
DeltaAt == [p \in 1..Len(list) |-> expires[list[p]]]
TimeAt == [p \in 1..Len(list) |-> rem[list[p]]]
SumsOK == Sums(Len(list), DeltaAt, TimeAt)

Distinct == \A i, j \in 1..Len(list) : list[i] = list[j] => i = j

\* The insertion under way: what is left of the delay is the timer's time less
\* the time of the timers it has passed.
WalkOK ==
  Walking =>
    /\ walk.timer \in Timers
    /\ walk.pos \in 1..(Len(list) + 1)
    /\ rem[walk.timer] = (IF walk.pos = 1 THEN 0 ELSE rem[list[walk.pos - 1]]) + walk.expires
    /\ owner[walk.timer] \in {"used", "revived", "stray"}

\* The time timer_schedule has still to give out is the time by which the timer
\* it calls back was overdue.
ArrearsOK ==
  /\ left = late /\ early = 0 /\ togo <= slept
  /\ IF dpc = "call" THEN cur \in Timers /\ late <= slept ELSE late = 0

\* No timer has longer to wait on the wall clock than the driver has to sleep for
\* it; Passed is what the driver has slept and not yet reported.
Passed == IF dpc = "sleep" THEN slept - togo ELSE 0
RealOK ==
  \A t \in Timers :
    real[t] = 0 \/ (state[t] # "IDLE" /\ real[t] <= due[t] - Passed)

Inv ==
  /\ TypeOK /\ StatesAgree /\ SumsOK /\ WalkOK /\ DestroyedNotQueued
  /\ ArrearsOK /\ RealOK

\* rem is a function of whole numbers.
LEMMA RemType ==
  ASSUME due \in [Timers -> Int], left \in Nat
  PROVE  rem \in [Timers -> Int] /\ \A t \in Timers : rem[t] = due[t] + left
<1>1. \A t \in Timers : due[t] + left \in Int
  OBVIOUS
<1>. QED BY <1>1 DEF rem

LEMMA SumsMeanDeltas ==
  ASSUME list \in Seq(Timers), expires \in [Timers -> Nat],
         due \in [Timers -> Int], left \in Nat, SumsOK
  PROVE  DeltasAddUp
<1>0. Len(list) \in Nat
  BY LenProperties
<1>1. \A p \in 1..Len(list) :
        rem[list[p]] = (IF p = 1 THEN 0 ELSE rem[list[p - 1]]) + expires[list[p]]
  <2> TAKE p \in 1..Len(list)
  <2>1. TimeAt[p] = (IF p = 1 THEN 0 ELSE TimeAt[p - 1]) + DeltaAt[p]
    BY DEF SumsOK, Sums
  <2>2. TimeAt[p] = rem[list[p]] /\ DeltaAt[p] = expires[list[p]]
    BY DEF TimeAt, DeltaAt
  <2>3. p # 1 => TimeAt[p - 1] = rem[list[p - 1]]
    BY <1>0 DEF TimeAt
  <2>. QED BY <2>1, <2>2, <2>3
<1>2. ASSUME list # <<>> PROVE due[list[1]] + left = expires[list[1]]
  <2>1. 1 \in 1..Len(list) /\ list[1] \in Timers
    BY <1>0, <1>2, EmptySeq, ElementOfSeq
  <2>2. rem[list[1]] = 0 + expires[list[1]] /\ expires[list[1]] \in Nat
    BY <1>1, <2>1
  <2>. QED BY <2>1, <2>2, RemType
<1>3. ASSUME NEW p \in 1..(Len(list) - 1)
      PROVE  due[list[p + 1]] = due[list[p]] + expires[list[p + 1]]
  <2>1. p + 1 \in 1..Len(list) /\ p + 1 # 1 /\ (p + 1) - 1 = p /\ p \in 1..Len(list)
    BY <1>0
  <2>2. rem[list[p + 1]] = rem[list[p]] + expires[list[p + 1]]
    BY <1>1, <2>1
  <2>3. list[p] \in Timers /\ list[p + 1] \in Timers
    BY <2>1, ElementOfSeq
  <2>4. /\ rem[list[p]] = due[list[p]] + left /\ rem[list[p + 1]] = due[list[p + 1]] + left
        /\ due[list[p]] \in Int /\ due[list[p + 1]] \in Int /\ expires[list[p + 1]] \in Nat
    BY <2>3, RemType
  <2> DEFINE x == due[list[p]]
             y == due[list[p + 1]]
             z == expires[list[p + 1]]
  <2>5. x \in Int /\ y \in Int /\ z \in Int /\ y + left = (x + left) + z
    BY <2>2, <2>4
  <2> HIDE DEF x, y, z
  <2>6. y = x + z
    BY <2>5
  <2>. QED BY <2>6 DEF x, y, z
<1>. QED BY <1>2, <1>3 DEF DeltasAddUp

LEMMA NatSum == \A a, b \in Nat : a + b \in Nat
OBVIOUS

\* Where a queued timer is.
LEMMA PosOfQueued ==
  ASSUME list \in Seq(Timers), NEW t \in Queued
  PROVE  PosOf(t) \in 1..Len(list) /\ list[PosOf(t)] = t
BY DEF PosOf, Queued

\* timer_remove_locked keeps the list distinct and the deltas right.
LEMMA UnlinkStep ==
  ASSUME list \in Seq(Timers), expires \in [Timers -> Nat], rem \in [Timers -> Int],
         Distinct, SumsOK, NEW t \in Queued,
         list' = RemoveAt(list, PosOf(t)), expires' = ExpiresWithout(t),
         rem' \in [Timers -> Int], \A u \in Timers \ {t} : rem'[u] = rem[u]
  PROVE  /\ list' \in Seq(Timers) /\ expires' \in [Timers -> Nat]
         /\ Distinct' /\ SumsOK' /\ Queued' = Queued \ {t}
<1> DEFINE i == PosOf(t)
           n == Len(list)
<1>0. n \in Nat /\ \A k \in 1..n : list[k] \in Timers
  BY LenProperties, ElementOfSeq
<1>1. i \in 1..n /\ list[i] = t /\ t \in Timers
  BY <1>0, PosOfQueued
<1>2. /\ list' \in Seq(Timers) /\ Len(list') = n - 1
      /\ \A k \in 1..(n - 1) : list'[k] = IF k < i THEN list[k] ELSE list[k + 1]
  BY <1>1, RemoveAtFacts
<1>3. /\ expires' \in [Timers -> Nat]
      /\ \A k \in 1..n : k # i /\ k # i + 1 => expires'[list[k]] = expires[list[k]]
      /\ i < n => expires'[list[i + 1]] = expires[list[i + 1]] + expires[list[i]]
  <2>1. expires' = [u \in Timers |->
          CASE u = t -> 0
            [] u # t /\ i < n /\ u = list[i + 1] -> expires[u] + expires[t]
            [] OTHER -> expires[u]]
    BY DEF ExpiresWithout
  <2>2. \A u \in Timers : expires[u] \in Nat /\ expires[u] + expires[t] \in Nat
    BY <1>1, NatSum
  <2>3. \A u \in Timers :
          expires'[u] = 0 \/ expires'[u] = expires[u] + expires[t] \/ expires'[u] = expires[u]
    BY <2>1
  <2>4. expires' \in [Timers -> Nat]
    BY <2>1, <2>2, <2>3
  <2>5. ASSUME NEW k \in 1..n, k # i, k # i + 1 PROVE expires'[list[k]] = expires[list[k]]
    <3>0. i < n => i + 1 \in 1..n
      <4> HIDE DEF i, n
      <4>. QED BY ONLY <1>0, <1>1
    <3>1. list[k] # t /\ ~(i < n /\ list[k] = list[i + 1]) /\ list[k] \in Timers
      BY <1>0, <1>1, <2>5, <3>0 DEF Distinct
    <3>. QED BY <2>1, <3>1
  <2>6. ASSUME i < n
        PROVE  expires'[list[i + 1]] = expires[list[i + 1]] + expires[list[i]]
    <3>1. i + 1 \in 1..n
      <4> HIDE DEF i, n
      <4>. QED BY ONLY <1>0, <1>1, <2>6
    <3>2. i + 1 # i
      <4> HIDE DEF i, n
      <4>. QED BY ONLY <1>0, <1>1
    <3>3. list[i + 1] \in Timers /\ list[i + 1] # t
      BY <1>0, <1>1, <3>1, <3>2 DEF Distinct
    <3>. QED BY <1>1, <2>1, <2>6, <3>3
  <2>. QED BY <2>4, <2>5, <2>6
<1>4. \A k \in 1..n : k # i => list[k] # t /\ rem'[list[k]] = rem[list[k]]
  BY <1>0, <1>1 DEF Distinct
<1> HIDE DEF i, n
<1>5. Distinct'
  <2> SUFFICES ASSUME NEW a \in 1..(n - 1), NEW b \in 1..(n - 1), list'[a] = list'[b]
               PROVE  a = b
    BY <1>2 DEF Distinct
  <2>1. /\ a \in 1..n /\ b \in 1..n /\ a + 1 \in 1..n /\ b + 1 \in 1..n
    BY <1>0
  <2>2. \A k, m \in 1..n : list[k] = list[m] => k = m
    BY DEF Distinct, n
  <2>3. CASE a < i /\ b < i
    BY <1>2, <2>1, <2>2, <2>3
  <2>4. CASE a < i /\ ~(b < i)
    <3>1. a = b + 1
      BY <1>2, <2>1, <2>2, <2>4
    <3>. QED BY <1>0, <1>1, <2>4, <3>1
  <2>5. CASE ~(a < i) /\ b < i
    <3>1. a + 1 = b
      BY <1>2, <2>1, <2>2, <2>5
    <3>. QED BY <1>0, <1>1, <2>5, <3>1
  <2>6. CASE ~(a < i) /\ ~(b < i)
    <3>1. a + 1 = b + 1
      BY <1>2, <2>1, <2>2, <2>6
    <3>. QED BY <1>0, <3>1
  <2>. QED BY <2>3, <2>4, <2>5, <2>6
<1>6. SumsOK'
  <2> DEFINE d == DeltaAt
             r == TimeAt
             d2 == [p \in 1..(n - 1) |-> expires'[list'[p]]]
             r2 == [p \in 1..(n - 1) |-> rem'[list'[p]]]
  <2>1. d \in [1..n -> Int] /\ r \in [1..n -> Int] /\ Sums(n, d, r)
    BY <1>0 DEF DeltaAt, TimeAt, SumsOK, n
  <2>2. \A k \in 1..n : d[k] = expires[list[k]] /\ r[k] = rem[list[k]]
    BY DEF DeltaAt, TimeAt, n
  <2>3. \A k \in 1..(n - 1) : list'[k] \in Timers
    BY <1>2, ElementOfSeq
  <2>4. d2 \in [1..(n - 1) -> Int] /\ r2 \in [1..(n - 1) -> Int]
    BY <1>3, <2>3
  <2>5. ASSUME NEW k \in 1..(n - 1)
        PROVE  /\ r2[k] = IF k < i THEN r[k] ELSE r[k + 1]
               /\ d2[k] = IF k < i THEN d[k]
                          ELSE IF k = i THEN d[k + 1] + d[k] ELSE d[k + 1]
    <3>1. k \in 1..n /\ k + 1 \in 1..n /\ (k = i => i < n)
      BY <1>0, <1>1
    <3>2. r2[k] = rem'[list'[k]] /\ d2[k] = expires'[list'[k]]
      OBVIOUS
    <3>3. CASE k < i
      <4>0. k # i /\ k # i + 1
        BY <1>0, <1>1, <3>3
      <4>1. list'[k] = list[k] /\ k # i /\ k # i + 1
        BY <1>2, <3>3, <4>0
      <4>. QED BY <1>3, <1>4, <2>2, <3>1, <3>2, <3>3, <4>1
    <3>4. CASE k = i
      <4>0. ~(k < i) /\ k + 1 # i /\ k + 1 = i + 1
        BY ONLY k \in 1..(n - 1), <1>0, <1>1, <3>4
      <4>1. list'[k] = list[k + 1] /\ ~(k < i) /\ k + 1 # i /\ k + 1 = i + 1
        BY ONLY k \in 1..(n - 1), <1>2, <4>0
      <4>2. rem'[list[k + 1]] = rem[list[k + 1]]
        BY <1>4, <3>1, <4>1
      <4>3. expires'[list[k + 1]] = expires[list[k + 1]] + expires[list[k]]
        BY <1>3, <3>1, <3>4
      <4>. QED BY <2>2, <3>1, <3>2, <3>4, <4>1, <4>2, <4>3
    <3>5. CASE k > i
      <4>0. ~(k < i) /\ k # i /\ k + 1 # i /\ k + 1 # i + 1
        BY <1>0, <1>1, <3>5
      <4>1. list'[k] = list[k + 1] /\ ~(k < i) /\ k # i /\ k + 1 # i /\ k + 1 # i + 1
        BY <1>2, <4>0
      <4>2. rem'[list[k + 1]] = rem[list[k + 1]]
        BY <1>4, <3>1, <4>1
      <4>3. expires'[list[k + 1]] = expires[list[k + 1]]
        BY <1>3, <3>1, <4>1
      <4>. QED BY <2>2, <3>1, <3>2, <4>1, <4>2, <4>3
    <3>. QED BY <1>0, <1>1, <3>3, <3>4, <3>5
  <2> HIDE DEF d, r, d2, r2
  <2>6. Sums(n - 1, d2, r2)
    BY <1>0, <1>1, <2>1, <2>4, <2>5, RemoveKeepsSums
  <2>. QED BY <1>2, <2>6 DEF SumsOK, DeltaAt, TimeAt, d2, r2
<1>7. Queued' = Queued \ {t}
  <2>0. Queued' = {list'[p] : p \in 1..(n - 1)} /\ Queued = {list[p] : p \in 1..n}
    BY <1>2 DEF Queued, n
  <2>1. ASSUME NEW u \in Queued' PROVE u \in Queued /\ u # t
    <3>1. PICK k \in 1..(n - 1) : u = list'[k]
      BY <2>0, <2>1
    <3>2. k \in 1..n /\ k + 1 \in 1..n
      BY <1>0
    <3>3. CASE k < i
      <4>0. k # i
        BY ONLY k \in 1..(n - 1), <1>0, <1>1, <3>3
      <4>1. u = list[k] /\ k # i
        BY ONLY k \in 1..(n - 1), <1>2, <3>1, <3>3, <4>0
      <4>. QED BY <1>4, <2>0, <3>2, <4>1
    <3>4. CASE ~(k < i)
      <4>1. u = list[k + 1]
        BY <1>2, <3>1, <3>4
      <4>2. k + 1 # i
        BY <1>0, <1>1, <3>4
      <4>. QED BY <1>4, <2>0, <3>2, <4>1, <4>2
    <3>. QED BY <3>3, <3>4
  <2>2. ASSUME NEW u \in Queued, u # t PROVE u \in Queued'
    <3>1. PICK k \in 1..n : u = list[k]
      BY <2>0, <2>2
    <3>2. k # i
      BY <1>1, <2>2, <3>1
    <3>3. CASE k < i
      <4>0. k \in 1..(n - 1)
        BY <1>0, <1>1, <3>3
      <4>1. k \in 1..(n - 1) /\ list'[k] = u
        BY <1>2, <3>1, <3>3, <4>0
      <4>. QED BY <2>0, <4>1
    <3>4. CASE k > i
      <4>1. k - 1 \in 1..(n - 1) /\ ~(k - 1 < i) /\ (k - 1) + 1 = k
        BY <1>0, <1>1, <3>4
      <4>2. list'[k - 1] = u
        BY <1>2, <3>1, <4>1
      <4>. QED BY <2>0, <4>1, <4>2
    <3>. QED BY <1>0, <1>1, <3>2, <3>3, <3>4
  <2>. QED BY <2>1, <2>2
<1>. QED BY <1>2, <1>3, <1>5, <1>6, <1>7

\* The end of timer_add_locked keeps the list distinct and the deltas right.
LEMMA InsertStep ==
  ASSUME list \in Seq(Timers), expires \in [Timers -> Nat], rem \in [Timers -> Int],
         Distinct, SumsOK, NEW t \in Timers, t \notin Queued,
         NEW i \in 1..(Len(list) + 1), NEW e \in Nat,
         i <= Len(list) => e < expires[list[i]],
         rem[t] = (IF i = 1 THEN 0 ELSE rem[list[i - 1]]) + e,
         list' = InsertAt(list, i, t), rem' = rem,
         expires' = [u \in Timers |->
           CASE u = t -> e
             [] u # t /\ i <= Len(list) /\ u = list[i] -> expires[u] - e
             [] OTHER -> expires[u]]
  PROVE  /\ list' \in Seq(Timers) /\ expires' \in [Timers -> Nat]
         /\ Distinct' /\ SumsOK' /\ Queued' = Queued \cup {t}
<1> DEFINE n == Len(list)
<1>0. n \in Nat /\ \A k \in 1..n : list[k] \in Timers
  BY LenProperties, ElementOfSeq
<1>1. \A k \in 1..n : list[k] # t
  BY DEF Queued
<1>2. /\ list' \in Seq(Timers) /\ Len(list') = n + 1
      /\ \A k \in 1..(n + 1) :
           list'[k] = IF k < i THEN list[k] ELSE IF k = i THEN t ELSE list[k - 1]
  <2>1. /\ InsertAt(list, i, t) \in Seq(Timers)
        /\ Len(InsertAt(list, i, t)) = Len(list) + 1
        /\ \A k \in 1..(Len(list) + 1) :
             InsertAt(list, i, t)[k] =
               IF k < i THEN list[k] ELSE IF k = i THEN t ELSE list[k - 1]
    BY ONLY list \in Seq(Timers), t \in Timers, i \in 1..(Len(list) + 1), InsertAtFacts
  <2>. QED BY <2>1, Zenon
<1>3. \A k, m \in 1..n : list[k] = list[m] => k = m
  BY DEF Distinct
<1>4. /\ expires'[t] = e
      /\ \A k \in 1..n : k # i => expires'[list[k]] = expires[list[k]]
      /\ i <= n => expires'[list[i]] = expires[list[i]] - e
  <2>1. expires'[t] = e
    OBVIOUS
  <2>2. ASSUME NEW k \in 1..n, k # i PROVE expires'[list[k]] = expires[list[k]]
    <3>1. list[k] \in Timers /\ list[k] # t
      BY <1>0, <1>1
    <3>2. ~(i <= n /\ list[k] = list[i])
      BY <1>3, <2>2
    <3>. QED BY <3>1, <3>2
  <2>3. ASSUME i <= n PROVE expires'[list[i]] = expires[list[i]] - e
    <3>1. list[i] \in Timers /\ list[i] # t
      BY <1>0, <1>1, <2>3
    <3>. QED BY <2>3, <3>1
  <2>. QED BY <2>1, <2>2, <2>3
<1>5. expires' \in [Timers -> Nat]
  <2> SUFFICES ASSUME NEW u \in Timers PROVE expires'[u] \in Nat
    OBVIOUS
  <2>1. CASE u = t
    BY <1>4, <2>1
  <2>2. CASE u # t /\ i <= n /\ u = list[i]
    <3>1. expires'[u] = expires[u] - e /\ e < expires[u] /\ expires[u] \in Nat
      BY <1>4, <2>2
    <3>. QED BY <3>1
  <2>3. CASE u # t /\ ~(i <= n /\ u = list[i])
    <3>1. expires'[u] = expires[u]
      BY <2>3
    <3>. QED BY <3>1
  <2>. QED BY <2>1, <2>2, <2>3
<1> HIDE DEF n
<1>6. Distinct'
  <2> SUFFICES ASSUME NEW a \in 1..(n + 1), NEW b \in 1..(n + 1), list'[a] = list'[b]
               PROVE  a = b
    BY <1>2 DEF Distinct
  <2> DEFINE old(k) == IF k < i THEN k ELSE k - 1
  <2>1. ASSUME NEW k \in 1..(n + 1), k # i
        PROVE  old(k) \in 1..n /\ list'[k] = list[old(k)]
    <3>1. (k < i => k \in 1..n) /\ (~(k < i) => k - 1 \in 1..n)
      BY <1>0, <2>1, SMTT(60) DEF n
    <3>. QED BY <1>2, <2>1, <3>1
  <2>2. list'[i] = t
    BY <1>0, <1>2 DEF n
  <2>3. CASE a = i \/ b = i
    BY <1>1, <2>1, <2>2, <2>3
  <2>4. CASE a # i /\ b # i
    <3>1. old(a) = old(b)
      BY <1>3, <2>1, <2>4, SMTT(60)
    <3>2. i \in Int /\ a \in Int /\ b \in Int
      BY <1>0
    <3>. QED BY <2>4, <3>1, <3>2
  <2>. QED BY <2>3, <2>4
<1>7. SumsOK'
  <2> DEFINE d == DeltaAt
             r == TimeAt
             d2 == [p \in 1..(n + 1) |-> expires'[list'[p]]]
             r2 == [p \in 1..(n + 1) |-> rem'[list'[p]]]
  <2>1. d \in [1..n -> Int] /\ r \in [1..n -> Int] /\ Sums(n, d, r)
    BY <1>0 DEF DeltaAt, TimeAt, SumsOK, n
  <2>2. \A k \in 1..n : d[k] = expires[list[k]] /\ r[k] = rem[list[k]]
    BY DEF DeltaAt, TimeAt, n
  <2>3. \A k \in 1..(n + 1) : list'[k] \in Timers
    BY <1>2, ElementOfSeq
  <2>4. d2 \in [1..(n + 1) -> Int] /\ r2 \in [1..(n + 1) -> Int]
    BY <1>5, <2>3
  <2>6. i \in 1..(n + 1) /\ e \in Int
    BY DEF n
  <2>5. ASSUME NEW k \in 1..(n + 1)
        PROVE  /\ r2[k] = IF k < i THEN r[k] ELSE IF k = i
                          THEN (IF i = 1 THEN 0 ELSE r[i - 1]) + e ELSE r[k - 1]
               /\ d2[k] = IF k < i THEN d[k] ELSE IF k = i THEN e
                          ELSE IF k = i + 1 THEN d[i] - e ELSE d[k - 1]
    <3>1. r2[k] = rem[list'[k]] /\ d2[k] = expires'[list'[k]]
      OBVIOUS
    <3>2. CASE k < i
      <4>1. k \in 1..n /\ k # i
        BY ONLY k \in 1..(n + 1), <1>0, <2>6, <3>2
      <4>2. list'[k] = list[k]
        BY ONLY k \in 1..(n + 1), <1>2, <3>2
      <4>. QED BY <1>4, <2>2, <3>1, <3>2, <4>1, <4>2
    <3>3. CASE k = i
      <4>1. list'[k] = t
        BY <1>2, <3>3
      <4>2. i # 1 => i - 1 \in 1..n
        BY <1>0, SMTT(60) DEF n
      <4>3. i # 1 => r[i - 1] = rem[list[i - 1]]
        BY <2>2, <4>2
      <4>. QED BY <1>4, <3>1, <3>3, <4>1, <4>3
    <3>4. CASE k > i
      <4>1. /\ k - 1 \in 1..n /\ ~(k < i) /\ k # i
            /\ (k = i + 1 => k - 1 = i /\ i <= n) /\ (k # i + 1 => k - 1 # i)
        BY ONLY k \in 1..(n + 1), <1>0, <2>6, <3>4
      <4>2. list'[k] = list[k - 1]
        BY <1>2, <4>1
      <4>3. CASE k = i + 1
        BY <1>4, <2>2, <3>1, <4>1, <4>2, <4>3, SMTT(60)
      <4>4. CASE k # i + 1
        BY <1>4, <2>2, <3>1, <4>1, <4>2, <4>4, ZenonT(60)
      <4>. QED BY <4>3, <4>4
    <3>. QED BY <1>0, <3>2, <3>3, <3>4
  <2> HIDE DEF d, r, d2, r2
  <2>7. Sums(n + 1, d2, r2)
    BY <1>0, <2>1, <2>4, <2>5, <2>6, InsertKeepsSums, ZenonT(60)
  <2>. QED BY <1>2, <2>7 DEF SumsOK, DeltaAt, TimeAt, d2, r2
<1>8. Queued' = Queued \cup {t}
  <2>0. Queued' = {list'[p] : p \in 1..(n + 1)} /\ Queued = {list[p] : p \in 1..n}
    BY <1>2 DEF Queued, n
  <2>1. i \in 1..(n + 1) /\ list'[i] = t
    BY <1>0, <1>2 DEF n
  <2>2. ASSUME NEW u \in Queued', u # t PROVE u \in Queued
    <3>1. PICK k \in 1..(n + 1) : u = list'[k]
      BY <2>0, <2>2
    <3>2. k # i
      BY <2>1, <2>2, <3>1
    <3>3. (k < i => k \in 1..n) /\ (~(k < i) => k - 1 \in 1..n)
      BY <1>0, <3>2, SMTT(60) DEF n
    <3>4. u = IF k < i THEN list[k] ELSE list[k - 1]
      BY <1>2, <3>1, <3>2
    <3>. QED BY <2>0, <3>3, <3>4
  <2>3. ASSUME NEW u \in Queued PROVE u \in Queued'
    <3>1. PICK k \in 1..n : u = list[k]
      BY <2>0, <2>3
    <3>2. k \in 1..(n + 1) /\ k + 1 \in 1..(n + 1) /\ (k + 1) - 1 = k
          /\ (~(k < i) => ~(k + 1 < i) /\ k + 1 # i)
      BY <1>0, SMTT(60)
    <3>3. CASE k < i
      BY <1>2, <2>0, <3>1, <3>2, <3>3
    <3>4. CASE ~(k < i)
      <4>1. list'[k + 1] = u
        BY <1>2, <3>1, <3>2, <3>4
      <4>. QED BY <2>0, <3>2, <4>1
    <3>. QED BY <3>3, <3>4
  <2>. QED BY <2>0, <2>1, <2>2, <2>3
<1>. QED BY <1>2, <1>5, <1>6, <1>7, <1>8

\* timer_schedule takes the first timer off: the others' times are accounted
\* for, and its own time has just come.
LEMMA TailStep ==
  ASSUME list \in Seq(Timers), expires \in [Timers -> Nat], rem \in [Timers -> Int],
         Distinct, SumsOK, list # <<>>, list' = Tail(list),
         expires' \in [Timers -> Nat], rem' \in [Timers -> Int],
         \A u \in Queued \ {Head(list)} : expires'[u] = expires[u],
         \A u \in Queued \ {Head(list)} : rem'[u] = rem[u] - expires[Head(list)]
  PROVE  /\ list' \in Seq(Timers) /\ Distinct' /\ SumsOK'
         /\ Head(list) \in Queued /\ Queued' = Queued \ {Head(list)}
         /\ rem[Head(list)] = expires[Head(list)]
<1> DEFINE n == Len(list)
           t == Head(list)
<1>0. n \in Nat /\ n # 0 /\ \A k \in 1..n : list[k] \in Timers
  BY LenProperties, ElementOfSeq, EmptySeq
<1>1. /\ list' \in Seq(Timers) /\ Len(list') = n - 1
      /\ \A k \in 1..(n - 1) : list'[k] = list[k + 1]
  BY <1>0, HeadTailProperties
<1>2. t = list[1] /\ t \in Timers /\ 1 \in 1..n
  BY <1>0, HeadTailProperties
<1>3. \A k, m \in 1..n : list[k] = list[m] => k = m
  BY DEF Distinct
<1>4. \A k \in 1..(n - 1) : k + 1 \in 1..n /\ k + 1 # 1
  BY <1>0
<1>5. Queued = {list[p] : p \in 1..n} /\ Queued' = {list'[p] : p \in 1..(n - 1)}
  BY <1>1 DEF Queued
<1>6. \A k \in 1..(n - 1) : /\ list[k + 1] # t
                             /\ rem'[list[k + 1]] = rem[list[k + 1]] - expires[t]
                             /\ expires'[list[k + 1]] = expires[list[k + 1]]
  <2> TAKE k \in 1..(n - 1)
  <2>1. list[k + 1] # t
    BY <1>2, <1>3, <1>4
  <2>2. list[k + 1] \in Queued
    BY <1>4, <1>5
  <2>. QED BY <2>1, <2>2
<1> HIDE DEF n, t
<1>7. Distinct'
  <2> SUFFICES ASSUME NEW a \in 1..(n - 1), NEW b \in 1..(n - 1), list'[a] = list'[b]
               PROVE  a = b
    BY <1>1 DEF Distinct
  <2>1. a + 1 = b + 1
    BY <1>1, <1>3, <1>4
  <2>. QED BY <1>0, <2>1
<1>8. Queued' = Queued \ {t}
  <2>1. ASSUME NEW u \in Queued' PROVE u \in Queued /\ u # t
    <3>1. PICK k \in 1..(n - 1) : u = list'[k]
      BY ONLY <1>5, <2>1
    <3>2. u = list[k + 1] /\ k + 1 \in 1..n
      BY ONLY <1>1, <1>4, <3>1
    <3>. QED BY ONLY <1>5, <1>6, <3>1, <3>2
  <2>2. ASSUME NEW u \in Queued, u # t PROVE u \in Queued'
    <3>1. PICK k \in 1..n : u = list[k]
      BY <1>5, <2>2
    <3>2. k # 1
      BY <1>2, <2>2, <3>1
    <3>3. k - 1 \in 1..(n - 1) /\ (k - 1) + 1 = k
      BY <1>0, <3>2
    <3>4. list'[k - 1] = u
      BY <1>1, <3>1, <3>3
    <3>. QED BY <1>5, <3>3, <3>4
  <2>. QED BY <2>1, <2>2
<1>9. SumsOK' /\ rem[t] = expires[t]
  <2> DEFINE d == DeltaAt
             r == TimeAt
             d2 == [p \in 1..(n - 1) |-> expires'[list'[p]]]
             r2 == [p \in 1..(n - 1) |-> rem'[list'[p]]]
  <2>1. d \in [1..n -> Int] /\ r \in [1..n -> Int] /\ Sums(n, d, r)
    BY <1>0, SMTT(60) DEF DeltaAt, TimeAt, SumsOK, n
  <2>2. \A k \in 1..n : d[k] = expires[list[k]] /\ r[k] = rem[list[k]]
    BY DEF DeltaAt, TimeAt, n
  <2>3. \A k \in 1..(n - 1) : list'[k] \in Timers
    BY <1>1, ElementOfSeq
  <2>4. d2 \in [1..(n - 1) -> Int] /\ r2 \in [1..(n - 1) -> Int]
    <3>1. \A k \in 1..(n - 1) : expires'[list'[k]] \in Int /\ rem'[list'[k]] \in Int
      BY ONLY <2>3, expires' \in [Timers -> Nat], rem' \in [Timers -> Int]
    <3>. QED BY ONLY <3>1
  <2>5. d[1] = expires[t] /\ r[1] = rem[t] /\ expires[t] \in Int
    BY <1>2, <2>2
  <2>6. ASSUME NEW k \in 1..(n - 1)
        PROVE  r2[k] = r[k + 1] - expires[t] /\ d2[k] = d[k + 1]
    BY <1>1, <1>4, <1>6, <2>2
  <2> HIDE DEF d, r, d2, r2
  <2>7. Sums(n - 1, d2, r2) /\ r[1] = expires[t]
    <3>1. n \in Nat \ {0}
      BY <1>0
    <3>2. \A k \in 1..(n - 1) : r2[k] = r[k + 1] - expires[t]
      BY ONLY <2>6
    <3>3. \A k \in 1..(n - 1) : d2[k] = d[k + 1]
      BY ONLY <2>6
    <3> DEFINE e == expires[t]
    <3>4. e \in Int /\ e = d[1] /\ \A k \in 1..(n - 1) : r2[k] = r[k + 1] - e
      BY ONLY <2>5, <3>2
    <3> HIDE DEF e
    <3>5. Sums(n - 1, d2, r2) /\ r[1] = e
      BY ONLY <2>1, <2>4, <3>1, <3>3, <3>4, TailKeepsSums, ZenonT(120)
    <3>. QED BY <3>5 DEF e
  <2>8. SumsOK'
    BY <1>1, <2>7 DEF SumsOK, DeltaAt, TimeAt, d2, r2
  <2>. QED BY <2>5, <2>7, <2>8
<1>10. t \in Queued
  BY <1>2, <1>5
<1>. QED BY <1>1, <1>7, <1>8, <1>9, <1>10 DEF t

\* timer_schedule shortens the first timer's share, and with it all times.
LEMMA ShortenStep ==
  ASSUME list \in Seq(Timers), expires \in [Timers -> Nat], rem \in [Timers -> Int],
         Distinct, SumsOK, list # <<>>, NEW e \in Nat, expires[Head(list)] > e,
         list' = list, expires' = [expires EXCEPT ![Head(list)] = @ - e],
         rem' \in [Timers -> Int], \A u \in Queued : rem'[u] = rem[u] - e
  PROVE  expires' \in [Timers -> Nat] /\ SumsOK'
<1> DEFINE n == Len(list)
           t == Head(list)
<1>0. n \in Nat /\ n # 0 /\ \A k \in 1..n : list[k] \in Timers
  BY LenProperties, ElementOfSeq, EmptySeq
<1>1. t = list[1] /\ t \in Timers /\ 1 \in 1..n
  BY <1>0, HeadTailProperties
<1>2. \A k, m \in 1..n : list[k] = list[m] => k = m
  BY DEF Distinct
<1>3. \A k \in 1..n : list[k] \in Queued
  BY DEF Queued
<1>4. expires' \in [Timers -> Nat]
  <2>1. expires[t] \in Nat /\ expires[t] > e
    BY <1>1
  <2>2. expires[t] - e \in Nat
    BY <2>1
  <2>. QED BY <1>1, <2>2
<1>5. rem' \in [Timers -> Int]
  OBVIOUS
<1>6. SumsOK'
  <2> DEFINE d == DeltaAt
             r == TimeAt
             d2 == [p \in 1..n |-> expires'[list[p]]]
             r2 == [p \in 1..n |-> rem'[list[p]]]
  <2>1. d \in [1..n -> Int] /\ r \in [1..n -> Int] /\ Sums(n, d, r)
    <3>1. \A k \in 1..n : expires[list[k]] \in Int /\ rem[list[k]] \in Int
      BY <1>0
    <3>2. d \in [1..n -> Int] /\ r \in [1..n -> Int]
      BY <3>1 DEF DeltaAt, TimeAt
    <3>. QED BY <3>2 DEF SumsOK
  <2>2. \A k \in 1..n : d[k] = expires[list[k]] /\ r[k] = rem[list[k]]
    BY DEF DeltaAt, TimeAt
  <2>3. d2 \in [1..n -> Int] /\ r2 \in [1..n -> Int]
    BY <1>0, <1>4, <1>5
  <2>4. \A k \in 1..n : r2[k] = r[k] - e
    BY <1>0, <1>3, <2>2
  <2>5. \A k \in 1..n : d2[k] = IF k = 1 THEN d[k] - e ELSE d[k]
    <3> TAKE k \in 1..n
    <3>1. list[k] \in Timers /\ (list[k] = t <=> k = 1)
      BY <1>0, <1>1, <1>2
    <3>. QED BY <1>1, <2>2, <3>1
  <2>6. n \in Nat /\ e \in Int
    BY <1>0
  <2> HIDE DEF d, r, d2, r2, n
  <2>7. Sums(n, d2, r2)
    BY ONLY <2>6, <2>1, <2>3, <2>4, <2>5, ShortenKeepsSums, Zenon
  <2>. QED BY <2>7 DEF SumsOK, DeltaAt, TimeAt, d2, r2, n
<1>. QED BY <1>4, <1>6

\* A step that leaves the list, and the times of the timers on it, alone.
LEMMA FrameStep ==
  ASSUME list' = list,
         \A u \in Queued : expires'[u] = expires[u] /\ rem'[u] = rem[u]
  PROVE  Queued' = Queued /\ (Distinct => Distinct') /\ (SumsOK => SumsOK')
<1>1. \A p \in 1..Len(list) : list[p] \in Queued
  BY DEF Queued
<1>2. DeltaAt' = DeltaAt /\ TimeAt' = TimeAt
  BY <1>1 DEF DeltaAt, TimeAt
<1>. QED BY <1>2 DEF Queued, Distinct, SumsOK

-----------------------------------------------------------------------------
(* Every step keeps the invariant. *)

Held == {"used", "revived", "stray"}

\* A state in which no timer is armed and nothing is under way.
LEMMA InitHolds == Init => Inv
<1> SUFFICES ASSUME Init PROVE Inv
  OBVIOUS
<1>0. list = <<>> /\ Len(list) = 0 /\ 1..Len(list) = {}
  BY DEF Init
<1>1. TypeOK
  <2>1. list \in Seq(Timers)
    BY <1>0
  <2>2. walk \in [timer : Timers \cup {NoTimer}, expires : Nat, pos : Nat]
    BY DEF Init, NoWalk
  <2>3. late \in Int /\ early \in Nat
    BY DEF Init
  <2>4. owner \in [Timers -> Owners] /\ state \in [Timers -> {"IDLE", "INSERT", "ACTIVED"}]
    BY DEF Init, Owners
  <2>5. expires \in [Timers -> Nat] /\ due \in [Timers -> Int] /\ real \in [Timers -> Nat]
    BY DEF Init
  <2>6. /\ dpc \in {"sleep", "call", "ub"} /\ slept \in Nat /\ togo \in Nat /\ left \in Nat
        /\ cur \in Timers \cup {NoTimer}
    BY IdleSleepAssumption DEF Init
  <2>. QED BY <2>1, <2>2, <2>3, <2>4, <2>5, <2>6 DEF TypeOK
<1>2. walk.timer = NoTimer /\ ~Walking
  BY DEF Init, NoWalk, Walking
<1>3. StatesAgree
  <2>1. Queued = {}
    BY <1>0 DEF Queued
  <2>2. \A t \in Timers : state[t] = "IDLE"
    BY DEF Init
  <2>. QED BY <1>0, <1>2, <2>1, <2>2, TimersAssumption DEF StatesAgree
<1>4. SumsOK /\ DestroyedNotQueued
  BY <1>0 DEF SumsOK, Sums, DestroyedNotQueued
<1>5. ArrearsOK /\ RealOK
  BY IdleSleepAssumption DEF Init, ArrearsOK, RealOK
<1>. QED BY <1>1, <1>2, <1>3, <1>4, <1>5 DEF Inv, WalkOK

\* The final state after undefined behaviour.
LEMMA UndefinedKeeps == ASSUME Undefined PROVE Inv'
<1>0. list' = <<>> /\ Len(list') = 0 /\ 1..Len(list') = {}
  BY DEF Undefined
<1>1. TypeOK'
  <2>1. list' \in Seq(Timers)
    BY <1>0
  <2>2. walk' \in [timer : Timers \cup {NoTimer}, expires : Nat, pos : Nat]
    BY DEF Undefined, NoWalk
  <2>3. late' \in Int /\ early' \in Nat
    BY DEF Undefined
  <2>4. owner' \in [Timers -> Owners] /\ state' \in [Timers -> {"IDLE", "INSERT", "ACTIVED"}]
    BY DEF Undefined, Owners
  <2>5. expires' \in [Timers -> Nat] /\ due' \in [Timers -> Int] /\ real' \in [Timers -> Nat]
    BY DEF Undefined
  <2>6. /\ dpc' \in {"sleep", "call", "ub"} /\ slept' \in Nat /\ togo' \in Nat /\ left' \in Nat
        /\ cur' \in Timers \cup {NoTimer}
    BY DEF Undefined
  <2>. QED BY <2>1, <2>2, <2>3, <2>4, <2>5, <2>6 DEF TypeOK
<1>2. walk'.timer = NoTimer /\ ~Walking'
  BY DEF Undefined, NoWalk, Walking
<1>3. StatesAgree'
  <2>1. Queued' = {}
    BY <1>0 DEF Queued
  <2>2. \A t \in Timers : state'[t] = "IDLE"
    BY DEF Undefined
  <2>. QED BY <1>0, <1>2, <2>1, <2>2, TimersAssumption DEF StatesAgree
<1>4. SumsOK' /\ DestroyedNotQueued'
  BY <1>0 DEF SumsOK, Sums, DestroyedNotQueued
<1>5. ArrearsOK' /\ RealOK'
  BY DEF Undefined, ArrearsOK, RealOK
<1>. QED BY <1>1, <1>2, <1>3, <1>4, <1>5 DEF Inv, WalkOK

\* The parts of the invariant that concern the list, by set instead of by place.
LEMMA QueuedFacts ==
  ASSUME Inv
  PROVE  /\ Distinct /\ SumsOK /\ Queued \subseteq Timers
         /\ \A u \in Queued : owner[u] \in Held
         /\ \A u \in Timers : state[u] = "ACTIVED" <=> u \in Queued
         /\ \A u \in Timers : state[u] = "INSERT" <=> walk.timer = u
         /\ \A u \in Timers : state[u] \in {"IDLE", "INSERT", "ACTIVED"}
         /\ rem \in [Timers -> Int] /\ \A u \in Timers : rem[u] = due[u] + left
<1>1. list \in Seq(Timers) /\ \A u \in Timers : state[u] \in {"IDLE", "INSERT", "ACTIVED"}
  BY DEF Inv, TypeOK
<1>2. \A p \in 1..Len(list) : list[p] \in Timers
  BY <1>1, ElementOfSeq
<1>3. Queued \subseteq Timers
  BY <1>2 DEF Queued
<1>4. \A u \in Queued : owner[u] \in Held
  BY DEF Inv, DestroyedNotQueued, Queued, Held
<1>5. rem \in [Timers -> Int] /\ \A u \in Timers : rem[u] = due[u] + left
  BY RemType DEF Inv, TypeOK
<1>. QED BY <1>1, <1>3, <1>4, <1>5 DEF Inv, StatesAgree, Distinct

\* rem after a step that does not change what timer_schedule has to give out.
LEMMA RemSame ==
  ASSUME Inv, left' = left, due' = due
  PROVE  rem' = rem
BY DEF rem

\* The countdowns of a step that leaves the driver alone.
LEMMA CountdownsKept ==
  ASSUME Inv, driver' = driver,
         \A u \in Timers : \/ real'[u] = 0
                           \/ /\ real'[u] = real[u] /\ due'[u] = due[u]
                              /\ state[u] # "IDLE" => state'[u] # "IDLE"
  PROVE  ArrearsOK' /\ RealOK'
<1>1. ArrearsOK' /\ Passed' = Passed
  BY DEF Inv, ArrearsOK, Passed, driver
<1>2. RealOK'
  <2> SUFFICES ASSUME NEW u \in Timers, real'[u] # 0
               PROVE  state'[u] # "IDLE" /\ real'[u] <= due'[u] - Passed'
    BY DEF RealOK
  <2>. QED BY <1>1 DEF Inv, RealOK
<1>. QED BY <1>1, <1>2

LEMMA CreateKeeps == ASSUME Inv, NEW t \in Timers, Create(t) PROVE Inv'
<1>0. CASE Undefined
  BY <1>0, UndefinedKeeps
<1>. SUFFICES ASSUME ~Undefined PROVE Inv'
  BY <1>0
<1>1. t \notin Queued /\ state[t] = "IDLE"
  <2>1. owner[t] = "free"
    BY DEF Create
  <2>2. t \notin Queued
    BY <2>1, QueuedFacts DEF Held
  <2>3. walk.timer # t
    BY <2>1, TimersAssumption DEF Inv, WalkOK, Walking
  <2>. QED BY <2>2, <2>3, QueuedFacts
<1>2. /\ owner[t] = "free" /\ owner' = [owner EXCEPT ![t] = "used"]
      /\ expires' = [expires EXCEPT ![t] = 0] /\ state' = [state EXCEPT ![t] = "IDLE"]
      /\ list' = list /\ walk' = walk /\ driver' = driver /\ due' = due /\ real' = real
  BY DEF Create
<1>3. TypeOK'
  BY <1>2 DEF Inv, TypeOK, driver, Owners
<1>4. rem' = rem
  BY <1>2, RemSame DEF driver
<1>5. Distinct' /\ SumsOK' /\ Queued' = Queued
  <2>1. \A u \in Queued : expires'[u] = expires[u] /\ rem'[u] = rem[u]
    BY <1>1, <1>2, <1>4, QueuedFacts DEF Inv, TypeOK
  <2>. QED BY <1>2, <2>1, FrameStep, QueuedFacts
<1>6. \A u \in Timers : state'[u] = state[u]
  BY <1>1, <1>2 DEF Inv, TypeOK
<1>7. \A u \in Timers : owner[u] \in Held => owner'[u] \in Held
  BY <1>2 DEF Inv, TypeOK, Held
<1>8. StatesAgree' /\ DestroyedNotQueued'
  <2>1. \A u \in Queued' : owner'[u] \in Held
    BY <1>5, <1>7, QueuedFacts
  <2>2. \A u \in Timers : state'[u] = "ACTIVED" <=> u \in Queued'
    BY <1>5, <1>6, QueuedFacts
  <2>3. \A u \in Timers : state'[u] = "INSERT" <=> walk'.timer = u
    BY <1>2, <1>6, QueuedFacts
  <2>. QED BY <1>5, <2>1, <2>2, <2>3 DEF StatesAgree, Distinct, DestroyedNotQueued, Queued, Held
<1>9. WalkOK'
  BY <1>2, <1>4, <1>7 DEF Inv, WalkOK, Walking, Held
<1>10. ArrearsOK' /\ RealOK'
  BY <1>2, <1>6, CountdownsKept
<1>. QED BY <1>3, <1>5, <1>8, <1>9, <1>10 DEF Inv

\* The start of an insertion, shared by timer_add and timer_mod: t is off the
\* list and becomes the timer of the walk.
LEMMA StartKeeps ==
  ASSUME Inv, NEW t \in Timers, NEW e \in Delays, Unlocked, driver' = driver,
         owner' \in [Timers -> Owners], owner'[t] \in Held,
         \A u \in Timers \ {t} : owner'[u] = owner[u],
         StartInsert(t, e), state' = [state EXCEPT ![t] = "INSERT"],
         list' \in Seq(Timers), expires' \in [Timers -> Nat],
         Distinct', SumsOK', Queued' = Queued \ {t}
  PROVE  Inv'
<1>0. e \in Nat /\ ~Walking /\ dpc # "ub"
  BY DelaysAssumption DEF Unlocked
<1>1. \A u \in Timers : (u # t => state'[u] = state[u]) /\ state'[t] = "INSERT"
  BY DEF Inv, TypeOK
<1>2. /\ walk' = [timer |-> t, expires |-> e, pos |-> 1]
      /\ due' = [due EXCEPT ![t] = e - late]
      /\ real' = [real EXCEPT ![t] = IF e > Advance THEN e - Advance ELSE 0]
  BY DEF StartInsert
<1>3. left = late /\ togo <= slept /\ slept \in Nat /\ togo \in Nat /\ left \in Nat
  BY DEF Inv, TypeOK, ArrearsOK
<1>4. Advance \in Nat
  BY <1>3 DEF Advance
<1>5. TypeOK'
  <2>1. e - late \in Int /\ (IF e > Advance THEN e - Advance ELSE 0) \in Nat
    BY <1>0, <1>3, <1>4
  <2>2. due' \in [Timers -> Int] /\ real' \in [Timers -> Nat]
    BY <1>2, <2>1 DEF Inv, TypeOK
  <2>3. walk' \in [timer : Timers \cup {NoTimer}, expires : Nat, pos : Nat]
    BY <1>0, <1>2
  <2>4. state' \in [Timers -> {"IDLE", "INSERT", "ACTIVED"}]
    BY DEF Inv, TypeOK
  <2>. QED BY <2>2, <2>3, <2>4 DEF Inv, TypeOK, driver
<1>6. StatesAgree' /\ DestroyedNotQueued'
  <2>1. \A u \in Queued' : owner'[u] \in Held
    BY QueuedFacts
  <2>2. \A u \in Timers : state'[u] = "ACTIVED" <=> u \in Queued'
    BY <1>1, QueuedFacts
  <2>3. \A u \in Timers : state[u] # "INSERT"
    BY <1>0, QueuedFacts, TimersAssumption DEF Walking
  <2>4. \A u \in Timers : state'[u] = "INSERT" <=> walk'.timer = u
    BY <1>1, <1>2, <2>3
  <2>. QED BY <2>1, <2>2, <2>4 DEF StatesAgree, Distinct, DestroyedNotQueued, Queued, Held
<1>7. WalkOK'
  <2>1. Len(list') \in Nat
    BY LenProperties
  <2>2. walk'.timer = t /\ walk'.expires = e /\ walk'.pos = 1 /\ walk'.pos \in 1..(Len(list') + 1)
    BY <1>2, <2>1
  <2>3. rem'[t] = due'[t] + left'
    BY DEF rem
  <2>4. due'[t] = e - late /\ left' = left
    BY <1>2 DEF Inv, TypeOK, driver
  <2>5. rem'[t] = 0 + walk'.expires
    BY <1>0, <1>3, <2>2, <2>3, <2>4
  <2>. QED BY <2>2, <2>5 DEF WalkOK, Held
<1>8. ArrearsOK' /\ Passed' = Passed
  BY DEF Inv, ArrearsOK, Passed, driver
<1>9. RealOK'
  <2>1. ASSUME NEW u \in Timers, u # t, real'[u] # 0
        PROVE  state'[u] # "IDLE" /\ real'[u] <= due'[u] - Passed'
    <3>1. real'[u] = real[u] /\ due'[u] = due[u] /\ state'[u] = state[u]
      BY <1>1, <1>2, <2>1 DEF Inv, TypeOK
    <3>. QED BY <1>8, <2>1, <3>1 DEF Inv, RealOK
  <2>2. real'[t] = 0 \/ (real'[t] = e - Advance /\ due'[t] = e - late)
    BY <1>2 DEF Inv, TypeOK
  <2>3. e - Advance <= (e - late) - Passed
    <3>1. CASE dpc = "sleep"
      <4>1. late = 0 /\ Advance = slept - togo /\ Passed = slept - togo
        BY <3>1 DEF Inv, ArrearsOK, Advance, Passed
      <4>. QED BY <1>0, <1>3, <4>1
    <3>2. CASE dpc # "sleep"
      <4>1. Advance = late /\ Passed = 0
        BY <3>2 DEF Advance, Passed
      <4>. QED BY <1>0, <1>3, <4>1
    <3>. QED BY <3>1, <3>2
  <2>4. real'[t] = 0 \/ (state'[t] # "IDLE" /\ real'[t] <= due'[t] - Passed')
    BY <1>1, <1>8, <2>2, <2>3
  <2>. QED BY <2>1, <2>4 DEF RealOK
<1>. QED BY <1>5, <1>6, <1>7, <1>8, <1>9 DEF Inv

\* The times of the others when t is armed.
LEMMA ArmKeepsOthers ==
  ASSUME Inv, NEW t \in Timers, NEW e \in Delays, driver' = driver, StartInsert(t, e)
  PROVE  rem' \in [Timers -> Int] /\ \A u \in Timers \ {t} : rem'[u] = rem[u]
<1>0. e \in Nat /\ late \in Int /\ left \in Nat /\ left' = left /\ due \in [Timers -> Int]
  BY DelaysAssumption DEF Inv, TypeOK, driver
<1>1. due' = [due EXCEPT ![t] = e - late] /\ due' \in [Timers -> Int]
  BY <1>0 DEF StartInsert
<1>2. \A u \in Timers : rem'[u] = due'[u] + left /\ due'[u] + left \in Int
  BY <1>0, <1>1 DEF rem
<1>3. rem' \in [Timers -> Int]
  BY <1>0, <1>1, <1>2 DEF rem
<1>4. \A u \in Timers \ {t} : due'[u] = due[u]
  BY <1>0, <1>1
<1>. QED BY <1>2, <1>3, <1>4, QueuedFacts

LEMMA AddKeeps == ASSUME Inv, NEW t \in Timers, NEW e \in Delays, Add(t, e) PROVE Inv'
<1>1. t \notin Queued
  BY QueuedFacts DEF Add
<1>2. /\ list' = list /\ expires' = expires /\ owner' = owner /\ driver' = driver
      /\ StartInsert(t, e) /\ state' = [state EXCEPT ![t] = "INSERT"]
      /\ owner[t] = "used" /\ Unlocked
  BY DEF Add
<1>3. Distinct' /\ SumsOK' /\ Queued' = Queued
  <2>1. \A u \in Queued : expires'[u] = expires[u] /\ rem'[u] = rem[u]
    BY <1>1, <1>2, ArmKeepsOthers, QueuedFacts
  <2>. QED BY <1>2, <2>1, FrameStep, QueuedFacts
<1>4. Queued' = Queued \ {t}
  BY <1>1, <1>3
<1>5. /\ list' \in Seq(Timers) /\ expires' \in [Timers -> Nat] /\ owner' \in [Timers -> Owners]
      /\ owner'[t] \in Held
  BY <1>2 DEF Inv, TypeOK, Held
<1>. QED BY <1>2, <1>3, <1>4, <1>5, StartKeeps

\* timer_mod, whoever owns the timer then.
LEMMA RearmKeeps ==
  ASSUME Inv, NEW t \in Timers, NEW e \in Delays, Rearm(t, e),
         owner' \in [Timers -> Owners], owner'[t] \in Held,
         \A u \in Timers \ {t} : owner'[u] = owner[u]
  PROVE  Inv'
<1>1. /\ Unlocked /\ StartInsert(t, e) /\ driver' = driver
      /\ state' = [state EXCEPT ![t] = "INSERT"]
      /\ list \in Seq(Timers) /\ expires \in [Timers -> Nat]
  BY DEF Inv, TypeOK, Rearm
<1>2. rem' \in [Timers -> Int] /\ \A u \in Timers \ {t} : rem'[u] = rem[u]
  BY <1>1, ArmKeepsOthers
<1>3. /\ list' \in Seq(Timers) /\ expires' \in [Timers -> Nat]
      /\ Distinct' /\ SumsOK' /\ Queued' = Queued \ {t}
  <2>1. CASE state[t] = "IDLE"
    <3>1. t \notin Queued
      BY <2>1, QueuedFacts
    <3>2. list' = list /\ expires' = expires
      BY <2>1 DEF Rearm
    <3>3. \A u \in Queued : expires'[u] = expires[u] /\ rem'[u] = rem[u]
      BY <1>2, <3>1, <3>2, QueuedFacts
    <3>4. Distinct' /\ SumsOK' /\ Queued' = Queued
      BY <3>2, <3>3, FrameStep, QueuedFacts
    <3>. QED BY <1>1, <3>1, <3>2, <3>4
  <2>2. CASE state[t] # "IDLE"
    <3>1. t \in Queued
      <4>1. state[t] # "INSERT"
        BY <1>1, QueuedFacts, TimersAssumption DEF Unlocked, Walking
      <4>. QED BY <2>2, <4>1, QueuedFacts
    <3>2. list' = RemoveAt(list, PosOf(t)) /\ expires' = ExpiresWithout(t)
      BY <2>2 DEF Rearm
    <3>. QED BY <1>1, <1>2, <3>1, <3>2, QueuedFacts, UnlinkStep
  <2>. QED BY <2>1, <2>2
<1>. QED BY <1>1, <1>3, StartKeeps

LEMMA ModKeeps == ASSUME Inv, NEW t \in Timers, NEW e \in Delays, Mod(t, e) PROVE Inv'
<1>1. /\ Rearm(t, e) /\ owner' = owner /\ owner[t] \in Held /\ owner' \in [Timers -> Owners]
  BY DEF Mod, Held, Inv, TypeOK
<1>. QED BY <1>1, RearmKeeps

LEMMA LateModKeeps == ASSUME Inv, NEW e \in Delays, LateMod(e) PROVE Inv'
<1>1. cur \in Timers
  BY DEF Inv, ArrearsOK, LateMod
<1>2. PICK o \in {"stray", "revived"} : owner' = [owner EXCEPT ![cur] = o]
  BY <1>1 DEF LateMod
<1>3. /\ owner' \in [Timers -> Owners] /\ owner'[cur] \in Held
      /\ \A u \in Timers \ {cur} : owner'[u] = owner[u]
  BY <1>1, <1>2 DEF Inv, TypeOK, Owners, Held
<1>. QED BY <1>1, <1>3, RearmKeeps DEF LateMod

\* timer_remove_locked of a timer on the list, in timer_del and os_timer_destroy.
LEMMA UnlinkKeeps ==
  ASSUME Inv, NEW t \in Timers, Unlink(t), ~Walking, walk' = walk, driver' = driver,
         owner' \in [Timers -> Owners], \A u \in Timers \ {t} : owner'[u] = owner[u]
  PROVE  Inv'
<1>1. /\ state[t] = "ACTIVED" /\ t \in Queued
      /\ list' = RemoveAt(list, PosOf(t)) /\ expires' = ExpiresWithout(t)
      /\ state' = [state EXCEPT ![t] = "IDLE"]
      /\ due' = [due EXCEPT ![t] = 0] /\ real' = [real EXCEPT ![t] = 0]
  BY QueuedFacts DEF Unlink
<1>2. /\ list \in Seq(Timers) /\ expires \in [Timers -> Nat] /\ due \in [Timers -> Int]
      /\ left \in Nat /\ left' = left
  BY DEF Inv, TypeOK, driver
<1>3. rem' \in [Timers -> Int] /\ \A u \in Timers \ {t} : rem'[u] = rem[u]
  <2>1. due' \in [Timers -> Int] /\ \A u \in Timers \ {t} : due'[u] = due[u]
    BY <1>1, <1>2
  <2>2. \A u \in Timers : rem'[u] = due'[u] + left /\ due'[u] + left \in Int
    BY <1>2, <2>1 DEF rem
  <2>3. rem' \in [Timers -> Int]
    BY <1>2, <2>1, <2>2 DEF rem
  <2>. QED BY <2>1, <2>2, <2>3, QueuedFacts
<1>4. /\ list' \in Seq(Timers) /\ expires' \in [Timers -> Nat]
      /\ Distinct' /\ SumsOK' /\ Queued' = Queued \ {t}
  BY <1>1, <1>2, <1>3, QueuedFacts, UnlinkStep
<1>5. \A u \in Timers : (u # t => state'[u] = state[u]) /\ state'[t] = "IDLE"
  BY <1>1 DEF Inv, TypeOK
<1>6. TypeOK'
  <2>1. due' \in [Timers -> Int] /\ real' \in [Timers -> Nat]
    BY <1>1 DEF Inv, TypeOK
  <2>2. state' \in [Timers -> {"IDLE", "INSERT", "ACTIVED"}]
    BY <1>1 DEF Inv, TypeOK
  <2>. QED BY <1>4, <2>1, <2>2 DEF Inv, TypeOK, driver
<1>7. StatesAgree' /\ DestroyedNotQueued'
  <2>1. \A u \in Queued' : owner'[u] \in Held
    BY <1>4, QueuedFacts
  <2>2. \A u \in Timers : state'[u] = "ACTIVED" <=> u \in Queued'
    BY <1>4, <1>5, QueuedFacts
  <2>3. \A u \in Timers : state'[u] = "INSERT" <=> walk'.timer = u
    BY <1>1, <1>5, QueuedFacts
  <2>. QED BY <1>4, <2>1, <2>2, <2>3 DEF StatesAgree, Distinct, DestroyedNotQueued, Queued, Held
<1>8. WalkOK'
  BY DEF WalkOK, Walking
<1>9. ArrearsOK' /\ RealOK'
  <2>1. \A u \in Timers : \/ real'[u] = 0
                           \/ /\ real'[u] = real[u] /\ due'[u] = due[u]
                              /\ state[u] # "IDLE" => state'[u] # "IDLE"
    BY <1>1, <1>5 DEF Inv, TypeOK
  <2>. QED BY <2>1, CountdownsKept
<1>. QED BY <1>4, <1>6, <1>7, <1>8, <1>9 DEF Inv

LEMMA DelKeeps == ASSUME Inv, NEW t \in Timers, Del(t) PROVE Inv'
<1>1. /\ ~Walking /\ Unlink(t) /\ walk' = walk /\ driver' = driver
      /\ owner' \in [Timers -> Owners] /\ \A u \in Timers \ {t} : owner'[u] = owner[u]
  BY DEF Del, Unlocked, Inv, TypeOK
<1>. QED BY <1>1, UnlinkKeeps

\* A step that changes nobody but the owner of a timer that stays off the list, or
\* of one that is held before and after.
LEMMA OwnerKeeps ==
  ASSUME Inv, NEW t \in Timers, UNCHANGED <<listVars, walk, driver, due, real>>,
         owner' \in [Timers -> Owners], \A u \in Timers \ {t} : owner'[u] = owner[u],
         state[t] = "IDLE" \/ owner'[t] \in Held
  PROVE  Inv'
<1>1. /\ list' = list /\ expires' = expires /\ state' = state /\ walk' = walk
      /\ driver' = driver /\ due' = due /\ real' = real
  BY DEF listVars
<1>2. rem' = rem
  BY <1>1, RemSame DEF driver
<1>3. Distinct' /\ SumsOK' /\ Queued' = Queued
  BY <1>1, <1>2, FrameStep, QueuedFacts
<1>4. TypeOK'
  BY <1>1 DEF Inv, TypeOK, driver
<1>5. StatesAgree' /\ DestroyedNotQueued'
  <2>1. \A u \in Queued' : owner'[u] \in Held
    BY <1>3, QueuedFacts
  <2>2. \A u \in Timers : state'[u] = "ACTIVED" <=> u \in Queued'
    BY <1>1, <1>3, QueuedFacts
  <2>3. \A u \in Timers : state'[u] = "INSERT" <=> walk'.timer = u
    BY <1>1, QueuedFacts
  <2>. QED BY <1>3, <2>1, <2>2, <2>3 DEF StatesAgree, Distinct, DestroyedNotQueued, Queued, Held
<1>6. WalkOK'
  <2>1. Walking => state[walk.timer] = "INSERT" /\ walk.timer \in Timers
    BY QueuedFacts DEF Inv, WalkOK
  <2>2. Walking => owner'[walk.timer] \in Held
    BY <2>1 DEF Inv, WalkOK, Held
  <2>. QED BY <1>1, <1>2, <2>2 DEF Inv, WalkOK, Walking, Held
<1>7. ArrearsOK' /\ RealOK'
  BY <1>1, CountdownsKept
<1>. QED BY <1>3, <1>4, <1>5, <1>6, <1>7 DEF Inv

LEMMA DestroyKeeps == ASSUME Inv, NEW t \in Timers, Destroy(t) PROVE Inv'
<1>1. /\ ~Walking /\ walk' = walk /\ driver' = driver
      /\ owner' \in [Timers -> Owners] /\ \A u \in Timers \ {t} : owner'[u] = owner[u]
  BY DEF Destroy, Unlocked, Inv, TypeOK, Owners
<1>2. CASE Unlink(t)
  BY <1>1, <1>2, UnlinkKeeps
<1>3. CASE state[t] = "IDLE" /\ UNCHANGED <<listVars, due, real>>
  BY <1>1, <1>3, OwnerKeeps
<1>. QED BY <1>2, <1>3 DEF Destroy

LEMMA FreeKeeps == ASSUME Inv, NEW t \in Timers, Free(t) PROVE Inv'
<1>1. CASE Undefined
  BY <1>1, UndefinedKeeps
<1>2. CASE ~Undefined
  <2>1. /\ owner' = [owner EXCEPT ![t] = IF state[t] = "IDLE" THEN "free" ELSE "stray"]
        /\ UNCHANGED <<listVars, walk, driver, due, real>>
    BY <1>2 DEF Free
  <2>2. PICK o \in {"free", "stray"} :
          owner' = [owner EXCEPT ![t] = o] /\ (state[t] = "IDLE" \/ o = "stray")
    BY <2>1
  <2>3. /\ owner' \in [Timers -> Owners] /\ \A u \in Timers \ {t} : owner'[u] = owner[u]
        /\ state[t] = "IDLE" \/ owner'[t] \in Held
    BY <2>2 DEF Inv, TypeOK, Owners, Held
  <2>. QED BY <2>1, <2>3, OwnerKeeps
<1>. QED BY <1>1, <1>2

LEMMA WalkOnKeeps == ASSUME Inv, WalkOn PROVE Inv'
<1> DEFINE i == walk.pos
           x == expires[list[walk.pos]]
           before == IF i = 1 THEN 0 ELSE rem[list[i - 1]]
<1>0. /\ list' = list /\ expires' = expires /\ state' = state /\ owner' = owner
      /\ due' = due /\ real' = real /\ driver' = driver
  BY DEF WalkOn, listVars
<1>1. /\ list' = list /\ expires' = expires /\ state' = state /\ owner' = owner
      /\ rem' = rem /\ due' = due /\ real' = real /\ driver' = driver
  BY <1>0, RemSame DEF driver
<1>2. Len(list) \in Nat /\ \A k \in 1..Len(list) : list[k] \in Timers
  BY LenProperties, ElementOfSeq DEF Inv, TypeOK
<1>3. /\ walk.timer \in Timers /\ i \in 1..Len(list) /\ walk.expires \in Nat
      /\ rem[walk.timer] = before + walk.expires /\ owner[walk.timer] \in Held
  BY <1>2 DEF Inv, TypeOK, WalkOK, WalkOn, Held
<1>4. list[i] \in Timers /\ x \in Nat /\ rem[list[i]] \in Int
  BY <1>2, <1>3, QueuedFacts DEF Inv, TypeOK
<1>5. before \in Int
  <2>1. i # 1 => list[i - 1] \in Timers
    BY <1>2, <1>3
  <2>2. \A u \in Timers : rem[u] \in Int
    BY QueuedFacts
  <2>. QED BY <2>1, <2>2
<1>6. rem[list[i]] = before + x
  <2>1. TimeAt[i] = (IF i = 1 THEN 0 ELSE TimeAt[i - 1]) + DeltaAt[i]
    BY <1>3 DEF Inv, SumsOK, Sums
  <2>2. TimeAt[i] = rem[list[i]] /\ DeltaAt[i] = x
    BY <1>3 DEF TimeAt, DeltaAt
  <2>3. i # 1 => TimeAt[i - 1] = rem[list[i - 1]]
    BY <1>2, <1>3 DEF TimeAt
  <2>. QED BY <2>1, <2>2, <2>3
<1>7. walk.expires >= x /\ walk' = [walk EXCEPT !.expires = @ - x, !.pos = @ + 1]
  BY DEF WalkOn
<1>8. /\ walk' \in [timer : Timers \cup {NoTimer}, expires : Nat, pos : Nat]
      /\ walk'.timer = walk.timer /\ walk'.expires = walk.expires - x /\ walk'.pos = i + 1
  <2>1. walk.expires - x \in Nat /\ i + 1 \in Nat
    BY <1>2, <1>3, <1>4, <1>7
  <2>2. walk \in [timer : Timers \cup {NoTimer}, expires : Nat, pos : Nat]
    BY DEF Inv, TypeOK
  <2> HIDE DEF x
  <2>. QED BY <1>7, <2>1, <2>2
<1>9. TypeOK'
  BY <1>1, <1>8 DEF Inv, TypeOK, driver
<1>10. SumsOK' /\ StatesAgree' /\ DestroyedNotQueued' /\ ArrearsOK' /\ RealOK'
  <2>1. DeltaAt' = DeltaAt /\ TimeAt' = TimeAt /\ Queued' = Queued
    BY <1>1 DEF DeltaAt, TimeAt, Queued
  <2>2. SumsOK' /\ DestroyedNotQueued'
    BY <1>1, <2>1 DEF Inv, SumsOK, DestroyedNotQueued
  <2>3. StatesAgree'
    BY <1>1, <1>8, <2>1 DEF Inv, StatesAgree
  <2>4. ArrearsOK' /\ RealOK'
    BY <1>1, CountdownsKept
  <2>. QED BY <2>2, <2>3, <2>4
<1>11. WalkOK'
  <2>1. i + 1 \in 1..(Len(list) + 1) /\ i + 1 # 1 /\ (i + 1) - 1 = i
    BY <1>2, <1>3
  <2> HIDE DEF i, x, before
  <2>2. rem[walk.timer] = rem[list[i]] + (walk.expires - x)
    BY <1>3, <1>4, <1>5, <1>6
  <2>. QED BY <1>1, <1>3, <1>8, <2>1, <2>2 DEF WalkOK, Held
<1>. QED BY <1>9, <1>10, <1>11 DEF Inv

LEMMA WalkEndKeeps == ASSUME Inv, WalkEnd PROVE Inv'
<1> DEFINE t == walk.timer
<1>1. /\ list \in Seq(Timers) /\ expires \in [Timers -> Nat] /\ rem \in [Timers -> Int]
      /\ walk.expires \in Nat
  BY QueuedFacts DEF Inv, TypeOK
<1>2. /\ t \in Timers /\ walk.pos \in 1..(Len(list) + 1) /\ owner[t] \in Held
      /\ rem[t] = (IF walk.pos = 1 THEN 0 ELSE rem[list[walk.pos - 1]]) + walk.expires
  BY DEF Inv, WalkOK, WalkEnd, Held
<1>3. state[t] = "INSERT" /\ t \notin Queued
  BY <1>2, QueuedFacts
<1>4. /\ walk.pos <= Len(list) => walk.expires < expires[list[walk.pos]]
      /\ list' = InsertAt(list, walk.pos, t) /\ rem' = rem
      /\ expires' = [u \in Timers |->
           CASE u = t -> walk.expires
             [] u # t /\ walk.pos <= Len(list) /\ u = list[walk.pos]
                  -> expires[u] - walk.expires
             [] OTHER -> expires[u]]
  <2>1. rem' = rem
    BY RemSame DEF WalkEnd, driver
  <2>. QED BY <2>1 DEF WalkEnd
<1>5. /\ list' \in Seq(Timers) /\ expires' \in [Timers -> Nat]
      /\ Distinct' /\ SumsOK' /\ Queued' = Queued \cup {t}
  <2>1. Distinct /\ SumsOK
    BY QueuedFacts
  <2> HIDE DEF t
  <2>. QED BY ONLY <1>1, <1>2, <1>3, <1>4, <2>1, InsertStep, ZenonT(120)
<1>6. walk' = NoWalk /\ walk'.timer = NoTimer /\ owner' = owner /\ due' = due /\ real' = real
      /\ driver' = driver
  BY DEF WalkEnd, NoWalk
<1>7. \A u \in Timers : (u # t => state'[u] = state[u]) /\ state'[t] = "ACTIVED"
  BY <1>2 DEF Inv, TypeOK, WalkEnd
<1>8. TypeOK'
  <2>1. state' \in [Timers -> {"IDLE", "INSERT", "ACTIVED"}]
    BY DEF Inv, TypeOK, WalkEnd
  <2>2. walk' \in [timer : Timers \cup {NoTimer}, expires : Nat, pos : Nat]
    BY <1>6 DEF NoWalk
  <2>. QED BY <1>1, <1>4, <1>5, <1>6, <2>1, <2>2 DEF Inv, TypeOK, driver
<1>9. StatesAgree' /\ DestroyedNotQueued'
  <2>1. \A u \in Queued' : owner'[u] \in Held
    BY <1>2, <1>5, <1>6, QueuedFacts
  <2>2. \A u \in Timers : state'[u] = "ACTIVED" <=> u \in Queued'
    BY <1>5, <1>7, QueuedFacts
  <2>3. \A u \in Timers : state'[u] = "INSERT" <=> walk'.timer = u
    BY <1>6, <1>7, QueuedFacts, TimersAssumption
  <2>. QED BY <1>5, <2>1, <2>2, <2>3 DEF StatesAgree, Distinct, DestroyedNotQueued, Queued, Held
<1>10. WalkOK'
  BY <1>6 DEF WalkOK, Walking
<1>11. ArrearsOK' /\ RealOK'
  BY <1>3, <1>6, <1>7, CountdownsKept
<1>. QED BY <1>5, <1>8, <1>9, <1>10, <1>11 DEF Inv

LEMMA TickKeeps == ASSUME Inv, Tick PROVE Inv'
<1>1. /\ list' = list /\ expires' = expires /\ state' = state /\ owner' = owner /\ walk' = walk
      /\ dpc' = dpc /\ slept' = slept /\ left' = left /\ cur' = cur /\ late' = late
      /\ early' = early /\ due' = due
      /\ real' = [t \in Timers |-> IF real[t] > 0 THEN real[t] - 1 ELSE 0]
  BY DEF Tick, listVars
<1>2. slept \in Nat /\ togo \in Nat /\ togo <= slept /\ (dpc = "sleep" => togo > 0)
  BY DEF Inv, TypeOK, ArrearsOK, Tick
<1>3. togo' \in Nat /\ togo' <= slept /\ togo' = IF dpc = "sleep" THEN togo - 1 ELSE togo
  <2>1. togo' = IF dpc = "sleep" THEN togo - 1 ELSE togo
    BY DEF Tick
  <2>. QED BY <1>2, <2>1
<1>4. \A t \in Timers : real[t] \in Nat /\ due[t] \in Int
  BY DEF Inv, TypeOK
<1>5. real' \in [Timers -> Nat] /\ \A t \in Timers : real'[t] = 0 \/ real'[t] = real[t] - 1
  <2>1. \A t \in Timers : (IF real[t] > 0 THEN real[t] - 1 ELSE 0) \in Nat
    BY <1>4
  <2>. QED BY <1>1, <2>1
<1>6. TypeOK'
  BY <1>1, <1>3, <1>5 DEF Inv, TypeOK
<1>7. rem' = rem
  BY <1>1, RemSame
<1>8. SumsOK' /\ StatesAgree' /\ DestroyedNotQueued' /\ WalkOK'
  <2>1. DeltaAt' = DeltaAt /\ TimeAt' = TimeAt /\ Queued' = Queued
    BY <1>1, <1>7 DEF DeltaAt, TimeAt, Queued
  <2>2. SumsOK' /\ DestroyedNotQueued'
    BY <1>1, <2>1 DEF Inv, SumsOK, DestroyedNotQueued
  <2>3. StatesAgree' /\ WalkOK'
    BY <1>1, <1>7, <2>1 DEF Inv, StatesAgree, WalkOK, Walking
  <2>. QED BY <2>2, <2>3
<1>9. ArrearsOK'
  BY <1>1, <1>3 DEF Inv, ArrearsOK
<1>10. RealOK'
  <2>1. Passed \in Int /\ Passed' \in Int /\ Passed' <= Passed + 1
    BY <1>1, <1>2, <1>3 DEF Passed
  <2> SUFFICES ASSUME NEW t \in Timers, real'[t] # 0
               PROVE  state'[t] # "IDLE" /\ real'[t] <= due'[t] - Passed'
    BY DEF RealOK
  <2>2. real'[t] = real[t] - 1 /\ real[t] # 0
    BY <1>1, <1>4, <1>5
  <2>3. state[t] # "IDLE" /\ real[t] <= due[t] - Passed
    BY <2>2 DEF Inv, RealOK
  <2>4. real'[t] <= due[t] - Passed'
    BY <1>4, <2>1, <2>2, <2>3
  <2>. QED BY <1>1, <2>3, <2>4
<1>. QED BY <1>6, <1>8, <1>9, <1>10 DEF Inv

\* What timer_schedule starts or goes on with: the time handed over now is what
\* the driver has slept, and with what was left it is what there is to give out.
Handing(e, new) ==
  /\ e \in Nat /\ new \in Nat /\ new = Passed /\ e = left + new /\ e <= slept
  /\ ~Walking /\ owner' = owner /\ walk' = walk

\* Whatever is not on the list is idle then, and has nothing to wait for.
LEMMA HandedOver ==
  ASSUME Inv, NEW e, NEW new, Handing(e, new)
  PROVE  /\ Charged(new) \in [Timers -> Int]
         /\ \A u \in Queued : Charged(new)[u] = due[u] - new
         /\ \A u \in Timers : real[u] = 0 \/ (u \in Queued /\ real[u] <= due[u] - new)
<1>1. \A u \in Timers : due[u] \in Int /\ real[u] \in Nat /\ due[u] - new \in Int
  BY DEF Inv, TypeOK, Handing
<1>2. Charged(new) \in [Timers -> Int]
  BY <1>1 DEF Charged
<1>3. \A u \in Queued : Charged(new)[u] = due[u] - new
  BY QueuedFacts DEF Charged
<1>4. \A u \in Timers : state[u] # "IDLE" => u \in Queued
  BY QueuedFacts, TimersAssumption DEF Handing, Walking
<1>5. \A u \in Timers : real[u] = 0 \/ (u \in Queued /\ real[u] <= due[u] - new)
  BY <1>4 DEF Inv, RealOK, Handing
<1>. QED BY <1>2, <1>3, <1>5

LEMMA ScheduleNoneKeeps ==
  ASSUME Inv, NEW e, NEW new, Handing(e, new), ScheduleNone
  PROVE  Inv'
<1>1. /\ list = <<>> /\ list' = list /\ expires' = expires /\ state' = state
      /\ due' = due /\ real' = real /\ owner' = owner /\ walk' = walk /\ ~Walking
      /\ dpc' = "sleep" /\ slept' = IdleSleep /\ togo' = IdleSleep
      /\ left' = 0 /\ cur' = NoTimer /\ late' = 0 /\ early' = 0
  BY DEF ScheduleNone, Sleep, listVars, Handing
<1>2. Queued = {} /\ 1..Len(list) = {}
  BY <1>1 DEF Queued
<1>3. TypeOK'
  BY <1>1, IdleSleepAssumption DEF Inv, TypeOK
<1>4. SumsOK' /\ DestroyedNotQueued' /\ WalkOK'
  BY <1>1, <1>2 DEF SumsOK, Sums, DestroyedNotQueued, WalkOK, Walking
<1>5. StatesAgree'
  BY <1>1 DEF Inv, StatesAgree, Queued
<1>6. ArrearsOK' /\ RealOK'
  <2>1. \A u \in Timers : real'[u] = 0
    BY <1>1, <1>2, HandedOver
  <2>. QED BY <1>1, <2>1, IdleSleepAssumption DEF ArrearsOK, RealOK
<1>. QED BY <1>3, <1>4, <1>5, <1>6 DEF Inv

LEMMA ScheduleOutKeeps ==
  ASSUME Inv, NEW e, NEW new, Handing(e, new), ScheduleOut(e, new)
  PROVE  Inv'
<1>1. /\ list \in Seq(Timers) /\ expires \in [Timers -> Nat] /\ rem \in [Timers -> Int]
      /\ Distinct /\ SumsOK
  BY QueuedFacts DEF Inv, TypeOK
<1>2. /\ list # <<>> /\ expires[Head(list)] > e /\ list' = list /\ state' = state
      /\ expires' = [expires EXCEPT ![Head(list)] = @ - e]
      /\ due' = Charged(new) /\ real' = real
      /\ dpc' = "sleep" /\ slept' = expires[Head(list)] - e /\ togo' = slept'
      /\ left' = 0 /\ cur' = NoTimer /\ late' = 0 /\ early' = 0
  BY DEF ScheduleOut, Sleep
<1>3. /\ e \in Nat /\ new \in Nat /\ left \in Nat /\ e = left + new
      /\ owner' = owner /\ walk' = walk /\ ~Walking
  BY DEF Handing, Inv, TypeOK
<1>4. rem' \in [Timers -> Int] /\ \A u \in Queued : rem'[u] = rem[u] - e
  <2>1. due' \in [Timers -> Int] /\ \A u \in Queued : due'[u] = due[u] - new
    BY <1>2, HandedOver
  <2>2. \A u \in Timers : rem'[u] = due'[u] + 0 /\ due'[u] + 0 \in Int
    BY <1>2, <2>1 DEF rem
  <2>3. rem' \in [Timers -> Int]
    BY <1>2, <2>1, <2>2 DEF rem
  <2>4. ASSUME NEW u \in Queued PROVE rem'[u] = rem[u] - e
    <3>1. u \in Timers /\ due[u] \in Int /\ rem[u] = due[u] + left
      BY QueuedFacts DEF Inv, TypeOK
    <3>2. rem'[u] = (due[u] - new) + 0
      BY <2>1, <2>2, <3>1
    <3>. QED BY <1>3, <3>1, <3>2
  <2>. QED BY <2>3, <2>4
<1>5. expires' \in [Timers -> Nat] /\ SumsOK'
  BY <1>1, <1>2, <1>3, <1>4, ShortenStep
<1>6. slept' \in Nat /\ togo' \in Nat
  <2>1. Head(list) \in Timers
    BY <1>1, <1>2, HeadTailProperties
  <2>2. expires[Head(list)] \in Nat
    BY <1>1, <2>1
  <2>. QED BY <1>2, <1>3, <2>2
<1>7. TypeOK'
  <2>1. due' \in [Timers -> Int]
    BY <1>2, HandedOver
  <2>2. /\ list' \in Seq(Timers) /\ state' \in [Timers -> {"IDLE", "INSERT", "ACTIVED"}]
        /\ real' \in [Timers -> Nat] /\ owner' \in [Timers -> Owners]
    BY <1>2, <1>3 DEF Inv, TypeOK
  <2>3. walk' \in [timer : Timers \cup {NoTimer}, expires : Nat, pos : Nat]
    BY <1>3 DEF Inv, TypeOK
  <2>4. /\ dpc' \in {"sleep", "call", "ub"} /\ left' \in Nat /\ late' \in Int /\ early' \in Nat
        /\ cur' \in Timers \cup {NoTimer}
    BY <1>2
  <2>. QED BY <1>5, <1>6, <2>1, <2>2, <2>3, <2>4 DEF TypeOK
<1>8. StatesAgree' /\ DestroyedNotQueued' /\ WalkOK'
  BY <1>2, <1>3 DEF Inv, StatesAgree, DestroyedNotQueued, Queued, WalkOK, Walking
<1>9. ArrearsOK' /\ Passed' = 0
  BY <1>2, <1>6 DEF ArrearsOK, Passed
<1>10. RealOK'
  <2> SUFFICES ASSUME NEW u \in Timers, real'[u] # 0
               PROVE  state'[u] # "IDLE" /\ real'[u] <= due'[u] - Passed'
    BY DEF RealOK
  <2>1. u \in Queued /\ real[u] <= due[u] - new /\ due'[u] = due[u] - new
    BY <1>2, HandedOver
  <2>2. state[u] # "IDLE" /\ due[u] - new \in Int
    BY <1>3, <2>1, QueuedFacts DEF Inv, TypeOK
  <2>3. due'[u] - Passed' = due[u] - new
    BY <1>9, <2>1, <2>2
  <2>. QED BY <1>2, <2>1, <2>2, <2>3
<1>. QED BY <1>5, <1>7, <1>8, <1>9, <1>10 DEF Inv

LEMMA ScheduleCallKeeps ==
  ASSUME Inv, NEW e, NEW new, Handing(e, new), ScheduleCall(e, new)
  PROVE  Inv'
<1> DEFINE t == Head(list)
           x == expires[t]
<1>1. /\ list \in Seq(Timers) /\ expires \in [Timers -> Nat] /\ rem \in [Timers -> Int]
      /\ Distinct /\ SumsOK
  BY QueuedFacts DEF Inv, TypeOK
<1>2. /\ list # <<>> /\ list' = Tail(list) /\ x <= e /\ left' = e - x
      /\ expires' = [expires EXCEPT ![t] = 0] /\ state' = [state EXCEPT ![t] = "IDLE"]
      /\ due' = [Charged(new) EXCEPT ![t] = 0] /\ real' = [real EXCEPT ![t] = 0]
      /\ cur' = t /\ dpc' = "call" /\ late' = new - due[t] /\ early' = real[t]
      /\ slept' = slept /\ togo' = togo
  BY DEF ScheduleCall
<1>3. /\ e \in Nat /\ new \in Nat /\ left \in Nat /\ e = left + new /\ e <= slept
      /\ slept \in Nat /\ owner' = owner /\ walk' = walk /\ ~Walking
  BY DEF Handing, Inv, TypeOK
<1>4. t \in Timers /\ x \in Nat /\ due[t] \in Int /\ real[t] \in Nat
  BY <1>1, <1>2, HeadTailProperties DEF Inv, TypeOK
<1> HIDE DEF t, x
<1>5. expires' \in [Timers -> Nat] /\ \A u \in Queued \ {t} : expires'[u] = expires[u]
  BY <1>1, <1>2, <1>4, QueuedFacts
<1>6. due' \in [Timers -> Int] /\ \A u \in Queued \ {t} : due'[u] = due[u] - new
  BY <1>2, <1>4, HandedOver, QueuedFacts
<1>7. left' \in Nat
  BY <1>2, <1>3, <1>4
<1>8. rem' \in [Timers -> Int] /\ \A u \in Queued \ {t} : rem'[u] = rem[u] - x
  <2>1. \A u \in Timers : rem'[u] = due'[u] + left' /\ due'[u] + left' \in Int
    BY <1>6, <1>7 DEF rem
  <2>2. rem' \in [Timers -> Int]
    BY <1>6, <1>7, <2>1 DEF rem
  <2>3. ASSUME NEW u \in Queued \ {t} PROVE rem'[u] = rem[u] - x
    <3>1. u \in Timers /\ due[u] \in Int /\ rem[u] = due[u] + left
      BY QueuedFacts DEF Inv, TypeOK
    <3>2. rem'[u] = (due[u] - new) + left'
      BY <1>6, <2>1, <3>1
    <3>. QED BY <1>2, <1>3, <1>4, <3>1, <3>2
  <2>. QED BY <2>2, <2>3
<1>9. /\ list' \in Seq(Timers) /\ Distinct' /\ SumsOK'
      /\ t \in Queued /\ Queued' = Queued \ {t}
      /\ rem[t] = x
  BY <1>1, <1>2, <1>5, <1>8, TailStep DEF t, x
<1>10. late' = left' /\ late' <= slept /\ due[t] - new <= 0
  <2>1. due[t] + left = x
    BY <1>4, <1>9, QueuedFacts
  <2>. QED BY <1>2, <1>3, <1>4, <2>1
<1>11. real[t] = 0
  <2>1. real[t] = 0 \/ real[t] <= due[t] - new
    BY <1>4, HandedOver
  <2>. QED BY <1>3, <1>4, <1>10, <2>1
<1>12. TypeOK'
  <2>1. state' \in [Timers -> {"IDLE", "INSERT", "ACTIVED"}] /\ real' \in [Timers -> Nat]
    BY <1>2 DEF Inv, TypeOK
  <2>2. late' \in Int /\ early' \in Nat /\ cur' \in Timers \cup {NoTimer}
    BY <1>2, <1>3, <1>4
  <2>. QED BY <1>2, <1>3, <1>5, <1>6, <1>7, <1>9, <2>1, <2>2 DEF Inv, TypeOK
<1>13. \A u \in Timers : (u # t => state'[u] = state[u]) /\ state'[t] = "IDLE"
  BY <1>2, <1>4 DEF Inv, TypeOK
<1>14. StatesAgree' /\ DestroyedNotQueued'
  <2>1. \A u \in Queued' : owner'[u] \in Held
    BY <1>3, <1>9, QueuedFacts
  <2>2. \A u \in Timers : state'[u] = "ACTIVED" <=> u \in Queued'
    BY <1>9, <1>13, QueuedFacts
  <2>3. \A u \in Timers : state'[u] = "INSERT" <=> walk'.timer = u
    <3>1. state[t] # "INSERT"
      BY <1>4, <1>9, QueuedFacts
    <3>. QED BY <1>3, <1>13, <3>1, QueuedFacts
  <2>. QED BY <1>9, <2>1, <2>2, <2>3 DEF StatesAgree, Distinct, DestroyedNotQueued, Queued, Held
<1>15. WalkOK'
  BY <1>3 DEF WalkOK, Walking
<1>16. ArrearsOK' /\ Passed' = 0
  BY <1>2, <1>4, <1>10, <1>11 DEF Inv, ArrearsOK, Passed
<1>17. RealOK'
  <2> SUFFICES ASSUME NEW u \in Timers, real'[u] # 0
               PROVE  state'[u] # "IDLE" /\ real'[u] <= due'[u] - Passed'
    BY DEF RealOK
  <2>1. u # t /\ real'[u] = real[u]
    BY <1>2, <1>4 DEF Inv, TypeOK
  <2>2. u \in Queued /\ real[u] <= due[u] - new
    BY <2>1, HandedOver
  <2>3. due'[u] = due[u] - new /\ due[u] - new \in Int
    BY <1>3, <1>6, <2>1, <2>2 DEF Inv, TypeOK
  <2>4. state'[u] # "IDLE"
    BY <1>13, <2>1, <2>2, QueuedFacts
  <2>5. due'[u] - Passed' = due[u] - new
    BY <1>16, <2>3
  <2>. QED BY <2>1, <2>2, <2>4, <2>5
<1>. QED BY <1>9, <1>12, <1>14, <1>15, <1>16, <1>17 DEF Inv

LEMMA ScheduleKeeps ==
  ASSUME Inv, NEW e, NEW new, Schedule(e, new), e \in Nat, new \in Nat,
         new = Passed, e = left + new, e <= slept
  PROVE  Inv'
<1>1. Handing(e, new)
  BY DEF Schedule, Unlocked, Handing
<1>2. ScheduleNone \/ ScheduleOut(e, new) \/ ScheduleCall(e, new)
  BY DEF Schedule
<1>. QED BY <1>1, <1>2, ScheduleNoneKeeps, ScheduleOutKeeps, ScheduleCallKeeps

LEMMA WakeKeeps == ASSUME Inv, Wake PROVE Inv'
<1>1. /\ slept \in Nat /\ togo = 0 /\ dpc = "sleep" /\ left = 0 /\ Schedule(slept, slept)
  BY DEF Inv, TypeOK, ArrearsOK, Wake
<1>2. slept = Passed /\ slept = left + slept /\ slept <= slept
  BY <1>1 DEF Passed
<1>. QED BY <1>1, <1>2, ScheduleKeeps

LEMMA ReturnKeeps == ASSUME Inv, CallbackReturn PROVE Inv'
<1>1. left \in Nat /\ dpc = "call" /\ left <= slept /\ Schedule(left, 0)
  BY DEF Inv, TypeOK, ArrearsOK, CallbackReturn
<1>2. 0 = Passed /\ left = left + 0 /\ 0 \in Nat
  BY <1>1 DEF Passed
<1>. QED BY <1>1, <1>2, ScheduleKeeps

LEMMA StutterKeeps == ASSUME Inv, UNCHANGED vars PROVE Inv'
<1>1. /\ list' = list /\ expires' = expires /\ state' = state /\ owner' = owner /\ walk' = walk
      /\ driver' = driver /\ due' = due /\ real' = real
  BY DEF vars, listVars
<1>2. rem' = rem
  BY <1>1, RemSame DEF driver
<1>3. DeltaAt' = DeltaAt /\ TimeAt' = TimeAt /\ Queued' = Queued
  BY <1>1, <1>2 DEF DeltaAt, TimeAt, Queued
<1>4. SumsOK' /\ DestroyedNotQueued' /\ StatesAgree' /\ WalkOK'
  BY <1>1, <1>2, <1>3 DEF Inv, SumsOK, DestroyedNotQueued, StatesAgree, WalkOK, Walking
<1>5. ArrearsOK' /\ RealOK'
  BY <1>1, CountdownsKept
<1>6. TypeOK'
  BY <1>1 DEF Inv, TypeOK, driver
<1>. QED BY <1>4, <1>5, <1>6 DEF Inv

LEMMA StepKeeps == Inv /\ [Next]_vars => Inv'
<1> SUFFICES ASSUME Inv, [Next]_vars PROVE Inv'
  OBVIOUS
<1>1. CASE \E t \in Timers : Create(t) \/ Del(t) \/ Destroy(t) \/ Free(t)
  BY <1>1, CreateKeeps, DelKeeps, DestroyKeeps, FreeKeeps
<1>2. CASE \E t \in Timers, e \in Delays : Add(t, e) \/ Mod(t, e)
  BY <1>2, AddKeeps, ModKeeps
<1>3. CASE \E e \in Delays : LateMod(e)
  BY <1>3, LateModKeeps
<1>4. CASE Insert
  BY <1>4, WalkOnKeeps, WalkEndKeeps DEF Insert
<1>5. CASE Wake
  BY <1>5, WakeKeeps
<1>6. CASE CallbackReturn
  BY <1>6, ReturnKeeps
<1>7. CASE Tick
  BY <1>7, TickKeeps
<1>8. CASE UNCHANGED vars
  BY <1>8, StutterKeeps
<1>. QED BY <1>1, <1>2, <1>3, <1>4, <1>5, <1>6, <1>7, <1>8 DEF Next

-----------------------------------------------------------------------------
(* The theorems: for every number of timers, all delays and callbacks of any *)
(* length.                                                                   *)

\* The strengthening that timer_list.c keeps at every step.
THEOREM Invariance == Spec => []Inv
BY InitHolds, StepKeeps, PTL DEF Spec

\* The list, the states and the walk of timer_add_locked have their types; in
\* particular no delta and no time to sleep ever goes below zero.
THEOREM TypeCorrect == Spec => []TypeOK
<1>1. Inv => TypeOK
  BY DEF Inv
<1>. QED BY <1>1, Invariance, PTL

\* The deltas on the list of timer_list.c always add up to the timers' times.
THEOREM DeltasCorrect == Spec => []DeltasAddUp
<1>1. Inv => DeltasAddUp
  BY SumsMeanDeltas DEF Inv, TypeOK
<1>. QED BY <1>1, Invariance, PTL

\* timer_schedule calls a timer when the time handed to it since the timer was
\* armed has reached its delay, and in the first call with which it has.
THEOREM CallsAreOnTime == Spec => []FiresOnTime
<1>1. Inv => FiresOnTime
  <2>1. ASSUME Inv, dpc = "call" PROVE late \in Nat /\ slept \in Nat /\ late <= slept
    BY <2>1 DEF Inv, TypeOK, ArrearsOK
  <2>. QED BY <2>1 DEF FiresOnTime
<1>. QED BY <1>1, Invariance, PTL

\* On the wall clock no timer is called before its delay is over, from the start
\* of the sleep in which it was armed.
THEOREM NotBeforeDelay == Spec => []FiresAfterDelay
<1>1. Inv => FiresAfterDelay
  BY DEF Inv, ArrearsOK, FiresAfterDelay
<1>. QED BY <1>1, Invariance, PTL

\* timer->state tells whether the timer is on the list, and it is there once.
THEOREM ListMatchesStates == Spec => []StatesAgree
<1>1. Inv => StatesAgree
  BY DEF Inv
<1>. QED BY <1>1, Invariance, PTL

\* Nothing but its own callback puts a timer back on the list that is being
\* destroyed or free.
THEOREM NoDestroyedTimerQueued == Spec => []DestroyedNotQueued
<1>1. Inv => DestroyedNotQueued
  BY DEF Inv
<1>. QED BY <1>1, Invariance, PTL
============================================================================
