------------------------------- MODULE AvlTree -------------------------------
(***************************************************************************)
(* The AVL tree in which lib/block/bdbuf.c finds the buffer of a block.    *)
(* Module Bdbuf takes the tree for the set of its buffers; this module is  *)
(* why it may.  Every operation runs under the lock of the cache and is    *)
(* one step.                                                               *)
(*                                                                         *)
(* A buffer is named by its place in the order of (dd, block).  The code   *)
(* has every case twice, mirrored; here a side is Left or Right and the    *)
(* other side its negative, as in the balance factors.  The stack of the   *)
(* code is the path, and avl.cache the direction taken at each node of it. *)
(***************************************************************************)
EXTENDS Integers, Sequences, SequencesExt

CONSTANTS N             \* number of blocks

ASSUME AvlAssumption == N \in Nat \ {0}

VARIABLES tree,         \* root, avl.left and avl.right as kid, avl.bal
          held          \* history: the buffers that were inserted and not removed

vars == <<tree, held>>

Keys == 1 .. N
Nil == 0
Left == -1
Right == 1

Init ==
    /\ tree = [root |-> Nil, kid |-> [d \in {Left, Right} |-> [n \in Keys |-> Nil]],
               bal |-> [n \in Keys |-> 0]]
    /\ held = {}

\* The direction from node n to key k, which is not n.
Dir(n, k) == IF n < k THEN Right ELSE Left

\* rtems_bdbuf_avl_search
Search(t, k) ==
    LET from[n \in Keys \cup {Nil}] ==
          IF n \in {Nil, k} THEN n ELSE from[t.kid[Dir(n, k)][n]]
    IN from[t.root]

\* The nodes from the root to where k is or should be, k not included, each
\* with its avl.cache.
Path(t, k) ==
    LET from[n \in Keys \cup {Nil}] ==
          IF n \in {Nil, k} THEN <<>>
          ELSE <<[node |-> n, cache |-> Dir(n, k)]>> \o from[t.kid[Dir(n, k)][n]]
    IN from[t.root]

----------------------------------------------------------------------------
(* Turns at p, whose side d is too high *)

SimpleTurn(t, p, d) ==
    LET p1 == t.kid[d][p] IN
    [t EXCEPT !.kid[d][p] = t.kid[-d][p1], !.kid[-d][p1] = p]

DoubleTurn(t, p, d) ==
    LET p1 == t.kid[d][p]
        p2 == t.kid[-d][p1]
    IN [t EXCEPT !.kid[-d][p1] = t.kid[d][p2], !.kid[d][p2] = p1,
                 !.kid[d][p] = t.kid[-d][p2], !.kid[-d][p2] = p,
                 !.bal[p] = IF t.bal[p2] = d THEN -d ELSE 0,
                 !.bal[p1] = IF t.bal[p2] = -d THEN d ELSE 0,
                 !.bal[p2] = 0]

\* A step up the path: the tree, the root of the subtree, and whether its
\* height has changed (`modified').
Up(t, top, modified) == [t |-> t, top |-> top, modified |-> modified]

\* The side c of p has grown.
Grown(t, p, c) ==
    LET p1 == t.kid[c][p] IN
    IF t.bal[p] = -c THEN Up([t EXCEPT !.bal[p] = 0], p, FALSE)
    ELSE IF t.bal[p] = 0 THEN Up([t EXCEPT !.bal[p] = c], p, TRUE)
    ELSE IF t.bal[p1] = c
    THEN Up([SimpleTurn(t, p, c) EXCEPT !.bal[p] = 0, !.bal[p1] = 0], p1, FALSE)
    ELSE Up(DoubleTurn(t, p, c), t.kid[-c][p1], FALSE)

\* Mutant: after a turn that keeps the height the loop goes on.
ShrunkGoesOn(t, p, c) ==
    LET p1 == t.kid[-c][p] IN
    IF t.bal[p] = c THEN Up([t EXCEPT !.bal[p] = 0], p, TRUE)
    ELSE IF t.bal[p] = 0 THEN Up([t EXCEPT !.bal[p] = -c], p, FALSE)
    ELSE IF t.bal[p1] = 0
    THEN Up([SimpleTurn(t, p, -c) EXCEPT !.bal[p1] = c], p1, TRUE)
    ELSE IF t.bal[p1] = -c
    THEN Up([SimpleTurn(t, p, -c) EXCEPT !.bal[p] = 0, !.bal[p1] = 0], p1, TRUE)
    ELSE Up(DoubleTurn(t, p, -c), t.kid[c][p1], TRUE)

\* The side c of p has shrunk.
Shrunk(t, p, c) ==
    LET p1 == t.kid[-c][p] IN
    IF t.bal[p] = c THEN Up([t EXCEPT !.bal[p] = 0], p, TRUE)
    ELSE IF t.bal[p] = 0 THEN Up([t EXCEPT !.bal[p] = -c], p, FALSE)
    ELSE IF t.bal[p1] = 0
    THEN Up([SimpleTurn(t, p, -c) EXCEPT !.bal[p1] = c], p1, FALSE)
    ELSE IF t.bal[p1] = -c
    THEN Up([SimpleTurn(t, p, -c) EXCEPT !.bal[p] = 0, !.bal[p1] = 0], p1, TRUE)
    ELSE Up(DoubleTurn(t, p, -c), t.kid[c][p1], TRUE)

\* Up the path from `start', which has taken the place below its last node.
Climb(start, path, grows) ==
    LET at[i \in 1 .. Len(path) + 1] ==
          IF i > Len(path) THEN start
          ELSE LET below == at[i + 1]
                   p == path[i].node
                   linked == [below.t EXCEPT !.kid[path[i].cache][p] = below.top]
               IN IF ~below.modified THEN Up(linked, p, FALSE)
                  ELSE IF grows THEN Grown(linked, p, path[i].cache)
                  ELSE Shrunk(linked, p, path[i].cache)
        whole == at[1]
    IN [whole.t EXCEPT !.root = whole.top]

----------------------------------------------------------------------------
(* The operations *)

\* rtems_bdbuf_avl_insert; -1 and no change when the key is there.
InsertKey(k) ==
    LET leaf == [tree EXCEPT !.kid[Left][k] = Nil, !.kid[Right][k] = Nil, !.bal[k] = 0] IN
    /\ tree' = IF Search(tree, k) = k THEN tree ELSE Climb(Up(leaf, k, TRUE), Path(tree, k), TRUE)
    /\ held' = held \cup {k}

\* The nodes down to the left from n, the last one without a left child.
LeftSpine(t, n) ==
    LET from[m \in Keys \cup {Nil}] == IF m = Nil THEN <<>> ELSE <<m>> \o from[t.kid[Left][m]]
    IN from[n]

\* rtems_bdbuf_avl_remove: the next larger node takes the place of q; -1 and
\* no change when the key is not there.
Without(t, q) ==
    LET above == Path(t, q)
        spine == LeftSpine(t, t.kid[Right][q])
        s == Last(spine)
        \* the part of the path that is below q's place
        down == <<[node |-> s, cache |-> Right]>>
                \o [i \in 1 .. Len(spine) - 1 |-> [node |-> spine[i], cache |-> Left]]
        moved == [t EXCEPT !.kid[Left][s] = t.kid[Left][q], !.bal[s] = t.bal[q]]
        child == t.kid[Left][q]
    IN IF Search(t, q) = Nil THEN t
       ELSE IF spine = <<>>
       THEN Climb(Up(IF child = Nil THEN t ELSE [t EXCEPT !.bal[child] = 0], child, TRUE), above, FALSE)
       ELSE IF Len(spine) = 1
       THEN Climb(Up(moved, t.kid[Right][s], TRUE), above \o down, FALSE)
       ELSE Climb(Up([moved EXCEPT !.kid[Right][s] = t.kid[Right][q]], t.kid[Right][s], TRUE),
                  above \o down, FALSE)

RemoveKey(k) ==
    \* the fields of a node outside the tree are never read
    /\ tree' = [Without(tree, k) EXCEPT !.kid[Left][k] = Nil, !.kid[Right][k] = Nil, !.bal[k] = 0]
    /\ held' = held \ {k}

\* rtems_bdbuf_gather_for_purge: the nodes in the order they are visited, with
\* a stack and no marks. From a leaf it goes up to the first node that has a
\* right child it does not come from.
Gather(t) ==
    LET next(s) ==
          LET stack == Append(s.stack, s.cur)
              turns == {j \in 1 .. Len(s.stack) : t.kid[Right][stack[j]] \notin {Nil, stack[j + 1]}}
              j == Max(turns)
          IN IF t.kid[Left][s.cur] # Nil THEN [cur |-> t.kid[Left][s.cur], stack |-> stack]
             ELSE IF t.kid[Right][s.cur] # Nil THEN [cur |-> t.kid[Right][s.cur], stack |-> stack]
             ELSE IF turns = {} THEN [cur |-> Nil, stack |-> <<>>]
             ELSE [cur |-> t.kid[Right][stack[j]], stack |-> SubSeq(stack, 1, j)]
        at[i \in 1 .. N + 1] ==
          IF i = 1 THEN [cur |-> t.root, stack |-> <<>>]
          ELSE LET s == at[i - 1] IN IF s.cur = Nil THEN s ELSE next(s)
    IN [i \in 1 .. N + 1 |-> at[i].cur]

Next == \E k \in Keys : InsertKey(k) \/ RemoveKey(k)

Spec == Init /\ [][Next]_vars

----------------------------------------------------------------------------
(* Properties *)

\* The nodes below n, n included, and the height of the tree there.
Nodes(t) == LET below[n \in Keys \cup {Nil}] ==
                  IF n = Nil THEN {} ELSE {n} \cup below[t.kid[Left][n]] \cup below[t.kid[Right][n]]
            IN below
Heights(t) == LET high[n \in Keys \cup {Nil}] ==
                    IF n = Nil THEN 0
                    ELSE LET l == high[t.kid[Left][n]]
                             r == high[t.kid[Right][n]]
                         IN 1 + (IF l > r THEN l ELSE r)
              IN high

\* Nothing is lost or found twice however inserts and removes alternate: a
\* search finds exactly the buffers that are held, the balance factor of every
\* node is the difference of the heights below it and at most 1, and the walk
\* of a purge visits every buffer once and ends.
FindsExactly ==
    LET nodes == Nodes(tree)
        high == Heights(tree)
        walk == SelectSeq(Gather(tree), LAMBDA n : n # Nil)
    IN /\ \A k \in Keys : Search(tree, k) = IF k \in held THEN k ELSE Nil
       /\ nodes[tree.root] = held
       /\ \A n \in held :
            /\ tree.bal[n] = high[tree.kid[Right][n]] - high[tree.kid[Left][n]]
            /\ tree.bal[n] \in -1 .. 1
       /\ Len(walk) = Cardinality(held) /\ ToSet(walk) = held

=============================================================================
