------------------------------- MODULE MCBdbuf -------------------------------
(***************************************************************************)
(* Instance of Bdbuf for TLC.  The bounds are drawn in the initial state,  *)
(* so that purges, failures and changes of the block size each meet the    *)
(* whole cache without multiplying with one another.                       *)
(***************************************************************************)
EXTENDS Bdbuf

CONSTANTS t1, t2, t3, d1, w1

B(c, w, f, s, p, r, k) ==
    [calls |-> c, writes |-> w, faults |-> f, syncs |-> s, purges |-> p, resizes |-> r, peeks |-> k]
MCBudgets == {B(3, 1, 0, 0, 0, 0, 0),    \* recycling and waiting for buffers
              B(2, 1, 1, 0, 0, 0, 0),    \* failing transfers
              B(2, 2, 0, 1, 0, 0, 0),    \* syncdev against two writers
              B(2, 1, 0, 0, 1, 0, 0),    \* purge of buffers in every state
              B(3, 0, 0, 0, 0, 1, 0),    \* change of the block size under three users
              B(2, 1, 0, 0, 0, 1, 0),    \* ... with modified buffers
              B(2, 0, 0, 0, 0, 0, 1)}    \* read-ahead ordered by peek
\* A purge while a writer waits for the syncdev of another task.
DiagramBudgets == {B(1, 1, 0, 1, 1, 0, 0)}
Sym == Permutations(Tasks)
=============================================================================
