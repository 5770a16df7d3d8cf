------------------------------- MODULE MCSFile -------------------------------
(***************************************************************************)
(* Instance of SFile for TLC: two tasks, two values, two cells of data.    *)
(***************************************************************************)
EXTENDS SFile, TLC

B(o, w, m, f, c) == [opens |-> o, writes |-> w, moves |-> m, faults |-> f, crashes |-> c]
MCBudgets == {B(3, 2, 1, 0, 1),    \* interleavings of two tasks, a power cut
              B(2, 3, 1, 0, 2),    \* more power cuts
              B(2, 2, 1, 2, 1),    \* failures
              B(3, 2, 0, 1, 1)}

\* Tasks are interchangeable, and so are values; the properties are safety.
Sym == Permutations(Tasks) \cup Permutations(Values)
=============================================================================
