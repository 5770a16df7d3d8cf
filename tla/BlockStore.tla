----------------------------- MODULE BlockStore -----------------------------
(***************************************************************************)
(* What the block device cache promises its users, without buffers, lists  *)
(* or timers.  Every block has a content, which is what a read returns, and*)
(* a stable copy on the flash, which is what is left when the cache goes   *)
(* away.  The content of a block changes only when a write in progress     *)
(* reaches it, and then only in the cells that the write names.  The stable*)
(* copy changes to the content, or is blank while that content is still    *)
(* held in memory.                                                         *)
(***************************************************************************)
CONSTANTS Blocks, Data, Blank, NoPiece

VARIABLES
  content,   \* what a read of each block returns
  stable,    \* what the flash holds
  piece      \* the part within one block of the call in progress

vars == <<content, stable, piece>>

Init ==
  /\ content = stable
  /\ stable \in [Blocks -> Data]
  /\ piece = NoPiece

\* A read or write is called, or a piece of a read is done.
Move == UNCHANGED <<content, stable>>

\* The piece of a write: its cells get the value, the others keep theirs.
Write ==
  /\ piece # NoPiece /\ piece.kind = "write"
  /\ content' = [content EXCEPT ![piece.blk] =
                   [c \in DOMAIN @ |-> IF c \in piece.cells THEN piece.val ELSE @[c]]]
  /\ UNCHANGED stable

\* A block reaches the flash.
Save(b) ==
  /\ stable' = [stable EXCEPT ![b] = content[b]]
  /\ UNCHANGED <<content, piece>>

\* The flash block was erased but not written; the content is not lost.
Erased(b) ==
  /\ stable' = [stable EXCEPT ![b] = Blank]
  /\ UNCHANGED <<content, piece>>

\* The cache is destroyed: what was not saved is gone.
Discard ==
  /\ content' = stable
  /\ UNCHANGED <<stable, piece>>

Next == Move \/ Write \/ (\E b \in Blocks : Save(b) \/ Erased(b)) \/ Discard

Spec == Init /\ [][Next]_vars
=============================================================================
