-------------------------------- MODULE MCBoot --------------------------------
(***************************************************************************)
(* Instance of Boot for TLC: three firmwares of two blocks, one retry, and   *)
(* the real lengths of the variables' names and values.                    *)
(***************************************************************************)
EXTENDS Boot

CONSTANTS f1, f2, f3

MCDevid == (f1 :> "A") @@ (f2 :> "A") @@ (f3 :> "B")
MCSize == ("crash" :> 5) @@ ("crash-cnt" :> 9) @@ ("runtime" :> 7) @@ ("ota-update" :> 10)
          @@ ("yes" :> 3) @@ ("no" :> 2) @@ ("0" :> 1) @@ ("b" :> 1) @@ ("e11" :> 3)
MCWords == DOMAIN MCSize
MCNumber == [w \in MCWords |-> IF w = "b" THEN 11 ELSE IF w = "e11" THEN 3601 ELSE 0]

B(d, c, f, n, r) == [downloads |-> d, cuts |-> c, faults |-> f, changes |-> n, resets |-> r]
MCBudgets == {B(2, 1, 1, 0, 2),    \* two downloads, a power cut and a failure
              B(1, 2, 0, 0, 2),    \* power cuts only
              B(1, 0, 3, 0, 2),    \* failures until the boot loader gives up
              B(1, 1, 2, 0, 1),
              B(0, 1, 0, 4, 4)}    \* variables changed over several starts
=============================================================================
