----------------------------- MODULE BootProofs -----------------------------
(***************************************************************************)
(* Proofs about the boot loader for any firmwares, any number of blocks    *)
(* and retries, and any number of downloads, faults and power cuts: an     *)
(* update that reports success is installed, and the firmware that is      *)
(* started in the end is whole.  The environment variables only pass       *)
(* through: their operators are never expanded.                            *)
(***************************************************************************)
EXTENDS Boot, TLAPS

PCs == {"reset", "check", "validate", "copy", "write", "verify", "save",
        "savewrite", "updated", "recover", "boot", "flush", "run"}

HistOK ==
    hist \in [blind : BOOLEAN, gaveup : BOOLEAN, unsaved : BOOLEAN, flushed : {hist.flushed}]

FlashOK ==
    /\ load \in [magic : BOOLEAN, sized : BOOLEAN, fw : Firmwares, data : Regions]
    /\ run \in Regions

BootOK ==
    /\ boot \in [pc : PCs, i : Nat, block : Nat, fw : Firmwares \cup {None}]
    /\ boot.pc \in {"reset", "check", "validate"} => boot.block = 1
    /\ boot.pc \in {"copy", "write"} => boot.block \in 1 .. Blocks

TypeInv == FlashOK /\ BootOK /\ HistOK

\* Between is_fw_valid and the end of fw_copy_decomp the header in memory is
\* the one of the load region, which nobody changes meanwhile; from the
\* verification on the copy is complete.
Copying ==
    /\ boot.pc \in {"copy", "write", "verify", "save", "savewrite"} =>
          Valid /\ boot.fw = load.fw
    /\ boot.pc \in {"save", "savewrite"} => run = Image(boot.fw)

\* A run region that is not whole will be repaired: the load region holds a
\* whole firmware, and the information sector does not call it installed.
Repairable == ~hist.unsaved => Intact(run) \/ (Valid /\ Newer)

\* An update goes on only where the next start would find it undone, ...
UpdateIsDue ==
    boot.pc \in {"validate", "copy", "write", "verify", "save"} /\ ~hist.unsaved => Newer

\* ... and past it the run region is whole, unless this boot has seen a failure.
PastUpdate ==
    boot.pc \in {"updated", "recover", "boot", "flush", "run"}
        /\ ~hist.blind /\ ~hist.gaveup /\ ~hist.unsaved => Intact(run)

IntactInv == Repairable /\ UpdateIsDue /\ PastUpdate

\* The inductive invariant.
BootInv == TypeInv /\ Copying /\ SuccessMeansInstalled /\ IntactInv

----------------------------------------------------------------------------
(* Typing *)

\* Regions stay regions under the operations of the flash: a block is erased,
\* spoilt or written with a block of another region.
LEMMA RegionFacts ==
  /\ \A f \in Firmwares \cup {None} : Image(f) \in Regions
  /\ \A r \in Regions, k \in Nat, c \in Firmwares \cup {None, Junk} :
        [r EXCEPT ![k] = c] \in Regions
  /\ \A r \in Regions, k \in 1 .. Blocks : r[k] \in Firmwares \cup {None, Junk}
BY DEF Regions, Image

\* A step to another place of general_boot.
LEMMA GotoFacts ==
  ASSUME BootOK, NEW pc \in PCs \ {"reset", "copy"}, Goto(pc),
         pc \in {"check", "validate"} => boot.pc \in {"reset", "check"},
         pc = "write" => boot.pc = "copy"
  PROVE  BootOK' /\ boot'.pc = pc /\ boot'.fw = boot.fw
BY DEF BootOK, Goto

\* A failed copy starts over or ends, in either case with a boot state.
LEMMA CopyAgainFacts ==
  ASSUME BootOK, CopyAgain
  PROVE  /\ BootOK'
         /\ boot'.pc \in {"validate", "boot"}
         /\ boot'.pc = "boot" => boot.i >= TryCnt
         /\ (boot.i >= TryCnt) \in BOOLEAN
<1>0. "validate" \in PCs /\ "boot" \in PCs
  BY DEF PCs
<1>1. BootOK' /\ boot'.pc \in {"validate", "boot"}
  <2> DEFINE p == IF boot.i < TryCnt THEN "validate" ELSE "boot"
  <2>0. p \in PCs /\ boot' = [boot EXCEPT !.i = @ + 1, !.block = 1, !.fw = None, !.pc = p]
    BY <1>0 DEF CopyAgain
  <2> HIDE DEF p
  <2>a. boot \in [pc : PCs, i : Nat, block : Nat, fw : Firmwares \cup {None}]
    BY DEF BootOK
  <2>b. boot' = [pc |-> p, i |-> boot.i + 1, block |-> 1, fw |-> None]
    BY <2>0, <2>a
  <2>c. boot.i + 1 \in Nat
    BY <2>a
  <2>1. boot' \in [pc : PCs, i : Nat, block : Nat, fw : Firmwares \cup {None}]
    BY <2>0, <2>b, <2>c
  <2>2. boot'.pc \in {"validate", "boot"} /\ boot'.block = 1
    BY <1>0 DEF BootOK, CopyAgain
  <2>. QED BY <2>1, <2>2 DEF BootOK
<1>2. boot.i \in Nat /\ boot'.pc = IF boot.i < TryCnt THEN "validate" ELSE "boot"
  BY DEF BootOK, CopyAgain
<1>3. (boot.i >= TryCnt) \in BOOLEAN /\ (boot'.pc = "boot" => boot.i >= TryCnt)
  BY <1>2, BootAssumption
<1>. QED BY <1>1, <1>3, Zenon

\* What the history says after each of its changes.
LEMMA HistFacts ==
  ASSUME HistOK
  PROVE  /\ UNCHANGED hist => HistOK'
         /\ \A b \in BOOLEAN : hist' = [hist EXCEPT !.blind = b] =>
               HistOK' /\ hist'.blind = b /\ hist'.gaveup = hist.gaveup /\ hist'.unsaved = hist.unsaved
         /\ \A b \in BOOLEAN : hist' = [hist EXCEPT !.gaveup = b] =>
               HistOK' /\ hist'.gaveup = b /\ hist'.blind = hist.blind /\ hist'.unsaved = hist.unsaved
         /\ \A b \in BOOLEAN : hist' = [hist EXCEPT !.unsaved = b] =>
               HistOK' /\ hist'.unsaved = b /\ hist'.blind = hist.blind /\ hist'.gaveup = hist.gaveup
         /\ \A b, c \in BOOLEAN : hist' = [hist EXCEPT !.gaveup = b, !.unsaved = c] =>
               HistOK' /\ hist'.gaveup = b /\ hist'.unsaved = c /\ hist'.blind = hist.blind
         /\ \A x : hist' = [hist EXCEPT !.flushed = x] =>
               HistOK' /\ hist'.gaveup = hist.gaveup /\ hist'.blind = hist.blind
                      /\ hist'.unsaved = hist.unsaved
         /\ hist' = [hist EXCEPT !.blind = FALSE, !.gaveup = FALSE] =>
               HistOK' /\ hist'.unsaved = hist.unsaved
         /\ \A x : hist' = [hist EXCEPT !.blind = FALSE, !.gaveup = FALSE, !.flushed = x] =>
               HistOK' /\ hist'.unsaved = hist.unsaved
BY DEF HistOK

LEMMA CopyFailsFacts ==
  ASSUME BootOK, HistOK, CopyFails
  PROVE  /\ BootOK' /\ HistOK'
         /\ boot'.pc \in {"validate", "boot"}
         /\ boot'.pc = "boot" => hist'.gaveup
         /\ hist'.blind = hist.blind /\ hist'.unsaved = hist.unsaved
<1> DEFINE g == boot.i >= TryCnt
<1>1. /\ BootOK' /\ boot'.pc \in {"validate", "boot"}
      /\ g \in BOOLEAN /\ (boot'.pc = "boot" => g)
  BY CopyAgainFacts, Zenon DEF CopyFails
<1>2. hist' = [hist EXCEPT !.gaveup = g]
  BY Zenon DEF CopyFails
<1> HIDE DEF g
<1>. QED BY <1>1, <1>2, HistFacts, Zenon

----------------------------------------------------------------------------
(* The steps.  Flash operations first: what the run region and the information *)
(* sector become, apart from where the boot loader goes next.                  *)

\* Every step of the boot loader, every power cut and every step of the
\* firmware keeps the types, and stays within the blocks of a region.
LEMMA TypeStep == TypeInv /\ [Next]_vars => TypeInv'
<1> SUFFICES ASSUME TypeInv, [Next]_vars PROVE TypeInv'
  OBVIOUS
<1>0. FlashOK /\ BootOK /\ HistOK
  BY DEF TypeInv
<1>. /\ "check" \in PCs /\ "validate" \in PCs /\ "recover" \in PCs /\ "write" \in PCs
     /\ "save" \in PCs /\ "savewrite" \in PCs /\ "updated" \in PCs /\ "boot" \in PCs
     /\ "flush" \in PCs
  BY DEF PCs
<1>1. FlashOK'
  <2>1. CASE UNCHANGED <<load, run>>
    BY <1>0, <2>1 DEF FlashOK
  <2>2. CASE CopyErase
    BY <1>0, <2>2, RegionFacts DEF CopyErase, FlashOK, BootOK
  <2>3. CASE CopyWrite
    BY <1>0, <2>3, RegionFacts DEF CopyWrite, FlashOK, BootOK
  <2>4. CASE PowerFails
    BY <1>0, <2>4, RegionFacts DEF PowerFails, FlashOK, BootOK
  <2>5. ASSUME NEW f \in Firmwares, Download(f) PROVE FlashOK'
    <3>1. Image(f) \in Regions /\ [Image(f) EXCEPT ![Blocks] = Junk] \in Regions
      BY RegionFacts, BootAssumption
    <3>2. PICK s \in BOOLEAN, d \in {Image(f), [Image(f) EXCEPT ![Blocks] = Junk]} :
            load' = [magic |-> TRUE, sized |-> s, fw |-> f, data |-> d]
      BY <2>5 DEF Download
    <3>3. d \in Regions /\ run' = run
      BY <2>5, <3>1, <3>2, Zenon DEF Download
    <3>. QED BY <1>0, <3>2, <3>3 DEF FlashOK
  <2>. QED BY <2>1, <2>2, <2>3, <2>4, <2>5
       DEF Next, BootStep, LoadEnv, NeedUpdate, Validate, Verify, SaveErase, SaveWrite,
           Updated, Recover, DoBoot, Flush, Change, Reset, flash, vars
<1>2. BootOK'
  <2>1. CASE CopyAgain
    BY <1>0, <2>1, CopyAgainFacts
  <2>2. CASE UNCHANGED boot
    BY <1>0, <2>2 DEF BootOK
  <2>3. CASE \E pc \in PCs \ {"reset", "copy"} :
                /\ Goto(pc)
                /\ pc \in {"check", "validate"} => boot.pc \in {"reset", "check"}
                /\ pc = "write" => boot.pc = "copy"
    BY <1>0, <2>3, GotoFacts
  <2>4. CASE boot' \in {[pc |-> p, i |-> 0, block |-> 1, fw |-> None] : p \in {"run", "reset"}}
    BY <2>4 DEF BootOK, PCs
  <2>5. CASE Validate
    <3>1. CASE boot' = [boot EXCEPT !.pc = "copy", !.fw = load.fw]
      <4>. "copy" \in PCs /\ boot.pc = "validate" /\ load.fw \in Firmwares
        BY <1>0, <2>5 DEF Validate, FlashOK, PCs
      <4>1. boot' \in [pc : PCs, i : Nat, block : Nat, fw : Firmwares \cup {None}]
        BY <1>0, <3>1 DEF BootOK
      <4>2. boot'.pc = "copy" /\ boot'.block = 1
        BY <1>0, <3>1 DEF BootOK
      <4>. QED BY <4>1, <4>2, BootAssumption DEF BootOK
    <3>. QED BY <2>1, <2>3, <2>5, <3>1 DEF Validate, CopyFails
  <2>6. CASE CopyWrite
    <3>1. CASE boot' = [boot EXCEPT !.block = @ + 1,
                          !.pc = IF boot.block < Blocks THEN "copy" ELSE "verify"]
      <4>. "copy" \in PCs /\ "verify" \in PCs /\ boot.pc = "write"
        BY <1>0, <2>6 DEF CopyWrite, PCs
      <4> DEFINE p == IF boot.block < Blocks THEN "copy" ELSE "verify"
      <4>0. p \in PCs /\ boot' = [boot EXCEPT !.block = @ + 1, !.pc = p]
        BY <3>1
      <4> HIDE DEF p
      <4>1. boot' \in [pc : PCs, i : Nat, block : Nat, fw : Firmwares \cup {None}]
        <5>1. boot' = [pc |-> p, i |-> boot.i, block |-> boot.block + 1, fw |-> boot.fw]
          BY <1>0, <4>0 DEF BootOK
        <5>2. boot.block + 1 \in Nat /\ boot.i \in Nat /\ boot.fw \in Firmwares \cup {None}
          BY <1>0 DEF BootOK
        <5>. QED BY <4>0, <5>1, <5>2
      <4>2. /\ boot'.pc = IF boot.block < Blocks THEN "copy" ELSE "verify"
            /\ boot'.block = boot.block + 1 /\ boot.block \in 1 .. Blocks
        BY <1>0, <3>1 DEF BootOK
      <4>. QED BY <4>1, <4>2, BootAssumption DEF BootOK
    <3>. QED BY <2>1, <2>6, <3>1 DEF CopyWrite, CopyFails
  <2>7. CASE LoadEnv \/ NeedUpdate
    BY <2>3, <2>7 DEF LoadEnv, NeedUpdate
  <2>8. CASE CopyErase \/ Verify \/ SaveErase \/ SaveWrite
    BY <2>1, <2>3, <2>8 DEF CopyErase, Verify, SaveErase, SaveWrite, CopyFails
  <2>9. CASE Updated \/ Recover \/ DoBoot
    <3>1. Goto("boot") \/ Goto("flush")
      BY <2>9, Zenon DEF Updated, Recover, DoBoot
    <3>. QED BY <2>3, <3>1
  <2>10. CASE Flush \/ PowerFails \/ Reset
    BY <2>4, <2>10 DEF Flush, PowerFails, Reset, Restarted
  <2>11. ASSUME NEW n, NEW v, UNCHANGED vars \/ Download(n) \/ Change(n, v) PROVE BootOK'
    <3>1. Download(n) => UNCHANGED boot
      BY DEF Download
    <3>2. Change(n, v) => UNCHANGED boot
      BY DEF Change
    <3>3. UNCHANGED vars => UNCHANGED boot
      BY DEF vars
    <3>. QED BY <2>2, <2>11, <3>1, <3>2, <3>3
  <2>. QED BY <2>5, <2>6, <2>7, <2>8, <2>9, <2>10, <2>11, Zenon DEF Next, BootStep
<1>3. HistOK'
  <2>1. CASE CopyFails
    BY <1>0, <2>1, CopyFailsFacts
  <2>2. CASE SaveWrite
    <3>1. (boot.i >= TryCnt) \in BOOLEAN
      BY <1>0, BootAssumption DEF BootOK
    <3>. QED BY <1>0, <2>2, <3>1, HistFacts, Zenon DEF SaveWrite
  <2>3. CASE PowerFails
    BY <1>0, <2>3, HistFacts, Zenon DEF PowerFails
  <2>4. CASE UNCHANGED hist \/ hist' = [hist EXCEPT !.blind = TRUE]
             \/ hist' = [hist EXCEPT !.blind = FALSE, !.gaveup = FALSE]
             \/ \E x : hist' = [hist EXCEPT !.flushed = x]
    <3>. TRUE \in BOOLEAN OBVIOUS
    <3>. QED BY <1>0, <2>4, HistFacts, Zenon
  <2>5. CASE LoadEnv \/ NeedUpdate \/ Validate
    BY <2>1, <2>4, <2>5 DEF LoadEnv, NeedUpdate, Validate
  <2>6. CASE CopyErase \/ CopyWrite \/ Verify \/ SaveErase
    BY <2>1, <2>4, <2>6 DEF CopyErase, CopyWrite, Verify, SaveErase
  <2>7. CASE Updated \/ Recover \/ DoBoot \/ Flush \/ Reset
    BY <2>4, <2>7 DEF Updated, Recover, DoBoot, Flush, Reset
  <2>8. ASSUME NEW n, NEW v, UNCHANGED vars \/ Download(n) \/ Change(n, v) PROVE HistOK'
    <3>1. Download(n) => UNCHANGED hist
      BY DEF Download
    <3>2. Change(n, v) => \E x : hist' = [hist EXCEPT !.flushed = x]
      BY DEF Change
    <3>3. UNCHANGED vars => UNCHANGED hist
      BY DEF vars
    <3>. QED BY <2>4, <2>8, <3>1, <3>2, <3>3
  <2>. QED BY <2>2, <2>3, <2>5, <2>6, <2>7, <2>8, Zenon DEF Next, BootStep
<1>. QED BY <1>1, <1>2, <1>3 DEF TypeInv

\* Copying and SuccessMeansInstalled are kept: the load region changes only
\* while a firmware runs, and the run region is compared with it before the
\* information sector is written.
LEMMA CopyStep == TypeInv /\ Copying /\ SuccessMeansInstalled /\ [Next]_vars
                    => Copying' /\ SuccessMeansInstalled'
<1> SUFFICES ASSUME TypeInv, Copying, SuccessMeansInstalled, [Next]_vars
             PROVE  Copying' /\ SuccessMeansInstalled'
  OBVIOUS
<1>0. FlashOK /\ BootOK /\ HistOK /\ TypeInv'
  BY TypeStep DEF TypeInv
<1>a. ASSUME boot'.pc \notin {"copy", "write", "verify", "save", "savewrite", "updated"}
      PROVE  Copying' /\ SuccessMeansInstalled'
  BY <1>a, Zenon DEF Copying, SuccessMeansInstalled
<1>b. ASSUME boot'.pc = "updated", hist'.blind PROVE Copying' /\ SuccessMeansInstalled'
  BY <1>b DEF Copying, SuccessMeansInstalled
<1>c. ASSUME CopyFails PROVE Copying' /\ SuccessMeansInstalled'
  BY <1>0, <1>a, <1>c, CopyFailsFacts
<1>d. ASSUME Goto("updated"), hist' = [hist EXCEPT !.blind = TRUE]
      PROVE  Copying' /\ SuccessMeansInstalled'
  <2>. TRUE \in BOOLEAN OBVIOUS
  <2>1. hist'.blind
    BY <1>0, <1>d, HistFacts, Zenon
  <2>2. boot'.pc = "updated"
    BY <1>0, <1>d DEF Goto, BootOK
  <2>. QED BY <1>b, <2>1, <2>2
<1>1. CASE LoadEnv
  BY <1>0, <1>1, <1>a DEF LoadEnv, Goto, BootOK
<1>2. CASE NeedUpdate
  BY <1>0, <1>2, <1>a DEF NeedUpdate, Goto, BootOK
<1>3. CASE Validate
  <2>1. CASE Valid /\ boot' = [boot EXCEPT !.pc = "copy", !.fw = load.fw]
    <3>1. boot'.pc = "copy" /\ boot'.fw = load.fw /\ load' = load /\ Valid
      BY <1>0, <1>3, <2>1 DEF Validate, flash, BootOK
    <3>. QED BY <3>1 DEF Copying, SuccessMeansInstalled, Valid
  <2>. QED BY <1>3, <2>1, <1>c, <1>d DEF Validate
<1>4. CASE CopyErase
  <2>1. CASE Goto("write")
    <3>1. boot'.pc = "write" /\ boot'.fw = boot.fw /\ load' = load /\ boot.pc = "copy"
      BY <1>0, <1>4, <2>1 DEF CopyErase, Goto, BootOK
    <3>. QED BY <3>1 DEF Copying, SuccessMeansInstalled, Valid
  <2>. QED BY <1>4, <2>1, <1>c DEF CopyErase
<1>5. CASE CopyWrite
  <2>1. CASE boot' = [boot EXCEPT !.block = @ + 1,
                        !.pc = IF boot.block < Blocks THEN "copy" ELSE "verify"]
    <3>1. /\ boot'.pc \in {"copy", "verify"} /\ boot'.fw = boot.fw
          /\ load' = load /\ boot.pc = "write"
      BY <1>0, <1>5, <2>1 DEF CopyWrite, BootOK
    <3>. QED BY <3>1 DEF Copying, SuccessMeansInstalled, Valid
  <2>. QED BY <1>5, <2>1, <1>c DEF CopyWrite
<1>6. CASE Verify
  <2>1. CASE run = Image(boot.fw) /\ Goto("save")
    <3>1. /\ boot'.pc = "save" /\ boot'.fw = boot.fw /\ boot.pc = "verify"
          /\ load' = load /\ run' = run /\ run = Image(boot.fw)
      BY <1>0, <1>6, <2>1 DEF Verify, Goto, BootOK, flash
    <3>. QED BY <3>1 DEF Copying, SuccessMeansInstalled, Valid
  <2>. QED BY <1>6, <2>1, <1>c, <1>d DEF Verify
<1>7. CASE SaveErase
  <2>1. CASE Goto("savewrite")
    <3>1. /\ boot'.pc = "savewrite" /\ boot'.fw = boot.fw /\ boot.pc = "save"
          /\ load' = load /\ run' = run
      BY <1>0, <1>7, <2>1 DEF SaveErase, Goto, BootOK
    <3>. QED BY <3>1 DEF Copying, SuccessMeansInstalled, Valid
  <2>. QED BY <1>7, <2>1, <1>c DEF SaveErase
<1>8. CASE SaveWrite
  <2>1. CASE info' = Pointer(boot.fw) /\ Goto("updated")
    <3>1. /\ boot'.pc = "updated" /\ boot.pc = "savewrite"
          /\ load' = load /\ run' = run /\ info' = Pointer(boot.fw)
      BY <1>0, <1>8, <2>1 DEF SaveWrite, Goto, BootOK
    <3>2. Valid /\ boot.fw = load.fw /\ run = Image(boot.fw)
      BY <3>1 DEF Copying
    <3>3. Valid' /\ run' = load'.data /\ info' = Pointer(load'.fw)
      BY <3>1, <3>2 DEF Valid
    <3>. QED BY <3>1, <3>3 DEF Copying, SuccessMeansInstalled
  <2>2. CASE CopyAgain
    BY <1>0, <1>a, <2>2, CopyAgainFacts
  <2>. QED BY <1>8, <2>1, <2>2 DEF SaveWrite
<1>9. CASE Updated \/ Recover \/ DoBoot
  <2>1. Goto("boot") \/ Goto("flush")
    BY <1>9, Zenon DEF Updated, Recover, DoBoot
  <2>. QED BY <1>0, <1>a, <2>1 DEF Goto, BootOK
<1>10. CASE Flush \/ PowerFails \/ Reset
  <2>1. Flush => boot'.pc = "run"
    BY DEF Flush
  <2>2. PowerFails => boot'.pc = "reset"
    BY DEF PowerFails, Restarted
  <2>3. Reset => boot'.pc = "reset"
    BY DEF Reset, Restarted
  <2>. QED BY <1>10, <1>a, <2>1, <2>2, <2>3
<1>11. ASSUME NEW n, NEW v, Download(n) \/ Change(n, v) PROVE Copying' /\ SuccessMeansInstalled'
  <2>1. Download(n) => UNCHANGED boot /\ boot.pc = "run"
    BY DEF Download, Works
  <2>2. Change(n, v) => UNCHANGED boot /\ boot.pc = "run"
    BY DEF Change, Works
  <2>. QED BY <1>11, <1>a, <2>1, <2>2
<1>12. CASE UNCHANGED vars
  BY <1>12 DEF vars, Copying, SuccessMeansInstalled, Valid
<1>. QED BY <1>1, <1>2, <1>3, <1>4, <1>5, <1>6, <1>7, <1>8, <1>9, <1>10, <1>11, <1>12, Zenon
     DEF Next, BootStep


\* A run region that is being written belongs to an update the next start
\* finds undone; IntactInv is kept by every step.
LEMMA IntactStep == TypeInv /\ Copying /\ IntactInv /\ [Next]_vars => IntactInv'
<1> SUFFICES ASSUME TypeInv, Copying, IntactInv, [Next]_vars PROVE IntactInv'
  OBVIOUS
<1>0. FlashOK /\ BootOK /\ HistOK /\ Repairable /\ UpdateIsDue /\ PastUpdate
  BY DEF TypeInv, IntactInv
<1>v. UNCHANGED load => Valid' = Valid
  BY DEF Valid
<1>w. UNCHANGED <<load, info>> => Newer' = Newer
  BY DEF Newer
<1>r. UNCHANGED run => Intact(run') = Intact(run)
  OBVIOUS
<1>e. Valid /\ UNCHANGED load /\ info' = Erased => Newer'
  BY DEF Valid, Newer, Erased
<1>i. ASSUME NEW f \in Firmwares PROVE Intact(Image(f))
  BY DEF Intact
\* The flash is as it was, and so is the history of saving.
<1>k. ASSUME UNCHANGED flash, hist'.unsaved = hist.unsaved PROVE Repairable'
  BY <1>0, <1>k, <1>v, <1>w, <1>r DEF Repairable, flash
\* A failed attempt starts over, or gives up.
<1>f. ASSUME CopyFails, Repairable', hist'.unsaved \/ Newer' PROVE IntactInv'
  <2>1. boot'.pc \in {"validate", "boot"} /\ (boot'.pc = "boot" => hist'.gaveup)
    BY <1>0, <1>f, CopyFailsFacts
  <2>. QED BY <1>f, <2>1 DEF IntactInv, UpdateIsDue, PastUpdate
\* The boot goes on with a result nobody trusts.
<1>b. ASSUME UNCHANGED flash, hist' = [hist EXCEPT !.blind = TRUE],
             Goto("updated") \/ Goto("recover")
      PROVE  IntactInv'
  <2>. TRUE \in BOOLEAN OBVIOUS
  <2>1. hist'.blind /\ hist'.unsaved = hist.unsaved
    BY <1>0, <1>b, HistFacts, Zenon
  <2>2. boot'.pc \in {"updated", "recover"}
    BY <1>0, <1>b DEF Goto, BootOK
  <2>. QED BY <1>b, <1>k, <2>1, <2>2 DEF IntactInv, UpdateIsDue, PastUpdate
<1>1. CASE LoadEnv
  <2>1. boot'.pc = "check" /\ UNCHANGED flash /\ UNCHANGED hist
    BY <1>0, <1>1 DEF LoadEnv, Goto, BootOK
  <2>. QED BY <2>1, <1>k DEF IntactInv, UpdateIsDue, PastUpdate
<1>2. CASE NeedUpdate
  <2>1. CASE Goto(IF Newer THEN "validate" ELSE "recover") /\ UNCHANGED hist
    <3>1. UNCHANGED flash /\ boot'.pc = IF Newer THEN "validate" ELSE "recover"
      BY <1>0, <1>2, <2>1 DEF NeedUpdate, Goto, BootOK
    <3>2. Repairable'
      BY <3>1, <2>1, <1>k
    <3>3. CASE Newer
      BY <3>1, <3>2, <3>3, <1>w DEF IntactInv, UpdateIsDue, PastUpdate, flash
    <3>4. CASE ~Newer
      BY <1>0, <2>1, <3>1, <3>2, <3>4 DEF IntactInv, UpdateIsDue, PastUpdate, Repairable, flash
    <3>. QED BY <3>3, <3>4
  <2>2. CASE Goto("recover") /\ hist' = [hist EXCEPT !.blind = TRUE]
    BY <1>2, <2>2, <1>b DEF NeedUpdate
  <2>. QED BY <1>2, <2>1, <2>2 DEF NeedUpdate
<1>3. CASE Validate
  <2>0. UNCHANGED flash /\ boot.pc = "validate"
    BY <1>3 DEF Validate
  <2>1. CASE boot' = [boot EXCEPT !.pc = "copy", !.fw = load.fw] /\ UNCHANGED hist
    <3>1. boot'.pc = "copy"
      BY <1>0, <2>1 DEF BootOK
    <3>. QED BY <1>0, <2>0, <2>1, <3>1, <1>k, <1>w DEF IntactInv, UpdateIsDue, PastUpdate, flash
  <2>2. CASE CopyFails
    <3>1. hist'.unsaved = hist.unsaved
      BY <1>0, <2>2, CopyFailsFacts
    <3>2. hist'.unsaved \/ Newer'
      BY <1>0, <2>0, <3>1, <1>w DEF UpdateIsDue, flash
    <3>. QED BY <2>0, <2>2, <3>1, <3>2, <1>k, <1>f
  <2>. QED BY <1>3, <2>0, <2>1, <2>2, <1>b DEF Validate
<1>4. CASE CopyErase \/ CopyWrite
  <2>0. boot.pc \in {"copy", "write"} /\ UNCHANGED <<load, info>> /\ Valid
    BY <1>4 DEF CopyErase, CopyWrite, Copying
  <2>1. hist'.unsaved = hist.unsaved
    BY <1>0, <1>4, CopyFailsFacts DEF CopyErase, CopyWrite
  <2>2. Repairable' /\ (hist'.unsaved \/ Newer')
    BY <1>0, <2>0, <2>1, <1>v, <1>w DEF Repairable, UpdateIsDue
  <2>3. CASE CopyFails
    BY <2>2, <2>3, <1>f
  <2>4. CASE ~CopyFails
    <3>1. boot'.pc \in {"write", "copy", "verify"}
      BY <1>0, <1>4, <2>4 DEF CopyErase, CopyWrite, Goto, BootOK
    <3>. QED BY <2>2, <3>1 DEF IntactInv, UpdateIsDue, PastUpdate
  <2>. QED BY <2>3, <2>4
<1>5. CASE Verify
  <2>0. UNCHANGED flash /\ boot.pc = "verify"
    BY <1>5 DEF Verify
  <2>1. CASE Goto("save") /\ UNCHANGED hist
    <3>1. boot'.pc = "save"
      BY <1>0, <2>1 DEF BootOK, Goto
    <3>. QED BY <1>0, <2>0, <2>1, <3>1, <1>k, <1>w DEF IntactInv, UpdateIsDue, PastUpdate, flash
  <2>2. CASE CopyFails
    <3>1. hist'.unsaved = hist.unsaved
      BY <1>0, <2>2, CopyFailsFacts
    <3>2. hist'.unsaved \/ Newer'
      BY <1>0, <2>0, <3>1, <1>w DEF UpdateIsDue, flash
    <3>. QED BY <2>0, <2>2, <3>1, <3>2, <1>k, <1>f
  <2>. QED BY <1>5, <2>0, <2>1, <2>2, <1>b DEF Verify
<1>6. CASE SaveErase
  <2>0. /\ boot.pc = "save" /\ UNCHANGED <<load, run>> /\ Valid /\ Intact(run)
        /\ info' = info \/ info' = Erased
    BY <1>0, <1>6, <1>i DEF SaveErase, Copying, FlashOK
  <2>1. hist'.unsaved \/ Newer'
    <3>1. hist'.unsaved = hist.unsaved
      BY <1>0, <1>6, CopyFailsFacts DEF SaveErase
    <3>. QED BY <1>0, <2>0, <3>1, <1>w, <1>e DEF UpdateIsDue
  <2>2. Repairable'
    BY <2>0, <1>r DEF Repairable
  <2>3. CASE Goto("savewrite")
    <3>1. boot'.pc = "savewrite"
      BY <1>0, <2>3 DEF BootOK, Goto
    <3>. QED BY <2>2, <3>1 DEF IntactInv, UpdateIsDue, PastUpdate
  <2>. QED BY <1>6, <2>1, <2>2, <2>3, <1>f DEF SaveErase
<1>7. CASE SaveWrite
  <2>0. boot.pc = "savewrite" /\ UNCHANGED run /\ Intact(run)
    BY <1>0, <1>7, <1>i DEF SaveWrite, Copying, FlashOK
  <2>1. CASE Goto("updated")
    <3>1. boot'.pc = "updated"
      BY <1>0, <2>1 DEF BootOK, Goto
    <3>. QED BY <2>0, <3>1, <1>r DEF IntactInv, Repairable, UpdateIsDue, PastUpdate
  <2>2. CASE CopyAgain /\ hist' = [hist EXCEPT !.gaveup = boot.i >= TryCnt, !.unsaved = TRUE]
    <3>. TRUE \in BOOLEAN OBVIOUS
    <3>1. hist'.unsaved
      BY <1>0, <2>2, CopyAgainFacts, HistFacts, Zenon
    <3>. QED BY <3>1 DEF IntactInv, Repairable, UpdateIsDue, PastUpdate
  <2>. QED BY <1>7, <2>1, <2>2, Zenon DEF SaveWrite
<1>8. CASE Updated \/ Recover \/ DoBoot
  <2>1. Goto("boot") \/ Goto("flush")
    BY <1>8, Zenon DEF Updated, Recover, DoBoot
  <2>2. UNCHANGED flash /\ UNCHANGED hist /\ boot.pc \in {"updated", "recover", "boot"}
    BY <1>8 DEF Updated, Recover, DoBoot
  <2>3. boot'.pc \in {"boot", "flush"}
    BY <1>0, <2>1 DEF Goto, BootOK
  <2>. QED BY <1>0, <2>2, <2>3, <1>k DEF IntactInv, UpdateIsDue, PastUpdate, flash
<1>9. CASE Flush
  <2>1. boot.pc = "flush" /\ boot'.pc = "run" /\ UNCHANGED flash
    BY <1>9 DEF Flush
  <2>2. /\ hist'.unsaved = hist.unsaved /\ hist'.blind = hist.blind
        /\ hist'.gaveup = hist.gaveup
    BY <1>0, <1>9, HistFacts DEF Flush
  <2>. QED BY <1>0, <2>1, <2>2, <1>k DEF IntactInv, UpdateIsDue, PastUpdate, flash
<1>10. CASE PowerFails
  <2>1. boot'.pc = "reset" /\ UNCHANGED load
    BY <1>10 DEF PowerFails, Restarted
  <2>2. hist'.unsaved = hist.unsaved
    BY <1>0, <1>10, HistFacts, Zenon DEF PowerFails
  <2>3. CASE boot.pc \in {"copy", "write"}
    <3>1. info' = info
      BY <1>10, <2>3 DEF PowerFails
    <3>. QED BY <1>0, <2>1, <2>2, <2>3, <3>1, <1>v, <1>w
         DEF IntactInv, Repairable, UpdateIsDue, PastUpdate, Copying
  <2>4. CASE boot.pc \in {"save", "savewrite"}
    <3>1. run' = run
      BY <1>10, <2>4 DEF PowerFails
    <3>2. Intact(run)
      BY <1>0, <2>4, <1>i DEF Copying, FlashOK
    <3>. QED BY <2>1, <3>1, <3>2, <1>r DEF IntactInv, Repairable, UpdateIsDue, PastUpdate
  <2>5. CASE boot.pc \notin {"copy", "write", "save", "savewrite"}
    <3>1. UNCHANGED flash
      BY <1>10, <2>5 DEF PowerFails, flash
    <3>. QED BY <2>1, <2>2, <3>1, <1>k DEF IntactInv, UpdateIsDue, PastUpdate
  <2>. QED BY <2>3, <2>4, <2>5
<1>11. ASSUME NEW n, Download(n) PROVE IntactInv'
  <2>1. UNCHANGED <<run, boot, hist>> /\ boot.pc = "run" /\ Intact(run)
    BY <1>11 DEF Download, Works
  <2>. QED BY <2>1, <1>r DEF IntactInv, Repairable, UpdateIsDue, PastUpdate
<1>12. ASSUME NEW n, NEW v, Change(n, v) PROVE IntactInv'
  <2>1. UNCHANGED <<run, boot>> /\ boot.pc = "run" /\ Intact(run)
    BY <1>12 DEF Change, Works, flash
  <2>. QED BY <2>1, <1>r DEF IntactInv, Repairable, UpdateIsDue, PastUpdate
<1>13. CASE Reset
  <2>1. boot'.pc = "reset" /\ UNCHANGED flash
    BY <1>13 DEF Reset, Restarted
  <2>2. hist'.unsaved = hist.unsaved
    BY <1>0, <1>13, HistFacts, Zenon DEF Reset
  <2>. QED BY <2>1, <2>2, <1>k DEF IntactInv, UpdateIsDue, PastUpdate
<1>14. CASE UNCHANGED vars
  BY <1>0, <1>14, <1>v, <1>w, <1>r DEF IntactInv, Repairable, UpdateIsDue, PastUpdate, vars
<1>. QED BY <1>1, <1>2, <1>3, <1>4, <1>5, <1>6, <1>7, <1>8, <1>9, <1>10, <1>11, <1>12, <1>13,
            <1>14, Zenon DEF Next, BootStep

----------------------------------------------------------------------------
\* The device leaves the factory with a whole firmware and nothing to update.
LEMMA InitFacts == Init => TypeInv /\ Copying /\ SuccessMeansInstalled /\ IntactInv
<1> SUFFICES ASSUME Init PROVE TypeInv /\ Copying /\ SuccessMeansInstalled /\ IntactInv
  OBVIOUS
<1>1. boot.pc = "reset" /\ boot = [pc |-> "reset", i |-> 0, block |-> 1, fw |-> None]
  BY DEF Init
<1>2. BootOK
  BY <1>1 DEF BootOK, PCs
<1>3. HistOK
  BY DEF Init, HistOK
<1>4. PICK f \in Firmwares :
        /\ run = Image(f)
        /\ load = [magic |-> FALSE, sized |-> FALSE, fw |-> f, data |-> Image(None)]
  BY DEF Init
<1>5. FlashOK
  BY <1>4, RegionFacts DEF FlashOK
<1>6. Intact(run)
  BY <1>4 DEF Intact
<1>. QED BY <1>1, <1>2, <1>3, <1>5, <1>6
     DEF TypeInv, Copying, SuccessMeansInstalled, IntactInv, Repairable, UpdateIsDue, PastUpdate

\* BootInv holds in every reachable state.
LEMMA BootInvariant == Spec => []BootInv
<1>1. Init => BootInv
  BY InitFacts DEF BootInv
<1>2. BootInv /\ [Next]_vars => BootInv'
  BY TypeStep, CopyStep, IntactStep DEF BootInv
<1>. QED BY <1>1, <1>2, PTL DEF Spec

\* fw_copy_decomp returns 0, in a boot in which no read failed, only when the
\* run region holds the downloaded firmware and the information sector says
\* so: for any number of blocks and retries, and any failures and power cuts.
THEOREM UpdateInstalls == Spec => []SuccessMeansInstalled
<1>1. BootInv => SuccessMeansInstalled
  BY DEF BootInv
<1>. QED BY <1>1, BootInvariant, PTL

\* general_boot starts a whole firmware wherever the power failed in updates
\* before, unless this boot saw a failing read or gave up, or the header was
\* written with an error: what is not whole is known to be repairable.
THEOREM WholeFirmwareStarted == Spec => []BootsIntact
<1>1. BootInv => BootsIntact
  BY DEF BootInv, IntactInv, PastUpdate, BootsIntact
<1>. QED BY <1>1, BootInvariant, PTL

=============================================================================
