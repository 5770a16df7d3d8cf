--------------------------------- MODULE Boot ---------------------------------
(***************************************************************************)
(* The boot loader of boot/boot.c: the firmware that was downloaded to the *)
(* load region of the flash is checked, copied to the run region, verified *)
(* and recorded in the information sector; the environment variables carry *)
(* the crash state from one start to the next (module EnvCore).            *)
(*                                                                         *)
(* Every flash operation may fail, a write may go wrong unnoticed, and the *)
(* power may fail before, in or after every operation.  Reads change       *)
(* nothing, so consecutive reads are one step.  Checksums of different     *)
(* firmwares differ, and a firmware's data has its checksum only when all  *)
(* of its blocks are right.                                                *)
(***************************************************************************)
EXTENDS EnvCore

CONSTANTS Firmwares,      \* firmwares, told apart by their checksum
          Devid,          \* the device each is made for
          None, Junk,     \* erased flash; flash with anything else in it
          Blocks,         \* blocks of a firmware
          TryCnt,         \* trycnt, the retries after a failed copy
          Budgets         \* bounds on downloads, power cuts, faults, app changes, resets

ASSUME BootAssumption ==
    /\ Blocks \in Nat \ {0} /\ TryCnt \in Nat
    /\ {None, Junk} \cap Firmwares = {}
    /\ Budgets \subseteq [{"downloads", "cuts", "faults", "changes", "resets"} -> Nat]

VARIABLES
    load,      \* load region: the header and the blocks of data
    run,       \* run region: the blocks
    info,      \* information sector: the firmware_pointer
    nvram,     \* nvram->env_ram
    environ,   \* the variables in memory
    boot,      \* where general_boot is: pc, i, block, the header fw
    hist,      \* history: what happened in this boot, and the last flush
    budget

vars == <<load, run, info, nvram, environ, boot, hist, budget>>

\* Block k holds firmware f's block k when its value is f.
Regions == [1 .. Blocks -> Firmwares \cup {None, Junk}]
Image(f) == [k \in 1 .. Blocks |-> f]
Intact(region) == \E f \in Firmwares : region = Image(f)

\* A firmware_pointer. A torn one may have its magic and lack the rest.
Pointer(f) == [magic |-> TRUE, devid |-> Devid[f], dcrc |-> f]
Erased == [magic |-> FALSE, devid |-> None, dcrc |-> None]
Torn(f) == {Erased, Pointer(f), [Erased EXCEPT !.magic = TRUE],
            [Pointer(f) EXCEPT !.dcrc = None]}

Init ==
    /\ \E f \in Firmwares :
         /\ run = Image(f) /\ info \in {Pointer(f), Erased}
         /\ load = [magic |-> FALSE, sized |-> FALSE, fw |-> f, data |-> Image(None)]
    /\ nvram = EmptyRam /\ environ = <<>>
    /\ boot = [pc |-> "reset", i |-> 0, block |-> 1, fw |-> None]
    /\ hist = [blind |-> FALSE, gaveup |-> FALSE, unsaved |-> FALSE, flushed |-> <<>>]
    /\ budget \in Budgets

Spend(what) == budget[what] > 0 /\ budget' = [budget EXCEPT ![what] = @ - 1]
Goto(pc) == boot' = [boot EXCEPT !.pc = pc]
flash == <<load, run, info>>

----------------------------------------------------------------------------
(* general_boot *)

\* The variables are loaded, the disks opened.
LoadEnv ==
    /\ boot.pc = "reset"
    /\ environ' = EnvLoad(nvram)
    /\ Goto("check")
    /\ UNCHANGED <<flash, nvram, hist, budget>>

Newer == load.magic /\ IF info.magic
                       THEN info.devid = Devid[load.fw] /\ info.dcrc # load.fw
                       ELSE TRUE

\* is_fw_need_update: a failing read means no.
NeedUpdate ==
    /\ boot.pc = "check"
    /\ \/ /\ Goto(IF Newer THEN "validate" ELSE "recover")
          /\ UNCHANGED <<hist, budget>>
       \/ /\ Spend("faults") /\ Goto("recover")
          /\ hist' = [hist EXCEPT !.blind = TRUE]
    /\ UNCHANGED <<flash, nvram, environ>>

\* Mutant: a retry starts over and does not count.
CopyAgainUncounted ==
    boot' = [boot EXCEPT !.block = 1, !.fw = None,
                         !.pc = IF boot.i < TryCnt THEN "check" ELSE "boot"]

\* The end of a failed fw_copy_decomp: again, or boot what there is.
CopyAgain ==
    boot' = [boot EXCEPT !.i = @ + 1, !.block = 1, !.fw = None,
                         !.pc = IF boot.i < TryCnt THEN "validate" ELSE "boot"]
CopyFails == CopyAgain /\ hist' = [hist EXCEPT !.gaveup = boot.i >= TryCnt]

Valid == load.magic /\ load.sized /\ load.data = Image(load.fw)

\* is_fw_valid. When one of its reads fails it returns the error, which counts
\* as true, and leaves the caller's header zero: nothing is copied, and the
\* update has succeeded.
Validate ==
    /\ boot.pc = "validate"
    /\ \/ Valid /\ boot' = [boot EXCEPT !.pc = "copy", !.fw = load.fw] /\ UNCHANGED <<hist, budget>>
       \/ ~Valid /\ CopyFails /\ UNCHANGED budget
       \/ /\ Spend("faults") /\ Goto("updated")
          /\ hist' = [hist EXCEPT !.blind = TRUE]
    /\ UNCHANGED <<flash, nvram, environ>>

\* One block of the copy: the source is read and the destination erased, ...
CopyErase ==
    /\ boot.pc = "copy"
    /\ \/ /\ run' = [run EXCEPT ![boot.block] = None]
          /\ Goto("write")
          /\ UNCHANGED <<hist, budget>>
       \/ /\ Spend("faults") /\ CopyFails
          /\ \E c \in {run[boot.block], None, Junk} : run' = [run EXCEPT ![boot.block] = c]
    /\ UNCHANGED <<load, info, nvram, environ>>

\* ... and written; a write may fail, or go wrong unnoticed.
CopyWrite ==
    /\ boot.pc = "write"
    /\ \/ /\ \/ run' = [run EXCEPT ![boot.block] = load.data[boot.block]] /\ UNCHANGED budget
             \/ run' = [run EXCEPT ![boot.block] = Junk] /\ Spend("faults")
          /\ boot' = [boot EXCEPT !.block = @ + 1,
                                  !.pc = IF boot.block < Blocks THEN "copy" ELSE "verify"]
          /\ UNCHANGED hist
       \/ /\ Spend("faults") /\ CopyFails
          /\ \E c \in {None, Junk} : run' = [run EXCEPT ![boot.block] = c]
    /\ UNCHANGED <<load, info, nvram, environ>>

\* Mutant: the checksum of the copy is not looked at.
VerifyUnchecked ==
    /\ boot.pc = "verify"
    /\ Goto("save")
    /\ UNCHANGED <<flash, nvram, environ, hist, budget>>

\* The copy is read back; a failing read ends the loop and the result is 0.
Verify ==
    /\ boot.pc = "verify"
    /\ \/ run = Image(boot.fw) /\ Goto("save") /\ UNCHANGED <<hist, budget>>
       \/ run # Image(boot.fw) /\ CopyFails /\ UNCHANGED budget
       \/ /\ Spend("faults") /\ Goto("updated")
          /\ hist' = [hist EXCEPT !.blind = TRUE]
    /\ UNCHANGED <<flash, nvram, environ>>

\* fw_save_header: read and erase the sector, ...
SaveErase ==
    /\ boot.pc = "save"
    /\ \/ info' = Erased /\ Goto("savewrite") /\ UNCHANGED <<hist, budget>>
       \/ Spend("faults") /\ CopyFails /\ info' \in {info, Erased}
    /\ UNCHANGED <<load, run, nvram, environ>>

\* Mutant: the result of the write is ignored.
SaveWriteUnchecked ==
    /\ boot.pc = "savewrite"
    /\ \/ info' = Pointer(boot.fw) /\ UNCHANGED budget
       \/ info' \in Torn(boot.fw) /\ Spend("faults")
    /\ Goto("updated")
    /\ UNCHANGED <<load, run, nvram, environ, hist>>

\* ... and write it.
SaveWrite ==
    /\ boot.pc = "savewrite"
    /\ \/ /\ info' = Pointer(boot.fw) /\ Goto("updated")
          /\ hist' = [hist EXCEPT !.unsaved = FALSE]
          /\ UNCHANGED budget
       \/ /\ info' \in Torn(boot.fw) /\ Spend("faults")
          /\ CopyAgain
          /\ hist' = [hist EXCEPT !.gaveup = boot.i >= TryCnt, !.unsaved = TRUE]
    /\ UNCHANGED <<load, run, nvram, environ>>

\* fw_copy_decomp has returned 0.
Updated ==
    /\ boot.pc = "updated"
    /\ environ' = EnvUnset(environ, Text("crash-cnt"))
    /\ Goto("boot")
    /\ UNCHANGED <<flash, nvram, hist, budget>>

\* is_fw_need_recovery: the count is set to what it was.
REBOOT_MAX_LIMIT == 10
MIN_TIME == 60
Recover ==
    LET errs == EnvGetul(environ, Text("crash-cnt")) IN
    /\ boot.pc = "recover"
    /\ environ' = IF ~EnvStreq(environ, Text("crash"), Text("yes")) THEN environ
                  ELSE IF errs > REBOOT_MAX_LIMIT
                  THEN EnvSet(environ, Text("ota-update"), Text("yes"), TRUE)
                  ELSE IF EnvGetul(environ, Text("runtime")) < MIN_TIME
                  THEN EnvSetint(environ, Text("crash-cnt"), errs)
                  ELSE environ
    /\ Goto("boot")
    /\ UNCHANGED <<flash, nvram, hist, budget>>

\* _do_boot: the variables for the firmware, ...
DoBoot ==
    LET okay == EnvGetul(environ, Text("runtime")) > 3600
        env1 == IF okay THEN EnvUnset(environ, Text("crash-cnt")) ELSE environ
        env2 == EnvSet(env1, Text("crash"), Text("yes"), TRUE)
    IN /\ boot.pc = "boot"
       /\ environ' = EnvUnset(env2, Text("runtime"))
       /\ Goto("flush")
       /\ UNCHANGED <<flash, nvram, hist, budget>>

\* ... which are flushed, and the firmware is started.
Flush ==
    /\ boot.pc = "flush"
    /\ nvram' = EnvFlush(environ, nvram)
    /\ hist' = [hist EXCEPT !.flushed = environ]
    /\ boot' = [pc |-> "run", i |-> 0, block |-> 1, fw |-> None]
    /\ UNCHANGED <<flash, environ, budget>>

----------------------------------------------------------------------------
(* The power fails: an operation may have been done in part. *)

Restarted == /\ boot' = [pc |-> "reset", i |-> 0, block |-> 1, fw |-> None]
             /\ environ' = <<>>

PowerFails ==
    /\ boot.pc \notin {"reset", "run"} /\ Spend("cuts")
    /\ Restarted
    /\ run' \in {run} \cup {[run EXCEPT ![boot.block] = c] :
                    c \in IF boot.pc = "copy" THEN {None, Junk}
                          ELSE IF boot.pc = "write" THEN {Junk, load.data[boot.block]} ELSE {}}
    /\ info' \in {info} \cup (IF boot.pc = "save" THEN {Erased}
                              ELSE IF boot.pc = "savewrite" THEN Torn(boot.fw) ELSE {})
    \* of the variables the first n are in the nvram
    /\ \E n \in IF boot.pc = "flush" THEN 0 .. Len(environ) ELSE {0} :
         /\ nvram' = EnvFlush(SubSeq(environ, 1, n), nvram)
         /\ hist' = [hist EXCEPT !.blind = FALSE, !.gaveup = FALSE, !.flushed =
                        IF boot.pc = "flush" /\ n > 0 THEN SubSeq(environ, 1, n) ELSE @]
    /\ UNCHANGED load

----------------------------------------------------------------------------
(* The firmware, which is not part of this repository, as far as the boot    *)
(* loader meets it.  A firmware that is not intact does nothing but reset.   *)

Works == boot.pc = "run" /\ Intact(run)

\* It downloads a firmware, whole or in part.
Download(f) ==
    /\ Works /\ Spend("downloads")
    /\ load' \in {[magic |-> TRUE, sized |-> s, fw |-> f, data |-> d] :
                    s \in BOOLEAN, d \in {Image(f), [Image(f) EXCEPT ![Blocks] = Junk]}}
    /\ UNCHANGED <<run, info, nvram, environ, boot, hist>>

\* It changes a variable.
Change(name, value) ==
    LET env == EnvSet(EnvLoad(nvram), Text(name), Text(value), TRUE) IN
    /\ Works /\ Spend("changes")
    /\ nvram' = EnvFlush(env, nvram)
    /\ hist' = [hist EXCEPT !.flushed = env]
    /\ UNCHANGED <<flash, environ, boot>>

Reset ==
    /\ boot.pc = "run" /\ Spend("resets")
    /\ Restarted
    /\ hist' = [hist EXCEPT !.blind = FALSE, !.gaveup = FALSE]
    /\ UNCHANGED <<flash, nvram>>

----------------------------------------------------------------------------
BootStep ==
    \/ LoadEnv \/ NeedUpdate \/ Validate \/ CopyErase \/ CopyWrite \/ Verify
    \/ SaveErase \/ SaveWrite \/ Updated \/ Recover \/ DoBoot \/ Flush

Next ==
    \/ BootStep \/ PowerFails
    \/ \E f \in Firmwares : Download(f)
    \/ \E c \in {<<"runtime", "b">>, <<"runtime", "e11">>, <<"crash", "no">>,
                 <<"crash-cnt", "b">>} : Change(c[1], c[2])
    \/ Reset

\* Weak fairness of BootStep, which is enabled exactly when no firmware runs:
\* the boot loader is a single thread, and goes on while there is power.
Fairness == []<>(boot.pc = "run") \/ []<><<BootStep>>_vars

Spec == Init /\ [][Next]_vars /\ Fairness

----------------------------------------------------------------------------
(* Properties *)

\* Wherever the power fails in an update, and whatever erase, write or read of
\* the copy loop fails, the firmware that is started in the end is whole: the
\* next start finds the update undone and repeats it.  The exceptions are a
\* boot in which a read that decides on the update or verifies it failed
\* (boot.c:73, 94, 145, 156, 259), one that gave up (boot.c:368), and the
\* power failing in a retry after the header was written with an error: the
\* sector may then name the firmware whose second copy is not complete.
BootsIntact ==
    (boot.pc = "run" /\ ~hist.blind /\ ~hist.gaveup /\ ~hist.unsaved) => Intact(run)

\* When an update has succeeded (fw_copy_decomp returned 0) the run region
\* holds the downloaded firmware and the information sector says so, unless a
\* read failed.
SuccessMeansInstalled ==
    (boot.pc = "updated" /\ ~hist.blind) =>
        Valid /\ run = load.data /\ info = Pointer(load.fw)

\* After a start every variable has the value it had when it was last flushed,
\* whatever older lines are still in the nvram, as far as the lines fit.
FlushedReturn ==
    boot.pc = "check" /\ Len(Lines(hist.flushed)) < MaxLen =>
        \A i \in DOMAIN hist.flushed :
            EnvStreq(environ, hist.flushed[i].name, hist.flushed[i].value)

\* Every start of the device reaches a start of the firmware, however bad the
\* downloaded image is: the retries end.
EventuallyBoots == boot.pc = "reset" ~> boot.pc = "run"

=============================================================================
