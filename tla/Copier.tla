------------------------------- MODULE Copier -------------------------------
(***************************************************************************)
(* stannel/Copier.v: copies a run of words from one memory cell to         *)
(* another, one word in two clock cycles.  CopierClock is one rising edge. *)
(* Addresses wrap, as a stack grows down from address 0.                   *)
(***************************************************************************)
EXTENDS Memory

VARIABLES
    copierState,        \* rState of the copier
    memoryCycle,        \* rMemoryCycle: the second cycle of a word
    copyFrom, copyTo,   \* rReadAddress, rWriteAddress
    wordsCopied,        \* rWordsCopied
    copyWord            \* rDataIn: the word read

copierVars == <<copierState, memoryCycle, copyFrom, copyTo, wordsCopied, copyWord>>

copierFinished == copierState = "DONE"
copierWrites == copierState = "READ_WRITE"

CopierInit ==
    /\ copierState = "WAIT"
    /\ memoryCycle = FALSE
    /\ copyFrom = 0 /\ copyTo = 0
    /\ wordsCopied = 0
    /\ copyWord = 0

\* mutant: it stops one word early.
CopierOffByOne(enabled, readOut, from, to, count) ==
    /\ memoryCycle
    /\ copyWord' = readOut
    /\ copyFrom' = IF copierFinished THEN copyFrom ELSE Plus(copyFrom, 1)
    /\ wordsCopied' = IF copierFinished THEN wordsCopied
                                        ELSE Plus(wordsCopied, 1)
    /\ copyTo' = CASE copierState = "WAIT" -> to
                   [] copierWrites -> Plus(copyTo, 1)
                   [] OTHER -> copyTo
    /\ copierState' = IF ~enabled \/ copierFinished THEN "WAIT"
                      ELSE IF Plus(wordsCopied, 1) = count THEN "DONE"
                      ELSE "READ_WRITE"
    /\ memoryCycle' = FALSE

\* The second cycle of a word.  While it waits, the copier reads the first word
\* and has nothing to write yet.
CopierSecondCycle(enabled, readOut, from, to, count) ==
    /\ memoryCycle
    /\ copyWord' = readOut
    /\ copyFrom' = IF copierFinished THEN copyFrom ELSE Plus(copyFrom, 1)
    /\ wordsCopied' = IF copierFinished THEN wordsCopied
                                        ELSE Plus(wordsCopied, 1)
    /\ copyTo' = CASE copierState = "WAIT" -> to
                   [] copierWrites -> Plus(copyTo, 1)
                   [] OTHER -> copyTo
    /\ copierState' = IF ~enabled \/ copierFinished THEN "WAIT"
                      ELSE IF wordsCopied = count THEN "DONE"
                      ELSE "READ_WRITE"
    /\ memoryCycle' = FALSE

CopierFirstCycle(enabled, from, to) ==
    /\ ~memoryCycle
    /\ copyFrom' = IF copierState = "WAIT" THEN from ELSE copyFrom
    /\ copyTo' = IF copierState = "WAIT" THEN to ELSE copyTo
    /\ wordsCopied' = IF copierState = "WAIT" THEN 0 ELSE wordsCopied
    /\ copierState' = IF enabled THEN copierState ELSE "WAIT"
    /\ memoryCycle' = enabled
    /\ UNCHANGED copyWord

CopierClock(enabled, readOut, from, to, count) ==
    \/ CopierFirstCycle(enabled, from, to)
    \/ CopierSecondCycle(enabled, readOut, from, to, count)
=============================================================================
