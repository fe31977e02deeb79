----------------------------- MODULE AtmelFlash -----------------------------
(***************************************************************************)
(* The Atmel flash driver (generic/flash/atmel.c) and the chip it drives.  *)
(*                                                                         *)
(* The chip is written page by page and says that it is busy only by a bit *)
(* that changes with every read.  atmel_poll() is modelled read by read,   *)
(* because the chip may become ready between any two of them and the bit   *)
(* of the array then takes the place of the one that toggled.              *)
(*                                                                         *)
(* The chip is external.  It ignores page writes that lack the command     *)
(* preamble while it is protected, and anything while it is busy; a worn   *)
(* page does not take what is written.                                     *)
(***************************************************************************)
EXTENDS Integers

CONSTANTS
    Page,       \* the pages of the chip
    First,      \* the page that holds address 0, the one polled
    Data,       \* what a page may hold
    Blank,      \* a page after an erase
    Damaged,    \* a page that did not take what was written
    Worn,       \* the pages that do not take what is written
    Bit6        \* the bit of a page's first byte that toggles when busy

ASSUME AtmelAssumption ==
    /\ First \in Page
    /\ {Blank, Damaged} \subseteq Data
    /\ Worn \subseteq Page
    /\ Bit6 \in [Data -> {0, 1}]

VARIABLES
    rom,        \* chip: the content of every page
    busy,       \* chip: at work
    protected,  \* chip: takes a page only after a command
    toggle,     \* chip: the busy bit as the next read shows it
    pc,         \* driver: "idle", "start", "poll" or "erase"
    last        \* driver: the busy bit as the last read showed it

chip   == <<rom, busy, protected, toggle>>
driver == <<pc, last>>
atmel  == <<rom, busy, protected, toggle, pc, last>>

AtmelTypeOK ==
    /\ rom \in [Page -> Data]
    /\ busy \in BOOLEAN
    /\ protected \in BOOLEAN
    /\ toggle \in {0, 1}
    /\ pc \in {"idle", "start", "poll", "erase"}
    /\ last \in {0, 1}

AtmelInit ==
    /\ \E d \in Data : rom = [p \in Page |-> d]
    /\ busy = FALSE
    /\ protected \in BOOLEAN
    /\ toggle = 0
    /\ pc = "idle"
    /\ last = 0

-----------------------------------------------------------------------------
(* flash_read_byte(0) & TOGGLEBIT, and what reading does to the chip.      *)
ReadsBit(bit) ==
    /\ bit = IF busy THEN toggle ELSE Bit6[rom[First]]
    /\ toggle' = IF busy THEN 1 - toggle ELSE toggle
    /\ UNCHANGED <<rom, busy, protected>>

Taken(p, data) == IF p \in Worn THEN Damaged ELSE data

(* The chip takes the page at once and is busy with it from then on; reads *)
(* show the bit until it is ready.                                         *)
ChipTakes(p, data) ==
    /\ busy' = TRUE
    /\ rom' = [rom EXCEPT ![p] = Taken(p, data)]

ChipReady == /\ busy
             /\ busy' = FALSE
             /\ UNCHANGED <<rom, protected, toggle, driver>>

-----------------------------------------------------------------------------
(* atmel_writepage() up to the poll.  A chip that is busy sees nothing.    *)
atmel_writepage(unlock, protect, p, data) ==
    /\ pc = "idle"
    /\ pc' = "start"
    /\ IF busy \/ (protected /\ ~unlock /\ ~protect)
       THEN UNCHANGED <<rom, busy, protected>>
       ELSE /\ ChipTakes(p, data)
            /\ protected' = IF unlock THEN FALSE ELSE protected \/ protect
    /\ UNCHANGED <<toggle, last>>

PollsFirst ==
    /\ pc = "start"
    /\ \E bit \in {0, 1} : ReadsBit(bit) /\ last' = bit
    /\ pc' = "poll"

(* this == last ends the loop.                                             *)
LastX(bit) == last
Last(bit)  == bit

PollsAgain ==
    /\ pc = "poll"
    /\ \E bit \in {0, 1} :
        /\ ReadsBit(bit)
        /\ last' = Last(bit)
        /\ pc' = IF bit = last THEN "idle" ELSE "poll"

(* atmel_chiperase() sleeps for longer than the chip takes.                *)
atmel_chiperase ==
    /\ pc = "idle"
    /\ pc' = "erase"
    /\ IF busy THEN UNCHANGED <<rom, busy>>
       ELSE /\ busy' = TRUE
            /\ rom' = [p \in Page |-> IF p \in Worn THEN Damaged ELSE Blank]
    /\ UNCHANGED <<protected, toggle, last>>

Sleeps == /\ pc = "erase"
          /\ ~busy
          /\ pc' = "idle"
          /\ UNCHANGED <<chip, last>>

AtmelDriver == PollsFirst \/ PollsAgain \/ Sleeps

(* Any caller.                                                             *)
AtmelCall ==
    \/ \E unlock, protect \in BOOLEAN, p \in Page, data \in Data :
        atmel_writepage(unlock, protect, p, data)
    \/ atmel_chiperase

AtmelNext     == AtmelCall \/ AtmelDriver \/ ChipReady
AtmelSpec     == AtmelInit /\ [][AtmelNext]_atmel

-----------------------------------------------------------------------------
(* atmel.c:53-64: the poll ends only when the chip is ready, although a    *)
(* busy chip shows the bit of the array every other time: the next command *)
(* and whoever reads the array find it so.                                 *)
ReadyBetweenCalls == pc = "idle" => ~busy
=============================================================================
