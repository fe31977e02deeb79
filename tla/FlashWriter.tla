---------------------------- MODULE FlashWriter ----------------------------
(***************************************************************************)
(* The H8 flash writer (h8300-elf/flashwriter/main.c): the menu, the image *)
(* buffer, and the Atmel driver underneath.                                *)
(*                                                                         *)
(* A buffer is filled by YMODEM, from the chip or with a pattern, and      *)
(* written to the chip page by page, each page read back and compared.     *)
(* The only report of a failure is a line on the console.  What a load     *)
(* leaves in the buffer is what YmodemReceiver shows of ymodem_receive():  *)
(* the pages of the last file up to where the session ended, over those of *)
(* an earlier file of the session.  The DRAM is taken to hold what is      *)
(* stored in it; main.c:149 tells of a board on which it does not.         *)
(***************************************************************************)
EXTENDS AtmelFlash, Sequences

CONSTANTS
    Pages,      \* pages of the ROM
    Image,      \* images that may be sent
    MaxFiles,   \* bound: files in a session
    Zero,       \* a page of zeros, as memset() leaves it
    Pattern     \* a page of the test pattern

ASSUME FlashWriterAssumption ==
    /\ Pages \in Nat \ {0}
    /\ Page = 0 .. Pages - 1
    /\ First = 0
    /\ MaxFiles \in Nat
    /\ Image \cup {Zero, Pattern} \subseteq Data

VARIABLES
    romdata,    \* the image buffer, page by page
    dummy,      \* the page under way
    page,       \* the loop of writebuffertochip()
    job,        \* what the menu is doing
    failed,     \* pages named in "Write failed" lines since the last write began
    session,    \* the images of the last YMODEM session, in order
    received    \* pages of the file under way that have come

buffer == <<romdata, dummy, page, failed, session, received>>
vars   == <<rom, busy, protected, toggle, pc, last,
            romdata, dummy, page, job, failed, session, received>>

Job == {"menu", "written", "loaded", "receive", "load page", "verify", "erase", "quit"}

TypeOK ==
    /\ AtmelTypeOK
    /\ romdata \in [Page -> Data]
    /\ dummy \in Data
    /\ page \in 0 .. Pages
    /\ job \in Job
    /\ failed \subseteq Page
    /\ session \in Seq(Image) /\ Len(session) <= MaxFiles
    /\ received \in 0 .. Pages

Init ==
    /\ AtmelInit
    /\ romdata = [p \in Page |-> Zero]
    /\ dummy = Blank
    /\ page = 0
    /\ job = "menu"
    /\ failed = {}
    /\ session = << >>
    /\ received = 0

AtMenu == job \in {"menu", "loaded", "written"} /\ pc = "idle"

-----------------------------------------------------------------------------
(* 'l': the buffer is cleared, then the session begins.                    *)
ClearedX == romdata
Cleared  == [p \in Page |-> Zero]

ymodemrecv ==
    /\ AtMenu
    /\ job' = "receive"
    /\ romdata' = Cleared
    /\ session' = << >>
    /\ received' = 0
    /\ UNCHANGED <<atmel, dummy, page, failed>>

(* A header, then the blocks of one file from the start of the buffer.     *)
HeaderArrives ==
    /\ job = "receive"
    /\ Len(session) < MaxFiles
    /\ \E image \in Image : session' = Append(session, image)
    /\ received' = 0
    /\ UNCHANGED <<atmel, romdata, dummy, page, job, failed>>

Room == received < Pages

PageArrives ==
    /\ job = "receive"
    /\ session # << >>
    /\ Room
    /\ romdata' = [romdata EXCEPT ![received] = session[Len(session)]]
    /\ received' = received + 1
    /\ UNCHANGED <<atmel, dummy, page, job, failed, session>>

(* Saved or failed: either way the menu is back and the buffer stays.      *)
SessionEnds ==
    /\ job = "receive"
    /\ job' = "loaded"
    /\ UNCHANGED <<atmel, buffer>>

(* 'r'                                                                     *)
ReadRom ==
    /\ AtMenu
    /\ job' = "menu"
    /\ \E noise \in Data :
        romdata' = IF busy THEN [p \in Page |-> noise] ELSE rom
    /\ UNCHANGED <<atmel, dummy, page, failed, session, received>>

-----------------------------------------------------------------------------
(* 'w', and 't' with the pattern.                                          *)
BeginWrite(data) ==
    /\ AtMenu
    /\ job' = "load page"
    /\ romdata' = data
    /\ page' = 0
    /\ failed' = {}
    /\ UNCHANGED <<atmel, dummy, session, received>>

Write        == BeginWrite(romdata)
WritePattern == BeginWrite([p \in Page |-> Pattern])

MorePagesX == page < Pages - 1
MorePages  == page < Pages

WritePage ==
    /\ job = "load page"
    /\ MorePages
    /\ dummy' = romdata[page]
    /\ atmel_writepage(FALSE, FALSE, page, romdata[page])
    /\ job' = "verify"
    /\ UNCHANGED <<romdata, page, failed, session, received>>

(* A busy chip does not show what was written.                             *)
ReadsBack == ~busy /\ rom[page] = dummy

VerifyPage ==
    /\ job = "verify"
    /\ pc = "idle"
    /\ failed' = failed \cup (IF ReadsBack THEN {} ELSE {page})
    /\ page' = page + 1
    /\ job' = "load page"
    /\ UNCHANGED <<atmel, romdata, dummy, session, received>>

EndWrite ==
    /\ job = "load page"
    /\ ~MorePages
    /\ job' = "written"
    /\ UNCHANGED <<atmel, buffer>>

(* 'e' and 'q'; 'i', 'd', 'D' and 's' change nothing here.                 *)
Erase == /\ AtMenu
         /\ atmel_chiperase
         /\ job' = "menu"
         /\ UNCHANGED buffer

Quit == /\ AtMenu
        /\ job' = "quit"
        /\ UNCHANGED <<atmel, buffer>>

Drives   == AtmelDriver /\ UNCHANGED <<buffer, job>>
ChipEnds == ChipReady /\ UNCHANGED <<buffer, job>>

Writing == WritePage \/ VerifyPage \/ EndWrite

Next ==
    \/ ymodemrecv \/ HeaderArrives \/ PageArrives \/ SessionEnds
    \/ ReadRom \/ Write \/ WritePattern \/ Writing \/ Erase \/ Quit
    \/ Drives \/ ChipEnds

Spec     == Init /\ [][Next]_vars
FairSpec == Spec /\ WF_vars(Writing) /\ WF_vars(Drives) /\ WF_vars(ChipEnds)

-----------------------------------------------------------------------------
(* main.c:159-163: when a write comes back to the menu, every page it did   *)
(* not report holds the page of the buffer; protection, worn pages and a   *)
(* chip that was still busy all show.                                      *)
WrittenOrReported ==
    job = "written" => \A p \in Page \ failed : rom[p] = romdata[p]

(* ... and only pages that are worn, or a chip that is protected, are      *)
(* reported.                                                               *)
NoFalseAlarm == protected \/ failed \subseteq Worn

(* main.c:74: after a load nothing of what the buffer held before is left, *)
(* whether the load succeeded or not.                                      *)
NothingLeftOver ==
    job = "loaded" =>
        \A p \in Page : romdata[p] = Zero \/ \E i \in DOMAIN session : romdata[p] = session[i]

(* A write comes back, whatever state the chip is in.                      *)
WriteReturns == (job = "verify") ~> (job = "written")
=============================================================================
