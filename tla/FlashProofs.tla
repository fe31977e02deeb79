----------------------------- MODULE FlashProofs -----------------------------
(***************************************************************************)
(* Proofs about the two flash drivers and the program above the second:    *)
(* about IntelFlash for any blocks of any length, about AtmelFlash and     *)
(* FlashWriter for chips of any size, any contents and any worn pages.     *)
(***************************************************************************)
EXTENDS IntelFlash, FlashWriter, TLAPS


(* The error bits the chip leaves for each way an operation can end.       *)
Bits == CASE outcome = "locked" -> {FailureBit, "blocklockstatus"}
          [] outcome = "vpp"    -> {FailureBit, "vppstatus"}
          [] outcome = "worn"   -> {FailureBit}
          [] OTHER              -> {}

(* An operation starts with a clear status register and ends with the bits *)
(* of its own outcome and no others; a lock command always succeeds.       *)
Calls == [name : Erases \cup Writes \cup Locks, block : Block, at : Int, len : Int]

Idle  == op = NoOp => mode = "array" /\ sr = {} /\ outcome # "busy"
Clean == op # NoOp => /\ op \in Calls
                      /\ outcome \in Outcome
                      /\ sr = Bits
                      /\ op.name \in Locks => outcome \in {"busy", "done"}
                      /\ result = "none"

IntelInv == Idle /\ Clean /\ ReportsAgree

LEMMA Names ==
    /\ Erases \cap Writes = {}
    /\ Locks \cap (Erases \cup Writes) = {}
    /\ Loops \subseteq Writes
    /\ \A r : [name |-> "none"] = r => r.name = "none"
    /\ "none" \notin Erases \cup Writes \cup Locks
BY DEF Erases, Writes, Locks, Loops, Words

-----------------------------------------------------------------------------
LEMMA TypeCommand ==
    ASSUME IntelTypeOK, NEW name \in Erases \cup Writes \cup Locks, NEW b \in Block,
           NEW at \in Byte, NEW len \in 0 .. BlockLen, Command(name, b, at, len)
    PROVE  IntelTypeOK'
BY DEF IntelTypeOK, Command, Op, Outcome

LEMMA TypeCall == IntelTypeOK /\ Call => IntelTypeOK'
<1> SUFFICES ASSUME IntelTypeOK, Call PROVE IntelTypeOK'  OBVIOUS
<1>1. 0 \in Byte /\ {0, 1, 2} \subseteq 0 .. BlockLen
  BY BlockLenAssumption DEF Byte
<1>2. PICK b \in Block :
        \/ \E name \in Erases \cup Locks : Command(name, b, 0, 0)
        \/ \E at \in Byte : Command("writebyte", b, at, 1)
        \/ \E at \in Byte : at % 2 = 0 /\ Command("writeword", b, at, 2)
        \/ \E name \in Loops, len \in 0 .. BlockLen : Start(name, b, len)
        \/ GetLockStatus(b)
  BY DEF Call
<1>3. CASE \E name \in Erases \cup Locks : Command(name, b, 0, 0)
  BY <1>1, <1>3, TypeCommand
<1>4. CASE \E at \in Byte : Command("writebyte", b, at, 1)
  BY <1>1, <1>4, TypeCommand DEF Writes
<1>5. CASE \E at \in Byte : at % 2 = 0 /\ Command("writeword", b, at, 2)
  BY <1>1, <1>5, TypeCommand DEF Writes, Words
<1>6. CASE \E name \in Loops, len \in 0 .. BlockLen : Start(name, b, len)
  <2>1. PICK name \in Loops, len \in 0 .. BlockLen : Start(name, b, len)
    BY <1>6
  <2>2. CASE Command(name, b, 0, len)
    BY <1>1, <2>2, Names, TypeCommand
  <2>3. CASE NoCommand(-1) \/ NoCommand(0)
    BY <2>3, BlockLenAssumption DEF NoCommand, IntelTypeOK
  <2> QED  BY <2>1, <2>2, <2>3 DEF Start
<1>7. CASE GetLockStatus(b)
  BY <1>7 DEF GetLockStatus, IntelTypeOK, Lock
<1> QED  BY <1>2, <1>3, <1>4, <1>5, <1>6, <1>7

LEMMA TypeChip == IntelTypeOK /\ Chip => IntelTypeOK'
<1> SUFFICES ASSUME IntelTypeOK, Chip PROVE IntelTypeOK'  OBVIOUS
<1>1. FailureBit \in Status /\ {"blocklockstatus", "vppstatus"} \subseteq Status
  BY DEF FailureBit, Status
<1>2. \A how \in Outcome, bits \in SUBSET Status : Finish(how, bits) =>
        /\ outcome' \in Outcome /\ sr' \subseteq Status
        /\ UNCHANGED <<mode, op, result, count, errno>>
  BY DEF Finish, IntelTypeOK
<1>3. {"locked", "vpp", "worn", "done"} \subseteq Outcome
  BY DEF Outcome
<1>4. CASE ChipRefuses
  BY <1>1, <1>2, <1>3, <1>4 DEF ChipRefuses, IntelTypeOK
<1>5. CASE ChipErases
  BY <1>1, <1>2, <1>3, <1>5 DEF ChipErases, IntelTypeOK
<1>6. CASE ChipWrites
  BY <1>1, <1>2, <1>3, <1>6 DEF ChipWrites, IntelTypeOK
<1>7. CASE ChipLocks
  BY <1>1, <1>2, <1>3, <1>7 DEF ChipLocks, IntelTypeOK, Lock
<1> QED  BY <1>4, <1>5, <1>6, <1>7 DEF Chip

LEMMA TypeDriver == IntelTypeOK /\ Driver => IntelTypeOK'
<1> SUFFICES ASSUME IntelTypeOK, Driver PROVE IntelTypeOK'  OBVIOUS
<1>1. EraseErrno \in Errno /\ WriteErrno \in Errno
  BY DEF EraseErrno, WriteErrno, IntelTypeOK, Errno
<1>2. Return /\ intel_waitforwsm /\ errno' \in Errno
        /\ result' \in {"none", "true", "false"} \cup Lock
        /\ count' \in -1 .. BlockLen => IntelTypeOK'
  BY DEF Return, ReadArray, intel_waitforwsm, IntelTypeOK, Op
<1>3. CASE ReturnFromErase
  BY <1>1, <1>2, <1>3 DEF ReturnFromErase, ReturnBool, IntelTypeOK
<1>4. CASE ReturnFromLock
  BY <1>1, <1>2, <1>4 DEF ReturnFromLock, ReturnBool, IntelTypeOK
<1>5. CASE ReturnFromWrite
  BY <1>1, <1>2, <1>5 DEF ReturnFromWrite, ReturnBool, IntelTypeOK
<1>6. CASE BlockWriteStep
  <2>1. /\ op.at \in Byte /\ op.len \in 0 .. BlockLen /\ op # NoOp
        /\ NextByte(op.at) \in Nat
    BY <1>6, Names DEF BlockWriteStep, IntelTypeOK, Op, NoOp, NextByte, Byte
  <2>2. CASE ReturnCount(op.at) \/ ReturnCount(op.len)
    BY <1>1, <1>2, <1>6, <2>1, <2>2, BlockLenAssumption
       DEF BlockWriteStep, ReturnCount, IntelTypeOK, Byte
  <2>3. CASE More(NextByte(op.at)) /\ Again(NextByte(op.at))
    <3>1. NextByte(op.at) \in Byte
      BY <2>1, <2>3, BlockLenAssumption DEF More, Byte
    <3>2. op' \in Op
      BY <2>1, <2>3, <3>1 DEF Again, IntelTypeOK, Op
    <3> QED
      BY <1>1, <1>6, <2>3, <3>2
         DEF BlockWriteStep, intel_waitforwsm, Again, IntelTypeOK, Outcome
  <2> QED  BY <1>6, <2>2, <2>3 DEF BlockWriteStep
<1> QED  BY <1>3, <1>4, <1>5, <1>6 DEF Driver

LEMMA TypeStep == IntelTypeOK /\ [IntelNext]_intel => IntelTypeOK'
BY TypeCall, TypeChip, TypeDriver DEF IntelNext, intel, IntelTypeOK

(* No operation leaves a block, a byte or a count out of range.            *)
THEOREM IntelTypeCorrect == IntelSpec => []IntelTypeOK
<1>1. IntelInit => IntelTypeOK
  BY BlockLenAssumption DEF IntelInit, IntelTypeOK, Status, Lock, Outcome, Op, Errno, Byte
<1> QED  BY <1>1, TypeStep, PTL DEF IntelSpec

-----------------------------------------------------------------------------
LEMMA IntelInitInv == IntelInit => IntelInv
BY DEF IntelInit, IntelInv, Idle, Clean, ReportsAgree

-----------------------------------------------------------------------------
LEMMA CommandStep ==
    ASSUME IntelInv, op = NoOp, NEW name \in Erases \cup Writes \cup Locks,
           NEW b \in Block, NEW at \in Int, NEW len \in Int, Command(name, b, at, len)
    PROVE  IntelInv'
<1>1. op' \in Calls /\ op'.name = name /\ op' # NoOp
  BY Names DEF Command, NoOp, Calls
<1>2. sr' = {} /\ outcome' = "busy" /\ result' = "none"
  BY DEF Command, IntelInv, Idle
<1>3. Bits' = {}
  BY <1>2 DEF Bits
<1> QED
  BY <1>1, <1>2, <1>3 DEF IntelInv, Idle, Clean, ReportsAgree, Outcome

LEMMA NoCommandStep ==
    ASSUME IntelInv, op = NoOp, NEW n, NoCommand(n)
    PROVE  IntelInv'
BY DEF NoCommand, IntelInv, Idle, Clean, ReportsAgree

LEMMA CallStep == IntelTypeOK /\ IntelInv /\ Call => IntelInv'
<1> SUFFICES ASSUME IntelTypeOK, IntelInv, Call PROVE IntelInv'  OBVIOUS
<1>1. op = NoOp
  BY DEF Call
<1>2. PICK b \in Block :
        \/ \E name \in Erases \cup Locks : Command(name, b, 0, 0)
        \/ \E at \in Byte : Command("writebyte", b, at, 1)
        \/ \E at \in Byte : at % 2 = 0 /\ Command("writeword", b, at, 2)
        \/ \E name \in Loops, len \in 0 .. BlockLen : Start(name, b, len)
        \/ GetLockStatus(b)
  BY DEF Call
<1>3. CASE \E name \in Erases \cup Locks : Command(name, b, 0, 0)
  BY <1>1, <1>3, CommandStep
<1>4. CASE \E at \in Byte : Command("writebyte", b, at, 1)
  BY <1>1, <1>4, CommandStep DEF Writes, Byte
<1>5. CASE \E at \in Byte : at % 2 = 0 /\ Command("writeword", b, at, 2)
  <2>1. PICK at \in Byte : Command("writeword", b, at, 2)
    BY <1>5
  <2>2. at \in Int /\ "writeword" \in Writes
    BY DEF Byte, Writes, Words
  <2> QED  BY <1>1, <2>1, <2>2, CommandStep
<1>6. CASE \E name \in Loops, len \in 0 .. BlockLen : Start(name, b, len)
  <2>1. PICK name \in Loops, len \in 0 .. BlockLen : Start(name, b, len)
    BY <1>6
  <2>2. name \in Writes /\ len \in Int
    BY Names
  <2>3. CASE Command(name, b, 0, len)
    BY <1>1, <2>2, <2>3, CommandStep
  <2>4. CASE \E n : NoCommand(n)
    BY <1>1, <2>4, NoCommandStep
  <2> QED  BY <2>1, <2>3, <2>4 DEF Start
<1>7. CASE GetLockStatus(b)
  BY <1>1, <1>7 DEF GetLockStatus, IntelInv, Idle, Clean, ReportsAgree, Lock, IntelTypeOK
<1> QED  BY <1>2, <1>3, <1>4, <1>5, <1>6, <1>7

-----------------------------------------------------------------------------
(* A step that ends the operation leaves the bits of its outcome.          *)
LEMMA FinishStep ==
    ASSUME IntelInv, op # NoOp, NEW how \in {"locked", "vpp", "worn", "done"}, NEW bits,
           Finish(how, bits),
           op.name \in Locks => how = "done",
           how = "locked" => bits = {FailureBit, "blocklockstatus"},
           how = "vpp"    => bits = {FailureBit, "vppstatus"},
           how = "worn"   => bits = {FailureBit},
           how = "done"   => bits = {}
    PROVE  IntelInv'
<1>1. sr = {}
  BY DEF IntelInv, Clean, Bits, Finish
<1>2. sr' = bits /\ outcome' = how /\ op' = op /\ result' = "none"
  BY <1>1 DEF Finish, IntelInv, Clean
<1>3. FailureBit' = FailureBit
  BY <1>2 DEF FailureBit
<1>4. sr' = Bits'
  BY <1>2, <1>3 DEF Bits
<1> QED
  BY <1>2, <1>4 DEF IntelInv, Idle, Clean, ReportsAgree, Outcome

LEMMA IntelChipStep == IntelInv /\ Chip => IntelInv'
<1> SUFFICES ASSUME IntelInv, Chip PROVE IntelInv'  OBVIOUS
<1>1. op # NoOp
  BY DEF IntelInv, Idle, Chip, ChipRefuses, ChipErases, ChipWrites, ChipLocks, Finish
<1>2. CASE ChipRefuses
  BY <1>1, <1>2, FinishStep, Names DEF ChipRefuses
<1>3. CASE ChipErases
  BY <1>1, <1>3, FinishStep DEF ChipErases
<1>4. CASE ChipWrites
  BY <1>1, <1>4, FinishStep DEF ChipWrites
<1>5. CASE ChipLocks
  BY <1>1, <1>5, FinishStep DEF ChipLocks
<1> QED  BY <1>2, <1>3, <1>4, <1>5 DEF Chip

-----------------------------------------------------------------------------
(* The checks of the driver look at the bits that tell the outcomes apart. *)
LEMMA EraseCheck ==
    ASSUME IntelInv, op # NoOp, op.name \in Erases, outcome # "busy"
    PROVE  /\ intel_checkeraseerror <=> outcome = "done"
           /\ EraseErrno = "ERASEBLOCKLOCKED" /\ ~intel_checkeraseerror
                => outcome = "locked"
           /\ outcome = "locked" => EraseErrno = "ERASEBLOCKLOCKED"
BY DEF IntelInv, Clean, Bits, FailureBit, Outcome, intel_checkeraseerror, EraseErrno

LEMMA WriteCheck ==
    ASSUME IntelInv, op # NoOp, op.name \in Writes, outcome # "busy"
    PROVE  intel_checkwriteerror <=> outcome = "done"
BY Names DEF IntelInv, Clean, Bits, FailureBit, Outcome, intel_checkwriteerror

LEMMA ReturnStep ==
    ASSUME IntelInv, intel_waitforwsm, Return,
           result' \in {"true", "false"} => (result' = "true" <=> outcome = "done")
    PROVE  IntelInv'
BY DEF IntelInv, Idle, Clean, ReportsAgree, intel_waitforwsm, Return, ReadArray, NoOp

LEMMA DriverStep == IntelInv /\ Driver => IntelInv'
<1> SUFFICES ASSUME IntelInv, Driver PROVE IntelInv'  OBVIOUS
<1>1. op # NoOp
  BY Names DEF Driver, ReturnFromErase, ReturnFromLock, ReturnFromWrite,
               BlockWriteStep, NoOp
<1>2. CASE ReturnFromErase
  BY <1>1, <1>2, EraseCheck, ReturnStep DEF ReturnFromErase, ReturnBool,
                                            intel_waitforwsm
<1>3. CASE ReturnFromLock
  <2>1. outcome = "done"
    BY <1>1, <1>3 DEF ReturnFromLock, intel_waitforwsm, IntelInv, Clean
  <2> QED  BY <1>3, <2>1, ReturnStep DEF ReturnFromLock, ReturnBool
<1>4. CASE ReturnFromWrite
  BY <1>1, <1>4, WriteCheck, ReturnStep DEF ReturnFromWrite, ReturnBool,
                                            intel_waitforwsm
<1>5. CASE BlockWriteStep
  <2>1. ASSUME NEW n, ReturnCount(n) PROVE IntelInv'
    BY <1>1, <1>5, <2>1, ReturnStep DEF BlockWriteStep, ReturnCount, IntelInv, Clean
  <2>2. ASSUME NEW at \in Int, Again(at) PROVE IntelInv'
    <3>1. op' \in Calls /\ op'.name = op.name /\ op' # NoOp
      BY <1>1, <2>2, Names DEF Again, NoOp, IntelInv, Clean, Calls
    <3>2. sr' = {} /\ outcome' = "busy" /\ result' = "none"
      BY <1>1, <1>5, <2>2 DEF BlockWriteStep, intel_waitforwsm, Again, IntelInv, Clean
    <3>3. Bits' = {}
      BY <3>2 DEF Bits
    <3> QED
      BY <1>1, <3>1, <3>2, <3>3 DEF IntelInv, Idle, Clean, ReportsAgree, Outcome
  <2>3. NextByte(op.at) \in Int
    BY <1>1 DEF NextByte, IntelInv, Clean, Calls
  <2> QED  BY <1>5, <2>1, <2>2, <2>3 DEF BlockWriteStep
<1> QED  BY <1>2, <1>3, <1>4, <1>5 DEF Driver

LEMMA IntelNextInv == IntelTypeOK /\ IntelInv /\ [IntelNext]_intel => IntelInv'
<1> SUFFICES ASSUME IntelTypeOK, IntelInv, [IntelNext]_intel PROVE IntelInv'  OBVIOUS
<1>1. CASE IntelNext
  BY <1>1, CallStep, IntelChipStep, DriverStep DEF IntelNext
<1>2. CASE UNCHANGED intel
  BY <1>2 DEF intel, IntelInv, Idle, Clean, Bits, FailureBit, ReportsAgree
<1> QED  BY <1>1, <1>2

LEMMA InvHolds == IntelSpec => []IntelInv
BY IntelInitInv, IntelNextInv, IntelTypeCorrect, PTL DEF IntelSpec

-----------------------------------------------------------------------------
(* intel.c:60-73, 123-162: a report of success is one, and every failure   *)
(* is reported, whatever was done before.                                  *)
THEOREM ReportsAreTrue == IntelSpec => []ReportsAgree
<1>1. IntelInv => ReportsAgree  BY DEF IntelInv
<1> QED  BY <1>1, InvHolds, PTL

(* intel.c:79, 87, 148, 173: whoever reads the flash between two calls     *)
(* reads the array.                                                        *)
THEOREM AlwaysReadable == IntelSpec => []ReadableBetweenCalls
<1>1. IntelInv => ReadableBetweenCalls  BY DEF IntelInv, Idle, ReadableBetweenCalls
<1> QED  BY <1>1, InvHolds, PTL

(* intel.c:63-68: what errno says of a failed erase is the chip's reason.  *)
THEOREM ErrnoIsReason == IntelSpec => ErrnoTellsLock
<1>1. ASSUME IntelInv, IntelNext, op.name \in Erases, op' = NoOp, result' = "false"
      PROVE  errno' = "ERASEBLOCKLOCKED" <=> outcome = "locked"
  <2>1. op # NoOp
    BY <1>1, Names DEF NoOp
  <2>2. CASE Call  BY <2>1, <2>2 DEF Call
  <2>3. CASE Chip
    BY <1>1, <2>1, <2>3 DEF Chip, ChipRefuses, ChipErases, ChipWrites, ChipLocks,
                            Finish
  <2>4. CASE Driver
    <3>1. ReturnFromErase
      BY <1>1, <2>4, Names DEF Driver, ReturnFromErase, ReturnFromLock,
                               ReturnFromWrite, BlockWriteStep
    <3>2. ~intel_checkeraseerror /\ outcome # "busy" /\ errno' = EraseErrno
      BY <1>1, <3>1 DEF ReturnFromErase, ReturnBool, intel_waitforwsm
    <3> QED  BY <1>1, <2>1, <3>2, EraseCheck
  <2> QED  BY <1>1, <2>2, <2>3, <2>4 DEF IntelNext
<1>2. IntelInv /\ [IntelNext]_intel =>
        [(op.name \in Erases /\ op' = NoOp /\ result' = "false") =>
            (errno' = "ERASEBLOCKLOCKED" <=> outcome = "locked")]_intel
  BY <1>1
<1> QED  BY <1>2, InvHolds, PTL DEF IntelSpec, ErrnoTellsLock

-----------------------------------------------------------------------------

(* A busy chip is about to show the bit that the last read did not show.   *)
Toggles == pc = "poll" /\ busy => toggle = 1 - last
Polls   == /\ toggle \in {0, 1}
           /\ last \in {0, 1}
           /\ Toggles
           /\ ReadyBetweenCalls

LEMMA PollsInit == AtmelInit => Polls
BY DEF AtmelInit, Polls, Toggles, ReadyBetweenCalls

LEMMA DriverPolls == Polls /\ AtmelDriver => Polls'
<1> SUFFICES ASSUME Polls, AtmelDriver PROVE Polls'  OBVIOUS
<1> USE DEF Polls, Toggles, ReadyBetweenCalls
<1>1. CASE PollsFirst
  BY <1>1 DEF PollsFirst, ReadsBit
<1>2. CASE PollsAgain
  BY <1>2 DEF PollsAgain, ReadsBit, Last
<1>3. CASE Sleeps
  BY <1>3 DEF Sleeps, chip
<1> QED  BY <1>1, <1>2, <1>3 DEF AtmelDriver

LEMMA ReadyPolls == Polls /\ ChipReady => Polls'
BY DEF Polls, Toggles, ReadyBetweenCalls, ChipReady, driver

LEMMA CallPolls ==
    /\ \A unlock, protect, p, data :
        Polls /\ atmel_writepage(unlock, protect, p, data) => Polls'
    /\ Polls /\ atmel_chiperase => Polls'
BY DEF Polls, Toggles, ReadyBetweenCalls, atmel_writepage, atmel_chiperase

(* atmel.c:53-64: whatever callers do and however long the chip takes, it  *)
(* is ready whenever no function of the driver is under way.               *)
THEOREM PollWaits == AtmelSpec => []ReadyBetweenCalls
<1>1. Polls /\ [AtmelNext]_atmel => Polls'
  <2>1. Polls /\ UNCHANGED atmel => Polls'
    BY DEF atmel, Polls, Toggles, ReadyBetweenCalls
  <2> QED
    BY <2>1, DriverPolls, ReadyPolls, CallPolls DEF AtmelNext, AtmelCall
<1>2. Polls => ReadyBetweenCalls
  BY DEF Polls
<1> QED  BY PollsInit, <1>1, <1>2, PTL DEF AtmelSpec

-----------------------------------------------------------------------------
(* While a buffer is written, the pages before the one under way are on    *)
(* the chip, but for those that were reported.                             *)
Matches(n) == \A p \in Page \ failed : p < n => rom[p] = romdata[p]

Written ==
    /\ job \in {"load page", "verify", "written"} => Matches(page)
    /\ job = "verify" => page < Pages /\ dummy = romdata[page]
    /\ job = "load page" => pc = "idle" /\ page <= Pages
    /\ job = "written" => page = Pages

Types == /\ page \in Nat
         /\ page <= Pages
         /\ failed \subseteq Page
         /\ rom \in [Page -> Data]
         /\ romdata \in [Page -> Data]
         /\ session \in Seq(Image)

Inv == Polls /\ Types /\ Written

LEMMA PagesNat == Pages \in Nat /\ 0 <= Pages
BY FlashWriterAssumption

LEMMA PageNat == \A p \in Page : p \in Nat /\ 0 <= p /\ p < Pages
BY FlashWriterAssumption

LEMMA NatPage == \A n \in Nat : n < Pages => n \in Page
BY FlashWriterAssumption

LEMMA Contents == Zero \in Data /\ Pattern \in Data /\ Image \subseteq Data
BY FlashWriterAssumption

LEMMA InitInv == Init => Inv
<1> SUFFICES ASSUME Init PROVE Inv  OBVIOUS
<1>1. Polls
  BY PollsInit DEF Init
<1>2. job = "menu" /\ failed \subseteq Page
  BY DEF Init
<1>3. session \in Seq(Image)
  BY DEF Init
<1>4. page \in Nat /\ page <= Pages
  BY PagesNat DEF Init
<1>5. rom \in [Page -> Data] /\ romdata \in [Page -> Data]
  BY Contents DEF Init, AtmelInit
<1>6. Types /\ Written
  BY <1>2, <1>3, <1>4, <1>5 DEF Types, Written
<1> QED  BY <1>1, <1>6 DEF Inv

(* Steps that leave the chip and the driver alone.                         *)
LEMMA PollsUnchanged == Polls /\ UNCHANGED atmel => Polls'
BY DEF atmel, Polls, Toggles, ReadyBetweenCalls

LEMMA LoadStep ==
    Inv /\ (ymodemrecv \/ HeaderArrives \/ PageArrives \/ SessionEnds
            \/ ReadRom \/ Quit) => Inv'
<1> SUFFICES ASSUME Inv,
                    ymodemrecv \/ HeaderArrives \/ PageArrives \/ SessionEnds
                        \/ ReadRom \/ Quit
             PROVE  Inv'
  OBVIOUS
<1>1. UNCHANGED <<atmel, page, failed>>
  BY DEF ymodemrecv, HeaderArrives, PageArrives, SessionEnds, ReadRom, Quit, buffer
<1>2. job' \in {"receive", "loaded", "menu", "quit"}
  BY DEF ymodemrecv, HeaderArrives, PageArrives, SessionEnds, ReadRom, Quit
<1>3. romdata' \in [Page -> Data] /\ session' \in Seq(Image)
  <2>1. CASE ymodemrecv
    BY <2>1, Contents DEF ymodemrecv, Cleared
  <2>2. CASE HeaderArrives
    BY <2>2 DEF HeaderArrives, Inv, Types
  <2>3. CASE PageArrives
    <3>1. session[Len(session)] \in Data
      BY <2>3, Contents DEF PageArrives, Inv, Types
    <3> QED  BY <2>3, <3>1 DEF PageArrives, Inv, Types
  <2>4. CASE SessionEnds \/ Quit
    BY <2>4 DEF SessionEnds, Quit, buffer, Inv, Types
  <2>5. CASE ReadRom
    BY <2>5 DEF ReadRom, Inv, Types
  <2> QED  BY <2>1, <2>2, <2>3, <2>4, <2>5
<1> QED
  BY <1>1, <1>2, <1>3, PollsUnchanged DEF Inv, Types, Written, atmel

LEMMA BeginStep ==
    ASSUME NEW data \in [Page -> Data], Inv, BeginWrite(data)
    PROVE  Inv'
<1>1. UNCHANGED atmel /\ pc = "idle"
  BY DEF BeginWrite, AtMenu
<1>2. job' = "load page" /\ page' = 0
  BY DEF BeginWrite
<1>3. /\ page' \in Nat /\ page' <= Pages
      /\ \A p \in Page : ~(p < page')
  <2>1. page' = 0
    BY <1>2
  <2>2. page' \in Nat /\ page' <= Pages
    BY <2>1, PagesNat
  <2>3. ASSUME NEW p \in Page PROVE ~(p < 0)
    <3>1. p \in Nat  BY PageNat
    <3> QED  BY <3>1
  <2> QED  BY <2>1, <2>2, <2>3
<1>4. Types'
  BY <1>1, <1>3 DEF BeginWrite, Inv, Types, atmel
<1>5. Written'
  BY <1>1, <1>2, <1>3 DEF Written, Matches, atmel
<1> QED
  BY <1>1, <1>4, <1>5, PollsUnchanged DEF Inv

LEMMA WritePageStep == Inv /\ WritePage => Inv'
<1> SUFFICES ASSUME Inv, WritePage PROVE Inv'  OBVIOUS
<1>1. page \in Page /\ page < Pages
  BY NatPage DEF WritePage, MorePages, Inv, Types
<1>2. /\ job' = "verify" /\ dummy' = romdata'[page']
      /\ UNCHANGED <<romdata, page, failed>>
  BY DEF WritePage
<1>3. rom' = rom \/ rom' = [rom EXCEPT ![page] = Taken(page, romdata[page])]
  BY DEF WritePage, atmel_writepage, ChipTakes
<1>4. \A p \in Page : p < page => rom'[p] = rom[p]
  BY <1>1, <1>3 DEF Inv, Types
<1>5. Polls'
  BY CallPolls DEF WritePage, Inv
<1>6. rom' \in [Page -> Data]
  <2>1. Taken(page, romdata[page]) \in Data
    BY <1>1, AtmelAssumption DEF Taken, Inv, Types
  <2> QED  BY <1>3, <2>1 DEF Inv, Types
<1>7. Types'
  BY <1>2, <1>6 DEF WritePage, Inv, Types
<1>8. Matches(page)'
  <2>1. Matches(page)
    BY DEF WritePage, Inv, Written
  <2> QED  BY <1>2, <1>4, <2>1 DEF Matches
<1> QED
  BY <1>1, <1>2, <1>5, <1>7, <1>8 DEF Inv, Written

LEMMA VerifyStep == Inv /\ VerifyPage => Inv'
<1> SUFFICES ASSUME Inv, VerifyPage PROVE Inv'  OBVIOUS
<1>1. page \in Nat /\ page < Pages /\ page' = page + 1
  BY DEF VerifyPage, Inv, Types, Written
<1>2. job' = "load page" /\ pc = "idle" /\ UNCHANGED <<atmel, romdata>>
  BY DEF VerifyPage
<1>3. /\ failed \subseteq failed'
      /\ page \notin failed' => rom[page] = romdata[page]
  BY DEF VerifyPage, ReadsBack, Inv, Written
<1>4. Matches(page)'
  <2>1. \A p \in Page : p < page' => p < page \/ p = page
    BY <1>1, PageNat
  <2>2. Matches(page)
    BY DEF VerifyPage, Inv, Written
  <2> QED  BY <1>2, <1>3, <2>1, <2>2 DEF Matches, atmel
<1>5. page' \in Nat /\ page' <= Pages
  BY <1>1, PagesNat
<1>6. Types' /\ Polls'
  <2>1. failed' \subseteq Page /\ UNCHANGED session
    BY <1>1, NatPage DEF VerifyPage, Inv, Types
  <2> QED
    BY <1>2, <1>5, <2>1, PollsUnchanged DEF Inv, Types, atmel
<1> QED
  BY <1>2, <1>4, <1>5, <1>6 DEF Inv, Written, atmel

LEMMA EndStep == Inv /\ EndWrite => Inv'
<1> SUFFICES ASSUME Inv, EndWrite PROVE Inv'  OBVIOUS
<1>1. page = Pages /\ job' = "written" /\ UNCHANGED <<atmel, romdata, page, failed>>
  <2>1. ~(page < Pages) /\ page <= Pages /\ page \in Nat
    BY DEF EndWrite, MorePages, Inv, Types
  <2>2. page = Pages
    BY <2>1, PagesNat
  <2> QED  BY <2>2 DEF EndWrite, buffer
<1>2. Matches(page)'
  BY <1>1 DEF EndWrite, Inv, Written, Matches, atmel
<1> QED
  BY <1>1, <1>2, PollsUnchanged DEF EndWrite, buffer, Inv, Types, Written, atmel

LEMMA EraseStep == Inv /\ Erase => Inv'
<1> SUFFICES ASSUME Inv, Erase PROVE Inv'  OBVIOUS
<1>1. job' = "menu" /\ UNCHANGED <<page, failed, romdata, session>>
  BY DEF Erase, buffer
<1>2. rom' \in [Page -> Data]
  BY AtmelAssumption DEF Erase, atmel_chiperase, Inv, Types
<1> QED
  BY <1>1, <1>2, CallPolls DEF Erase, Inv, Types, Written

LEMMA ChipStep == Inv /\ (Drives \/ ChipEnds) => Inv'
<1> SUFFICES ASSUME Inv, Drives \/ ChipEnds PROVE Inv'  OBVIOUS
<1>1. UNCHANGED <<rom, romdata, dummy, page, job, failed, session>>
  BY DEF Drives, ChipEnds, AtmelDriver, PollsFirst, PollsAgain, Sleeps, ReadsBit,
         ChipReady, chip, buffer
<1>2. job = "load page" => pc' = "idle"
  BY DEF Drives, ChipEnds, AtmelDriver, PollsFirst, PollsAgain, Sleeps,
         ChipReady, driver, Inv, Written
<1> QED
  BY <1>1, <1>2, DriverPolls, ReadyPolls
     DEF Drives, ChipEnds, Inv, Types, Written, Matches

LEMMA NextInv == Inv /\ [Next]_vars => Inv'
<1>1. Inv /\ UNCHANGED vars => Inv'
  <2> SUFFICES ASSUME Inv, UNCHANGED vars PROVE Inv'
    OBVIOUS
  <2>1. Types' /\ Polls'
    BY PollsUnchanged DEF vars, atmel, Inv, Types
  <2>2. \A n : Matches(n) => Matches(n)'
    BY DEF vars, Matches
  <2>3. Written'
    BY <2>2 DEF vars, Inv, Written
  <2> QED  BY <2>1, <2>3 DEF Inv
<1>2. Inv => romdata \in [Page -> Data] /\ [p \in Page |-> Pattern] \in [Page -> Data]
  BY Contents DEF Inv, Types
<1> QED
  BY <1>1, <1>2, LoadStep, BeginStep, WritePageStep, VerifyStep, EndStep, EraseStep,
     ChipStep
     DEF Next, Write, WritePattern, Writing

(* main.c:146-166: a write has written every page it does not report.      *)
THEOREM WritesAreTrue == Spec => []WrittenOrReported
<1>1. Inv => WrittenOrReported
  <2> SUFFICES ASSUME Inv, job = "written"
               PROVE  \A p \in Page \ failed : rom[p] = romdata[p]
    BY DEF WrittenOrReported
  <2>1. \A p \in Page : p < page
    BY PageNat DEF Inv, Written
  <2> QED  BY <2>1 DEF Inv, Written, Matches
<1> QED  BY InitInv, NextInv, <1>1, PTL DEF Spec

-----------------------------------------------------------------------------
(* What the verification of a page finds on a sound chip.                  *)
Alarm == /\ job = "verify" /\ ~protected /\ page \notin Worn => rom[page] = dummy
         /\ NoFalseAlarm

LEMMA AlarmWrite == Inv /\ Alarm /\ WritePage => Alarm'
<1> SUFFICES ASSUME Inv, Alarm, WritePage PROVE Alarm'  OBVIOUS
<1>1. ~busy /\ page \in Page
  BY NatPage DEF Inv, Types, Polls, ReadyBetweenCalls, WritePage, MorePages,
                 atmel_writepage
<1>2. /\ dummy' = romdata[page] /\ UNCHANGED <<page, failed>>
      /\ atmel_writepage(FALSE, FALSE, page, romdata[page])
  BY DEF WritePage
<1>3. protected' <=> protected
  BY <1>2 DEF atmel_writepage
<1>4. ~protected /\ page \notin Worn => rom'[page] = romdata[page]
  BY <1>1, <1>2 DEF atmel_writepage, ChipTakes, Taken, Inv, Types
<1> QED  BY <1>2, <1>3, <1>4 DEF Alarm, NoFalseAlarm

LEMMA AlarmVerify == Inv /\ Alarm /\ VerifyPage => Alarm'
<1> SUFFICES ASSUME Inv, Alarm, VerifyPage PROVE Alarm'  OBVIOUS
<1>1. ~busy /\ failed' = failed \cup (IF ReadsBack THEN {} ELSE {page})
  BY DEF Inv, Polls, ReadyBetweenCalls, VerifyPage
<1>2. job' = "load page" /\ UNCHANGED <<rom, protected>>
  BY DEF VerifyPage, atmel
<1>3. ~protected /\ page \notin Worn => ReadsBack
  BY <1>1 DEF VerifyPage, Alarm, ReadsBack
<1> QED  BY <1>1, <1>2, <1>3 DEF Alarm, NoFalseAlarm

LEMMA AlarmNext == Inv /\ Alarm /\ [Next]_vars => Alarm'
<1> SUFFICES ASSUME Inv, Alarm, [Next]_vars PROVE Alarm'  OBVIOUS
<1>1. CASE ymodemrecv \/ HeaderArrives \/ PageArrives \/ SessionEnds
             \/ ReadRom \/ Quit \/ EndWrite
  <2>1. UNCHANGED <<protected, failed>> /\ job' # "verify"
    BY <1>1 DEF ymodemrecv, HeaderArrives, PageArrives, SessionEnds, ReadRom, Quit,
                EndWrite, atmel, buffer
  <2> QED  BY <2>1 DEF Alarm, NoFalseAlarm
<1>2. CASE Write \/ WritePattern
  BY <1>2 DEF Write, WritePattern, BeginWrite, Alarm, NoFalseAlarm
<1>3. CASE Erase
  BY <1>3 DEF Erase, atmel_chiperase, buffer, Alarm, NoFalseAlarm
<1>4. CASE Drives \/ ChipEnds
  <2>1. UNCHANGED <<rom, protected, dummy, page, job, failed>>
    BY <1>4 DEF Drives, ChipEnds, AtmelDriver, PollsFirst, PollsAgain, Sleeps,
                ReadsBit, ChipReady, chip, buffer
  <2> QED  BY <2>1 DEF Alarm, NoFalseAlarm
<1>5. CASE UNCHANGED vars
  BY <1>5 DEF vars, Alarm, NoFalseAlarm
<1> QED
  BY <1>1, <1>2, <1>3, <1>4, <1>5, AlarmWrite, AlarmVerify DEF Next, Writing

(* main.c:159-163: a chip that is not protected has only worn pages        *)
(* reported; no page is read back before the chip is ready.                *)
THEOREM ReportsAreJustified == Spec => []NoFalseAlarm
<1>1. Init => Alarm  BY DEF Init, Alarm, NoFalseAlarm
<1>2. Alarm => NoFalseAlarm  BY DEF Alarm
<1> QED  BY InitInv, NextInv, <1>1, AlarmNext, <1>2, PTL DEF Spec

-----------------------------------------------------------------------------
(* What a session has left in the buffer so far.                           *)
OfSession(data, images) ==
    \A p \in Page : data[p] = Zero \/ \E i \in DOMAIN images : data[p] = images[i]

Loading == job \in {"receive", "loaded"} => OfSession(romdata, session)

LEMMA LoadingHeader == Inv /\ Loading /\ HeaderArrives => Loading'
<1> SUFFICES ASSUME Inv, Loading, HeaderArrives PROVE Loading'  OBVIOUS
<1>1. PICK image \in Image : session' = Append(session, image)
  BY DEF HeaderArrives
<1>2. romdata' = romdata /\ OfSession(romdata, session)
  BY DEF HeaderArrives, Loading
<1>3. \A i \in DOMAIN session : i \in DOMAIN session' /\ session'[i] = session[i]
  BY <1>1 DEF Inv, Types
<1> QED  BY <1>2, <1>3 DEF Loading, OfSession

LEMMA LoadingPage == Inv /\ Loading /\ PageArrives => Loading'
<1> SUFFICES ASSUME Inv, Loading, PageArrives PROVE Loading'  OBVIOUS
<1>1. /\ session' = session /\ session # << >>
      /\ romdata' = [romdata EXCEPT ![received] = session[Len(session)]]
      /\ OfSession(romdata, session)
  BY DEF PageArrives, Loading
<1>2. Len(session) \in DOMAIN session
  BY <1>1 DEF Inv, Types
<1>3. \A p \in Page : romdata'[p] \in {romdata[p], session[Len(session)]}
  BY <1>1 DEF Inv, Types
<1> QED  BY <1>1, <1>2, <1>3 DEF Loading, OfSession

LEMMA LoadingNext == Inv /\ Loading /\ [Next]_vars => Loading'
<1> SUFFICES ASSUME Inv, Loading, [Next]_vars PROVE Loading'  OBVIOUS
<1>1. CASE ymodemrecv
  <2>1. romdata' = [p \in Page |-> Zero]  BY <1>1 DEF ymodemrecv, Cleared
  <2> QED  BY <2>1 DEF Loading, OfSession
<1>2. CASE SessionEnds
  BY <1>2 DEF SessionEnds, buffer, Loading, OfSession
<1>3. CASE ReadRom \/ Write \/ WritePattern \/ Writing \/ Erase \/ Quit
  <2>1. job' \notin {"receive", "loaded"}
    BY <1>3 DEF ReadRom, Write, WritePattern, BeginWrite, Writing, WritePage, VerifyPage,
                EndWrite, Erase, Quit
  <2> QED  BY <2>1 DEF Loading
<1>4. CASE Drives \/ ChipEnds
  BY <1>4 DEF Drives, ChipEnds, buffer, Loading, OfSession
<1>5. CASE UNCHANGED vars
  BY <1>5 DEF vars, Loading, OfSession
<1> QED
  BY <1>1, <1>2, <1>3, <1>4, <1>5, LoadingHeader, LoadingPage DEF Next

(* main.c:74: wherever a session ends, the buffer holds zeros and pages of *)
(* that session's files, and nothing of an older image.                    *)
THEOREM LoadsStartClean == Spec => []NothingLeftOver
<1>1. Init => Loading  BY DEF Init, Loading
<1>2. Loading => NothingLeftOver  BY DEF Loading, OfSession, NothingLeftOver
<1> QED  BY InitInv, NextInv, <1>1, LoadingNext, <1>2, PTL DEF Spec
=============================================================================
