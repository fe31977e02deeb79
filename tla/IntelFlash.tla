----------------------------- MODULE IntelFlash -----------------------------
(***************************************************************************)
(* The Intel flash driver (generic/flash/intel.c) and the chip it drives.  *)
(*                                                                         *)
(* A driver function writes its command to the chip, polls the status      *)
(* register until the chip's write state machine is ready, clears the      *)
(* register, puts the chip back into read array mode and reports what the  *)
(* register said.  Between the command and the answer the chip works on    *)
(* its own, so a function is two steps, Command and Return, with the step  *)
(* of the chip between them; polling a busy chip changes nothing.  The     *)
(* block writes make the two steps once per byte or word.                  *)
(*                                                                         *)
(* The chip is external: its error bits stay set until they are cleared,   *)
(* reads give the array only in read array mode, and an operation may fail *)
(* for a lock, for a low programming voltage or for a worn cell.           *)
(***************************************************************************)
EXTENDS Integers

CONSTANTS
    Block,      \* the chip's blocks
    BlockLen    \* bytes in a block

(* A block is a whole number of words.                                     *)
ASSUME BlockLenAssumption == BlockLen \in Nat \ {0} /\ BlockLen % 2 = 0

Byte == 0 .. BlockLen - 1

VARIABLES
    mode,       \* chip: what a read returns, "array" or "status"
    sr,         \* chip: the error bits of the status register
    lock,       \* chip: the lock of every block
    cell,       \* chip: every byte, "blank" or "written"
    outcome,    \* chip: how the operation under way, or the last one, ended
    op,         \* driver: the function under way, its block, byte and length
    result,     \* driver: the bool or lock status the last function returned
    count,      \* driver: what the last block write returned
    errno

intel == <<mode, sr, lock, cell, outcome, op, result, count, errno>>

Erases  == {"eraseblock"}
Words   == {"writeword", "writeblockaswords"}
Loops   == {"writeblockasbytes", "writeblockaswords"}
Writes  == {"writebyte"} \cup Words \cup Loops
Locks   == {"lockblock", "unlockblock", "lockdownblock"}
Status  == {"erasestatus", "programstatus", "vppstatus", "blocklockstatus"}
Outcome == {"busy", "done", "locked", "vpp", "worn"}
Lock    == {"unlocked", "locked", "lockeddown"}
Errno   == {"none", "ERASEBLOCKLOCKED", "VPP", "PROGERROR"}

NoOp == [name |-> "none"]
Op   == {NoOp} \cup [name : Erases \cup Writes \cup Locks, block : Block,
                      at : Byte, len : 0 .. BlockLen]

IntelTypeOK ==
    /\ mode \in {"array", "status"}
    /\ sr \subseteq Status
    /\ lock \in [Block -> Lock]
    /\ cell \in [Block -> [Byte -> {"blank", "written"}]]
    /\ outcome \in Outcome
    /\ op \in Op
    /\ result \in {"none", "true", "false"} \cup Lock
    /\ count \in -1 .. BlockLen
    /\ errno \in Errno

(* The chip wakes up with every block locked, in read array mode.          *)
IntelInit ==
    /\ mode = "array"
    /\ sr = {}
    /\ lock = [b \in Block |-> "locked"]
    /\ cell \in [Block -> {[i \in Byte |-> "blank"], [i \in Byte |-> "written"]}]
    /\ outcome = "done"
    /\ op = NoOp
    /\ result = "none"
    /\ count = 0
    /\ errno = "none"

-----------------------------------------------------------------------------
(* The chip ends what it was told to do.                                   *)
Finish(how, bits) ==
    /\ outcome = "busy"
    /\ outcome' = how
    /\ sr' = sr \cup bits
    /\ UNCHANGED <<mode, op, result, count, errno>>

FailureBit == IF op.name \in Erases THEN "erasestatus" ELSE "programstatus"

ChipRefuses ==
    /\ op.name \in Erases \cup Writes
    /\ \/ lock[op.block] # "unlocked" /\ Finish("locked", {FailureBit, "blocklockstatus"})
       \/ Finish("vpp", {FailureBit, "vppstatus"})
       \/ Finish("worn", {FailureBit})
    /\ UNCHANGED <<lock, cell>>

ChipErases ==
    /\ op.name \in Erases
    /\ lock[op.block] = "unlocked"
    /\ Finish("done", {})
    /\ cell' = [cell EXCEPT ![op.block] = [i \in Byte |-> "blank"]]
    /\ UNCHANGED lock

(* A word covers the byte it is written to and the next one.               *)
Target == IF op.name \in Words THEN {op.at, op.at + 1} ELSE {op.at}

ChipWrites ==
    /\ op.name \in Writes
    /\ lock[op.block] = "unlocked"
    /\ Finish("done", {})
    /\ cell' = [cell EXCEPT ![op.block] =
                    [i \in Byte |-> IF i \in Target THEN "written" ELSE @[i]]]
    /\ UNCHANGED lock

(* A block that is locked down cannot be unlocked, and nothing says so.    *)
ChipLocks ==
    /\ op.name \in Locks
    /\ Finish("done", {})
    /\ lock' = [lock EXCEPT ![op.block] =
                    IF @ = "lockeddown" \/ op.name = "lockdownblock" THEN "lockeddown"
                    ELSE IF op.name = "lockblock" THEN "locked" ELSE "unlocked"]
    /\ UNCHANGED cell

Chip == ChipRefuses \/ ChipErases \/ ChipWrites \/ ChipLocks

-----------------------------------------------------------------------------
(* The setup and the confirmation of a command start the chip.             *)
Command(name, b, at, len) ==
    /\ op' = [name |-> name, block |-> b, at |-> at, len |-> len]
    /\ outcome' = "busy"
    /\ mode' = "status"
    /\ result' = "none"
    /\ UNCHANGED <<sr, lock, cell, count, errno>>

(* Block writes that never come to the chip: nothing to write, or words    *)
(* from an odd number of bytes.                                            *)
NoCommand(n) ==
    /\ count' = n
    /\ result' = "none"
    /\ UNCHANGED <<mode, sr, lock, cell, outcome, op, errno>>

Start(name, b, len) ==
    IF name = "writeblockaswords" /\ len % 2 # 0 THEN NoCommand(-1)
    ELSE IF len = 0 THEN NoCommand(0)
    ELSE Command(name, b, 0, len)

(* The chip shows the lock of a block in its identify mode, at once.       *)
GetLockStatus(b) ==
    /\ mode' = "array"
    /\ result' = lock[b]
    /\ UNCHANGED <<sr, lock, cell, outcome, op, count, errno>>

Call == /\ op = NoOp
        /\ \E b \in Block :
            \/ \E name \in Erases \cup Locks : Command(name, b, 0, 0)
            \/ \E at \in Byte : Command("writebyte", b, at, 1)
            \/ \E at \in Byte : at % 2 = 0 /\ Command("writeword", b, at, 2)
            \/ \E name \in Loops, len \in 0 .. BlockLen : Start(name, b, len)
            \/ GetLockStatus(b)

(* intel_waitforwsm(): the bits read in the last poll are what the caller  *)
(* sees, the register is cleared.                                          *)
intel_waitforwsm == outcome # "busy" /\ sr' = {}

ReadArrayX == mode' = IF outcome = "done" THEN "array" ELSE mode
ReadArray  == mode' = "array"

intel_checkeraseerror == "erasestatus" \notin sr
EraseErrno == IF intel_checkeraseerror THEN errno
              ELSE IF "blocklockstatus" \in sr THEN "ERASEBLOCKLOCKED" ELSE "none"

intel_checkwriteerrorX == sr \cap {"vppstatus", "blocklockstatus"} = {}
intel_checkwriteerror ==
    sr \cap {"vppstatus", "programstatus", "blocklockstatus"} = {}
WriteErrno == IF "vppstatus" \in sr THEN "VPP"
              ELSE IF "programstatus" \in sr THEN "PROGERROR"
              ELSE IF "blocklockstatus" \in sr THEN "ERASEBLOCKLOCKED" ELSE "none"

Return == /\ ReadArray
          /\ op' = NoOp
          /\ UNCHANGED <<lock, cell, outcome>>

ReturnBool(value) == /\ Return
                     /\ result' = IF value THEN "true" ELSE "false"
                     /\ UNCHANGED count

ReturnCount(n) == Return /\ count' = n /\ UNCHANGED result

ReturnFromErase ==
    /\ op.name \in Erases
    /\ intel_waitforwsm
    /\ errno' = EraseErrno
    /\ ReturnBool(intel_checkeraseerror)

(* The status is read and not looked at.                                   *)
ReturnFromLock ==
    /\ op.name \in Locks
    /\ intel_waitforwsm
    /\ ReturnBool(TRUE)
    /\ UNCHANGED errno

ReturnFromWrite ==
    /\ op.name \in Writes \ Loops
    /\ intel_waitforwsm
    /\ errno' = WriteErrno
    /\ ReturnBool(intel_checkwriteerror)

(* The loops of the block writes end when intel_checkwriteerror() finds no *)
(* error.  The loop over bytes then returns its index, and goes on to the  *)
(* next byte after an error; the loop over words never moves its index.    *)
Again(at) ==
    /\ op' = [op EXCEPT !.at = at]
    /\ outcome' = "busy"
    /\ UNCHANGED <<mode, lock, cell, result, count>>

NextByteX(at) == at
NextByte(at)  == IF op.name = "writeblockaswords" THEN at ELSE at + 1

More(at) == at < op.len

BlockWriteStep ==
    /\ op.name \in Loops
    /\ intel_waitforwsm
    /\ errno' = WriteErrno
    /\ IF intel_checkwriteerror THEN ReturnCount(op.at)
       ELSE IF More(NextByte(op.at)) THEN Again(NextByte(op.at))
       ELSE ReturnCount(op.len)

Driver == ReturnFromErase \/ ReturnFromLock \/ ReturnFromWrite \/ BlockWriteStep

IntelNext == Call \/ Driver \/ Chip

IntelSpec     == IntelInit /\ [][IntelNext]_intel
IntelFairSpec == IntelSpec /\ WF_intel(Driver) /\ WF_intel(Chip)

-----------------------------------------------------------------------------
(* What eraseblock(), writebyte() and writeword() report is how their own  *)
(* operation ended: no error bit of an earlier one is left to be read      *)
(* again (intel.c:56), and none of the chip's three reasons is taken for   *)
(* success.                                                                *)
ReportsAgree ==
    op = NoOp /\ result \in {"true", "false"} =>
        (result = "true" <=> outcome = "done")

(* While no function is under way, the array can be read (intel.c:79, 148,*)
(* 173 and the other calls), and the next operation starts with a clear    *)
(* status register.                                                        *)
ReadableBetweenCalls == op = NoOp => mode = "array" /\ sr = {}

(* errno says "locked" of an erase only when the block was.                *)
ErrnoTellsLock ==
    [][(op.name \in Erases /\ op' = NoOp /\ result' = "false") =>
        (errno' = "ERASEBLOCKLOCKED" <=> outcome = "locked")]_intel

(* Every function but the loop over words returns once the chip is done.   *)
Returns == (op # NoOp /\ op.name # "writeblockaswords") ~> (op = NoOp)
=============================================================================
