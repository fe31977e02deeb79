----------------------------- MODULE H8Debugger -----------------------------
(***************************************************************************)
(* The debugger of h8mon: breakpoints, single steps and ^C, as task.c,     *)
(* tasks.s and the shell's and the stub's commands make them out of TRAPA  *)
(* instructions written into the user's program.                           *)
(*                                                                         *)
(* An instruction is what calc_next_pc() finds out about it: the address   *)
(* of the next one and the address it may branch to.  Of the user's        *)
(* registers only the program counter is kept.                             *)
(***************************************************************************)
EXTENDS Integers

CONSTANTS
    Addr,       \* where the user's program is
    Rom,        \* the part of it that cannot be written
    Code,       \* the instructions it may consist of
    Slot,       \* indices of break_buf, MAX_BREAKPOINT_NUM of them
    Program,    \* what is in memory at first
    Patches,    \* bound: what the operator may write, and where
    BREAK,      \* BREAK_CODE
    Nowhere,    \* the address of an unused entry
    Monitor     \* any program counter inside the monitor

ASSUME CodeAssumption == Code \subseteq Addr \X Addr /\ BREAK \notin Code
ASSUME AddrAssumption == Rom \subseteq Addr /\ Nowhere \notin Addr /\ Monitor \notin Addr
ASSUME ProgramAssumption == /\ Program \in [Addr -> Code]
                            /\ Patches \subseteq (Addr \ Rom) \X Code

VARIABLES
    mem,            \* the memory of the user's program
    break_addr,     \* break_buf[].addr
    break_code,     \* break_buf[].code
    task_reg,       \* the user's program counter while the monitor runs
    task_stat,
    next_order, bran_order,     \* what a step replaced by BREAK, and where
    at,             \* what the processor runs, see Place
    pc,             \* its program counter in the user's program
    image,          \* what the operator has put into memory
    edited,         \* addresses that were written to under a breakpoint
    ran             \* instructions run since the user's program was resumed

traps == <<mem, break_addr, break_code, next_order, bran_order>>
ghost == <<image, edited>>
vars  == <<mem, break_addr, break_code, task_reg, task_stat, next_order,
           bran_order, at, pc, image, edited, ran>>

(* "shell": mon();  "prepare": exec_usertask() before it writes the traps; *)
(* "leave": before the rte of _exec();  "finish": from _exec_mon() until   *)
(* finish_breakpoints() is done.                                           *)
Place  == {"shell", "prepare", "leave", "user", "finish"}
Status == {"RESET", "ASTEP", "ABREAK", "EXEC", "ESTEP", "NEXEC"}
Order  == [addr : Addr \cup {Nowhere}, code : Code]

TypeOK ==
    /\ mem \in [Addr -> Code \cup {BREAK}]
    /\ break_addr \in [Slot -> Addr \cup {Nowhere}]
    /\ break_code \in [Slot -> Code]
    /\ task_reg \in Addr \cup {Monitor}
    /\ task_stat \in Status
    /\ next_order \in Order /\ bran_order \in Order
    /\ at \in Place
    /\ pc \in Addr
    /\ image \in [Addr -> Code]
    /\ edited \subseteq Addr
    /\ ran \in 0 .. 2

Init ==
    /\ mem = Program /\ image = Program
    /\ break_addr = [i \in Slot |-> Nowhere]
    /\ \E a \in Addr :
        /\ task_reg = a /\ pc = a
        /\ break_code = [i \in Slot |-> Program[a]]
        /\ next_order = [addr |-> Nowhere, code |-> Program[a]]
        /\ bran_order = next_order
    /\ task_stat = "RESET"
    /\ at = "shell"
    /\ edited = {}
    /\ ran = 0

-----------------------------------------------------------------------------
Breakpoints == {break_addr[i] : i \in Slot} \ {Nowhere}

(* A store to ROM changes nothing.                                         *)
Poked(memory, a, code) ==
    IF a \in Rom THEN memory ELSE [memory EXCEPT ![a] = code]

WithTrapsX(memory) ==
    [a \in Addr |-> IF a \in Breakpoints \ {task_reg} THEN BREAK ELSE memory[a]]
WithTraps(memory) ==
    [a \in Addr |-> IF a \in Breakpoints THEN BREAK ELSE memory[a]]

WithoutTraps(memory) ==
    [a \in Addr |-> IF a \in Breakpoints
                    THEN break_code[CHOOSE i \in Slot : break_addr[i] = a]
                    ELSE memory[a]]

StepUndoneX(memory) == Poked(memory, next_order.addr, next_order.code)
StepUndone(memory) ==
    LET first == Poked(memory, next_order.addr, next_order.code)
    IN  IF next_order.addr = bran_order.addr THEN first
        ELSE Poked(first, bran_order.addr, bran_order.code)

(* prepare_trap_next_order(): the trap of the next instruction is already  *)
(* there when the other one's original is saved.                           *)
PrepareTrapX(a) ==
    /\ next_order' = [addr |-> mem[a][1], code |-> mem[mem[a][1]]]
    /\ bran_order' = next_order'
    /\ mem' = Poked(mem, mem[a][1], BREAK)
PrepareTrap(a) ==
    LET next   == mem[a][1]
        bran   == mem[a][2]
        first  == Poked(mem, next, BREAK)
    IN  /\ next_order' = [addr |-> next, code |-> mem[next]]
        /\ bran_order' = [addr |-> bran,
                          code |-> IF bran = next THEN bran_order.code ELSE first[bran]]
        /\ mem' = IF bran = next THEN first ELSE Poked(first, bran, BREAK)

-----------------------------------------------------------------------------
(* The shell: 'go' with or without an address, the stub's 'c'.  A program  *)
(* counter inside the monitor is not run; the operator sees that it is.    *)
exec_usertask ==
    /\ at = "shell"
    /\ \E a \in Addr :
        /\ task_reg' = a
        /\ IF a \in Breakpoints
           THEN /\ task_stat' = "NEXEC"
                /\ PrepareTrap(a)
                /\ at' = "leave"
           ELSE /\ task_stat' = "EXEC"
                /\ at' = "prepare"
                /\ UNCHANGED <<mem, next_order, bran_order>>
    /\ UNCHANGED <<break_addr, break_code, pc, ghost, ran>>

(* 'step', the stub's 's'.                                                 *)
step_exec_usertask ==
    /\ at = "shell"
    /\ \E a \in Addr :
        /\ task_reg' = a
        /\ PrepareTrap(a)
    /\ task_stat' = "ESTEP"
    /\ at' = "leave"
    /\ UNCHANGED <<break_addr, break_code, pc, ghost, ran>>

(* 'break address': refused when it is set already, when no entry is free  *)
(* or when the trap cannot be read back.  The entry's code is overwritten  *)
(* in any case.                                                            *)
Free(i) == break_addr[i] = Nowhere /\ \A j \in Slot : break_addr[j] = Nowhere => i <= j

BreakSet ==
    /\ at = "shell"
    /\ \E a \in Addr \ Breakpoints, i \in Slot :
        /\ Free(i)
        /\ break_code' = [break_code EXCEPT ![i] = mem[a]]
        /\ break_addr' = IF a \in Rom THEN break_addr
                         ELSE [break_addr EXCEPT ![i] = a]
    /\ UNCHANGED <<mem, task_reg, task_stat, next_order, bran_order, at, pc, ghost, ran>>

(* 'break - number', 'break - address' and 'break -'.                      *)
BreakDelete ==
    /\ at = "shell"
    /\ \E gone \in {{i} : i \in Slot} \cup {Slot} :
        break_addr' = [i \in Slot |-> IF i \in gone THEN Nowhere ELSE break_addr[i]]
    /\ UNCHANGED <<mem, break_code, task_reg, task_stat, next_order, bran_order,
                   at, pc, ghost, ran>>

(* Memory edit and fill, loading S-records, the stub's 'M' and 'X'.        *)
Edit ==
    /\ at = "shell"
    /\ \E p \in Patches :
        /\ mem' = [mem EXCEPT ![p[1]] = p[2]]
        /\ image' = [image EXCEPT ![p[1]] = p[2]]
        /\ edited' = IF p[1] \in Breakpoints THEN edited \cup {p[1]} ELSE edited
    /\ UNCHANGED <<break_addr, break_code, task_reg, task_stat, next_order,
                   bran_order, at, pc, ran>>

-----------------------------------------------------------------------------
(* Leaving the monitor.                                                    *)
prepare_breakpoints ==
    /\ at = "prepare"
    /\ mem' = WithTraps(mem)
    /\ at' = "leave"
    /\ UNCHANGED <<break_addr, break_code, task_reg, task_stat, next_order,
                   bran_order, pc, ghost, ran>>

exec ==
    /\ at = "leave"
    /\ pc' = task_reg
    /\ ran' = 0
    /\ at' = "user"
    /\ UNCHANGED <<traps, task_reg, task_stat, ghost>>

(* The user's program.                                                     *)
UserRuns ==
    /\ at = "user"
    /\ mem[pc] # BREAK
    /\ pc' \in {mem[pc][1], mem[pc][2]}
    /\ ran' = IF ran < 2 THEN ran + 1 ELSE ran
    /\ UNCHANGED <<traps, task_reg, task_stat, at, ghost>>

(* TRAPA: the registers are saved, the program counter that of the trap.   *)
trapa_break ==
    /\ at = "user"
    /\ mem[pc] = BREAK
    /\ task_reg' = pc
    /\ at' = "finish"
    /\ UNCHANGED <<traps, task_stat, pc, ghost, ran>>

(* ^C from the receive interrupt, which is open from _exec_mon() to the    *)
(* next trap: break_reg is what was interrupted, the monitor included.     *)
Interrupted == IF at = "user" THEN pc ELSE Monitor

break_task ==
    /\ task_stat = "EXEC"
    /\ task_reg' = Interrupted
    /\ task_stat' = "ABREAK"
    /\ at' = "finish"
    /\ UNCHANGED <<traps, pc, ghost, ran>>

StatusAfterX == IF task_stat = "ESTEP" THEN "ASTEP"
                ELSE IF task_stat = "NEXEC" THEN "NEXEC" ELSE "ABREAK"
StatusAfter  == CASE task_stat = "ESTEP" -> "ASTEP"
                  [] task_stat = "NEXEC" -> "EXEC"
                  [] OTHER -> "ABREAK"

finish_breakpoints ==
    /\ at = "finish"
    /\ mem' = IF task_stat \in {"ESTEP", "NEXEC"}
              THEN StepUndone(WithoutTraps(mem)) ELSE WithoutTraps(mem)
    /\ task_stat' = StatusAfter
    /\ at' = IF task_stat = "NEXEC" THEN "prepare" ELSE "shell"
    /\ UNCHANGED <<break_addr, break_code, task_reg, next_order, bran_order,
                   pc, ghost, ran>>

-----------------------------------------------------------------------------
Commands == exec_usertask \/ step_exec_usertask \/ BreakSet \/ BreakDelete \/ Edit
MonitorRuns == prepare_breakpoints \/ exec \/ finish_breakpoints
ProgramRuns == UserRuns \/ trapa_break

Next == Commands \/ MonitorRuns \/ ProgramRuns \/ break_task
Spec == Init /\ [][Next]_vars

(* The processor runs; the operator keeps pressing ^C.                     *)
FairSpec == /\ Spec
            /\ WF_vars(MonitorRuns)
            /\ WF_vars(ProgramRuns)
            /\ WF_vars(break_task)

-----------------------------------------------------------------------------
(* task.h:66, "the original code": whenever the shell is back the program  *)
(* is what the operator loaded, without a trap, however it was stopped:    *)
(* except where it was written to under a breakpoint, which the next stop  *)
(* undoes.                                                                 *)
CodeIntact ==
    at = "shell" => /\ \A a \in Addr : mem[a] # BREAK
                    /\ \A a \in Addr \ edited : mem[a] = image[a]

(* task.c:97: a program that runs freely meets every breakpoint, the one   *)
(* it was resumed at included once it has left it.                         *)
BreakpointsArmed ==
    at = "user" /\ task_stat = "EXEC" => \A a \in Breakpoints : mem[a] = BREAK

(* A step, and the hidden one off a breakpoint, runs one instruction and   *)
(* no second one, unless it branches to itself (then the trap takes its    *)
(* own place and none is run) or into ROM (then no trap can be written).   *)
Steps == task_stat \in {"ESTEP", "NEXEC"}
Trappable == /\ {next_order.addr, bran_order.addr} \cap Rom = {}
             /\ task_reg \notin {next_order.addr, bran_order.addr}
StepRunsOne ==
    at = "user" /\ Steps /\ Trappable =>
        ran = IF pc = task_reg THEN 0 ELSE 1

(* The operator gets the prompt back, from free running by ^C, from a step *)
(* by its trap.                                                            *)
PromptReturns ==
    (at = "user" /\ (Steps => Trappable)) ~> (at = "shell")
=============================================================================
