-------------------------- MODULE H8DebuggerProofs --------------------------
(***************************************************************************)
(* What the debugger does to the user's program is undone, for any         *)
(* program, any number of breakpoints and any layout of RAM and ROM.       *)
(***************************************************************************)
EXTENDS H8Debugger, TLAPS

USE CodeAssumption, AddrAssumption, ProgramAssumption

(* A part of memory that holds the operator's program, or an instruction   *)
(* where it was written to under a breakpoint.                             *)
Clean(memory, part) ==
    \A a \in part : memory[a] \in Code /\ (a \notin edited => memory[a] = image[a])

(* The entries of break_buf are about different addresses of RAM and hold  *)
(* what was there.                                                         *)
Buffer ==
    /\ \A i, j \in Slot : break_addr[i] = break_addr[j] /\ break_addr[i] # Nowhere => i = j
    /\ \A i \in Slot : break_addr[i] \notin Rom
    /\ \A i \in Slot : break_addr[i] # Nowhere /\ break_addr[i] \notin edited =>
                            break_code[i] = image[break_addr[i]]

(* What each place of the processor says about the status.                 *)
Modes == /\ at = "shell" => task_stat \notin {"EXEC", "ESTEP", "NEXEC"}
         /\ at = "prepare" => task_stat = "EXEC"
         /\ at \in {"leave", "user"} => task_stat \in {"EXEC", "ESTEP", "NEXEC"}
         /\ at \in {"prepare", "leave"} \/ Steps => task_reg \in Addr

Away    == at \in {"leave", "user", "finish"}
Stepped == {next_order.addr, bran_order.addr}

(* Where traps may be, and what was saved of the code under those of a     *)
(* step.                                                                   *)
Traps ==
    /\ at \in {"shell", "prepare"} => Clean(mem, Addr)
    /\ Away /\ ~Steps => Clean(mem, Addr \ Breakpoints)
    /\ Away /\ Steps =>
        /\ Stepped \subseteq Addr
        /\ Clean(mem, {a \in Addr : a \in Rom \/ a \notin Stepped})
        /\ next_order.addr \notin edited =>
                next_order.code = image[next_order.addr]
        /\ bran_order.addr # next_order.addr /\ bran_order.addr \notin edited =>
                bran_order.code = image[bran_order.addr]
    /\ at \in {"leave", "user"} /\ task_stat = "EXEC" =>
        \A a \in Breakpoints : mem[a] = BREAK

IInv == TypeOK /\ Buffer /\ Modes /\ Traps

-----------------------------------------------------------------------------
LEMMA BreakpointsType ==
    ASSUME TypeOK
    PROVE  /\ Breakpoints \subseteq Addr
           /\ \A a : a \in Breakpoints <=> a # Nowhere /\ \E i \in Slot : break_addr[i] = a
BY DEF TypeOK, Breakpoints

(* Putting the code back leaves no trap of a breakpoint.                   *)
LEMMA WithoutTrapsClean ==
    ASSUME TypeOK, Buffer, NEW part \in SUBSET Addr, Clean(mem, part)
    PROVE  /\ WithoutTraps(mem) \in [Addr -> Code \cup {BREAK}]
           /\ Clean(WithoutTraps(mem), part \cup Breakpoints)
<1>1. ASSUME NEW a \in Breakpoints
      PROVE  /\ WithoutTraps(mem)[a] \in Code
             /\ a \notin edited => WithoutTraps(mem)[a] = image[a]
  <2>1. PICK i \in Slot : break_addr[i] = a /\ a # Nowhere /\ a \in Addr
    BY BreakpointsType
  <2>2. (CHOOSE k \in Slot : break_addr[k] = a) = i
    BY <2>1 DEF Buffer
  <2>3. WithoutTraps(mem)[a] = break_code[i]
    BY <2>1, <2>2 DEF WithoutTraps
  <2>. QED  BY <2>1, <2>3 DEF Buffer, TypeOK
<1>2. ASSUME NEW a \in Addr, a \notin Breakpoints
      PROVE  WithoutTraps(mem)[a] = mem[a]
  BY <1>2 DEF WithoutTraps
<1>3. WithoutTraps(mem) = [a \in Addr |-> WithoutTraps(mem)[a]]
  BY DEF WithoutTraps
<1>4. \A a \in Addr : WithoutTraps(mem)[a] \in Code \cup {BREAK}
  BY <1>1, <1>2 DEF TypeOK
<1>5. WithoutTraps(mem) \in [Addr -> Code \cup {BREAK}]
  BY <1>3, <1>4
<1>6. Clean(WithoutTraps(mem), part \cup Breakpoints)
  BY <1>1, <1>2, BreakpointsType DEF Clean
<1>. QED  BY <1>5, <1>6

LEMMA PokedType ==
    ASSUME NEW memory \in [Addr -> Code \cup {BREAK}], NEW a \in Addr,
           NEW code \in Code \cup {BREAK}
    PROVE  /\ Poked(memory, a, code) \in [Addr -> Code \cup {BREAK}]
           /\ \A b \in Addr : Poked(memory, a, code)[b] =
                IF b = a /\ a \notin Rom THEN code ELSE memory[b]
BY DEF Poked

LEMMA InitIInv == Init => IInv
<1>. SUFFICES ASSUME Init PROVE IInv
  OBVIOUS
<1>1. TypeOK
  BY DEF Init, TypeOK, Place, Status, Order
<1>2. Buffer /\ Modes
  BY DEF Init, Buffer, Modes, Steps
<1>3. Traps
  BY DEF Init, Traps, Away, Clean
<1>. QED  BY <1>1, <1>2, <1>3 DEF IInv

(* What a step saves and writes.                                           *)
LEMMA PrepareTrapStep ==
    ASSUME IInv, at = "shell", NEW a \in Addr, PrepareTrap(a), UNCHANGED ghost
    PROVE  /\ mem' \in [Addr -> Code \cup {BREAK}]
           /\ next_order' \in Order /\ bran_order' \in Order
           /\ Stepped' \subseteq Addr
           /\ Clean(mem, {b \in Addr : b \in Rom \/ b \notin Stepped})'
           /\ next_order'.addr \notin edited =>
                next_order'.code = image[next_order'.addr]
           /\ bran_order'.addr # next_order'.addr /\ bran_order'.addr \notin edited =>
                bran_order'.code = image[bran_order'.addr]
<1>. DEFINE next == mem[a][1]
            bran == mem[a][2]
            first == Poked(mem, next, BREAK)
<1>1. Clean(mem, Addr) /\ mem \in [Addr -> Code \cup {BREAK}]
  BY DEF IInv, Traps, TypeOK
<1>2. next \in Addr /\ bran \in Addr /\ mem[next] \in Code /\ mem[bran] \in Code
  BY <1>1 DEF Clean
<1>3. /\ first \in [Addr -> Code \cup {BREAK}]
      /\ \A b \in Addr : first[b] = IF b = next /\ next \notin Rom THEN BREAK ELSE mem[b]
  BY <1>1, <1>2, PokedType
<1>4. /\ next_order' = [addr |-> next, code |-> mem[next]]
      /\ bran_order' = [addr |-> bran,
                        code |-> IF bran = next THEN bran_order.code ELSE first[bran]]
      /\ mem' = IF bran = next THEN first ELSE Poked(first, bran, BREAK)
  BY DEF PrepareTrap
<1>. HIDE DEF next, bran, first
<1>5. bran # next => first[bran] = mem[bran]
  BY <1>2, <1>3
<1>6. next_order' \in Order /\ bran_order' \in Order
  BY <1>2, <1>4, <1>5 DEF Order, IInv, TypeOK
<1>7. /\ mem' \in [Addr -> Code \cup {BREAK}]
      /\ \A b \in Addr : b \in Rom \/ b \notin {next, bran} => mem'[b] = mem[b]
  <2>1. CASE bran = next
    BY <1>3, <1>4, <2>1
  <2>2. CASE bran # next
    <3>1. /\ Poked(first, bran, BREAK) \in [Addr -> Code \cup {BREAK}]
          /\ \A b \in Addr : Poked(first, bran, BREAK)[b] =
                IF b = bran /\ bran \notin Rom THEN BREAK ELSE first[b]
      BY <1>2, <1>3, PokedType
    <3>. QED  BY <1>3, <1>4, <2>2, <3>1
  <2>. QED  BY <2>1, <2>2
<1>8. next_order'.addr = next /\ bran_order'.addr = bran
  BY <1>4
<1>9. Clean(mem, {b \in Addr : b \in Rom \/ b \notin Stepped})'
  BY <1>1, <1>7, <1>8 DEF Clean, Stepped, ghost
<1>10. /\ next_order'.addr \notin edited => next_order'.code = image[next_order'.addr]
       /\ bran_order'.addr # next_order'.addr /\ bran_order'.addr \notin edited =>
                bran_order'.code = image[bran_order'.addr]
  BY <1>1, <1>2, <1>4, <1>5, <1>8 DEF Clean
<1>. QED  BY <1>2, <1>6, <1>7, <1>8, <1>9, <1>10 DEF Stepped

(* ... and that finish_breakpoints() puts it back.                         *)
LEMMA StepUndoneClean ==
    ASSUME TypeOK, NEW memory \in [Addr -> Code \cup {BREAK}],
           Stepped \subseteq Addr,
           Clean(memory, {a \in Addr : a \in Rom \/ a \notin Stepped}),
           next_order.addr \notin edited => next_order.code = image[next_order.addr],
           bran_order.addr # next_order.addr /\ bran_order.addr \notin edited =>
                bran_order.code = image[bran_order.addr]
    PROVE  /\ StepUndone(memory) \in [Addr -> Code \cup {BREAK}]
           /\ Clean(StepUndone(memory), Addr)
<1>. DEFINE first == Poked(memory, next_order.addr, next_order.code)
<1>1. /\ next_order.addr \in Addr /\ bran_order.addr \in Addr
      /\ next_order.code \in Code /\ bran_order.code \in Code
  BY DEF Stepped, TypeOK, Order
<1>2. /\ first \in [Addr -> Code \cup {BREAK}]
      /\ \A b \in Addr : first[b] =
            IF b = next_order.addr /\ next_order.addr \notin Rom
            THEN next_order.code ELSE memory[b]
  BY <1>1 DEF Poked
<1>. HIDE DEF first
<1>3. CASE next_order.addr = bran_order.addr
  <2>1. StepUndone(memory) = first
    BY <1>3 DEF StepUndone, first
  <2>. QED  BY <1>1, <1>2, <1>3, <2>1 DEF Clean, Stepped
<1>4. CASE next_order.addr # bran_order.addr
  <2>1. StepUndone(memory) = Poked(first, bran_order.addr, bran_order.code)
    BY <1>4 DEF StepUndone, first
  <2>2. /\ StepUndone(memory) \in [Addr -> Code \cup {BREAK}]
        /\ \A b \in Addr : StepUndone(memory)[b] =
            IF b = bran_order.addr /\ bran_order.addr \notin Rom
            THEN bran_order.code ELSE first[b]
    BY <1>1, <1>2, <2>1 DEF Poked
  <2>. QED  BY <1>1, <1>2, <1>4, <2>2 DEF Clean, Stepped
<1>. QED  BY <1>3, <1>4

-----------------------------------------------------------------------------
LEMMA NextIInv == IInv /\ [Next]_vars => IInv'
<1>. SUFFICES ASSUME IInv, [Next]_vars PROVE IInv'
  OBVIOUS
<1>0. TypeOK /\ Buffer /\ Modes /\ Traps
  BY DEF IInv
<1>1. CASE exec_usertask
  <2>1. PICK a \in Addr :
            /\ task_reg' = a
            /\ \/ /\ task_stat' = "NEXEC" /\ PrepareTrap(a) /\ at' = "leave"
               \/ /\ task_stat' = "EXEC" /\ at' = "prepare"
                  /\ UNCHANGED <<mem, next_order, bran_order>>
    BY <1>1 DEF exec_usertask
  <2>2. /\ at = "shell"
        /\ UNCHANGED <<break_addr, break_code, pc, image, edited, ran>>
    BY <1>1 DEF exec_usertask, ghost
  <2>3. Buffer'
    BY <1>0, <2>2 DEF Buffer
  <2>4. CASE at' = "leave"
    <3>1. task_stat' = "NEXEC" /\ PrepareTrap(a)
      BY <2>1, <2>4
    <3>2. /\ mem' \in [Addr -> Code \cup {BREAK}]
          /\ next_order' \in Order /\ bran_order' \in Order
          /\ Stepped' \subseteq Addr
          /\ Clean(mem, {b \in Addr : b \in Rom \/ b \notin Stepped})'
          /\ next_order'.addr \notin edited =>
                next_order'.code = image[next_order'.addr]
          /\ bran_order'.addr # next_order'.addr /\ bran_order'.addr \notin edited =>
                bran_order'.code = image[bran_order'.addr]
      BY <2>2, <3>1, PrepareTrapStep DEF ghost
    <3>3. TypeOK'
      BY <1>0, <2>1, <2>2, <2>4, <3>1, <3>2 DEF TypeOK, Place, Status
    <3>4. Modes' /\ Traps'
      BY <2>1, <2>2, <2>4, <3>1, <3>2 DEF Modes, Traps, Away, Steps
    <3>. QED  BY <2>3, <3>3, <3>4 DEF IInv
  <2>5. CASE at' = "prepare"
    <3>1. task_stat' = "EXEC" /\ UNCHANGED <<mem, next_order, bran_order>>
      BY <2>1, <2>5
    <3>2. TypeOK'
      BY <1>0, <2>1, <2>2, <2>5, <3>1 DEF TypeOK, Place, Status
    <3>3. Clean(mem, Addr)'
      BY <1>0, <2>2, <3>1 DEF Traps, Clean
    <3>4. Modes' /\ Traps'
      BY <2>1, <2>5, <3>1, <3>3 DEF Modes, Traps, Away, Steps
    <3>. QED  BY <2>3, <3>2, <3>4 DEF IInv
  <2>. QED  BY <2>1, <2>4, <2>5
<1>2. CASE step_exec_usertask
  <2>1. PICK a \in Addr : task_reg' = a /\ PrepareTrap(a)
    BY <1>2 DEF step_exec_usertask
  <2>2. /\ at = "shell" /\ at' = "leave" /\ task_stat' = "ESTEP"
        /\ UNCHANGED <<break_addr, break_code, pc, image, edited, ran>>
    BY <1>2 DEF step_exec_usertask, ghost
  <2>3. Buffer'
    BY <1>0, <2>2 DEF Buffer
  <2>4. /\ mem' \in [Addr -> Code \cup {BREAK}]
        /\ next_order' \in Order /\ bran_order' \in Order
        /\ Stepped' \subseteq Addr
        /\ Clean(mem, {b \in Addr : b \in Rom \/ b \notin Stepped})'
        /\ next_order'.addr \notin edited =>
              next_order'.code = image[next_order'.addr]
        /\ bran_order'.addr # next_order'.addr /\ bran_order'.addr \notin edited =>
              bran_order'.code = image[bran_order'.addr]
    BY <2>1, <2>2, PrepareTrapStep DEF ghost
  <2>5. TypeOK'
    BY <1>0, <2>1, <2>2, <2>4 DEF TypeOK, Place, Status
  <2>6. Modes' /\ Traps'
    BY <2>1, <2>2, <2>4 DEF Modes, Traps, Away, Steps
  <2>. QED  BY <2>3, <2>5, <2>6 DEF IInv
<1>3. CASE BreakSet
  <2>1. PICK a \in Addr \ Breakpoints, i \in Slot :
            /\ break_addr[i] = Nowhere
            /\ break_code' = [break_code EXCEPT ![i] = mem[a]]
            /\ break_addr' = IF a \in Rom THEN break_addr
                             ELSE [break_addr EXCEPT ![i] = a]
    BY <1>3 DEF BreakSet, Free
  <2>2. /\ at = "shell"
        /\ UNCHANGED <<mem, task_reg, task_stat, next_order, bran_order, at, pc,
                       image, edited, ran>>
    BY <1>3 DEF BreakSet, ghost
  <2>3. Clean(mem, Addr) /\ mem[a] \in Code /\ (a \notin edited => mem[a] = image[a])
    BY <1>0, <2>2 DEF Traps, Clean
  <2>4. TypeOK'
    <3>1. /\ break_code' \in [Slot -> Code]
          /\ break_addr' \in [Slot -> Addr \cup {Nowhere}]
      BY <1>0, <2>1, <2>3 DEF TypeOK
    <3>. QED  BY <1>0, <2>2, <3>1 DEF TypeOK
  <2>5. \A j \in Slot : break_addr[j] # a
    BY <1>0, <2>1, BreakpointsType
  <2>6. \A j \in Slot : /\ break_addr'[j] = IF j = i /\ a \notin Rom THEN a ELSE break_addr[j]
                        /\ break_code'[j] = IF j = i THEN mem[a] ELSE break_code[j]
    BY <1>0, <2>1 DEF TypeOK
  <2>7. Buffer'
    BY <1>0, <2>1, <2>2, <2>3, <2>5, <2>6 DEF Buffer
  <2>8. Modes' /\ Traps'
    BY <1>0, <2>2, <2>3 DEF Modes, Traps, Away, Clean, Steps
  <2>. QED  BY <2>4, <2>7, <2>8 DEF IInv
<1>4. CASE BreakDelete
  <2>1. PICK gone \in SUBSET Slot :
            break_addr' = [i \in Slot |-> IF i \in gone THEN Nowhere ELSE break_addr[i]]
    BY <1>4 DEF BreakDelete
  <2>2. /\ at = "shell"
        /\ UNCHANGED <<mem, break_code, task_reg, task_stat, next_order, bran_order,
                       at, pc, image, edited, ran>>
    BY <1>4 DEF BreakDelete, ghost
  <2>3. TypeOK' /\ Buffer'
    BY <1>0, <2>1, <2>2 DEF TypeOK, Buffer
  <2>4. Modes' /\ Traps'
    BY <1>0, <2>2 DEF Modes, Traps, Away, Clean, Steps
  <2>. QED  BY <2>3, <2>4 DEF IInv
<1>5. CASE Edit
  <2>1. PICK p \in Patches :
            /\ mem' = [mem EXCEPT ![p[1]] = p[2]]
            /\ image' = [image EXCEPT ![p[1]] = p[2]]
            /\ edited' = IF p[1] \in Breakpoints THEN edited \cup {p[1]} ELSE edited
    BY <1>5 DEF Edit
  <2>2. /\ at = "shell"
        /\ UNCHANGED <<break_addr, break_code, task_reg, task_stat, next_order,
                       bran_order, at, pc, ran>>
    BY <1>5 DEF Edit
  <2>3. p[1] \in Addr /\ p[2] \in Code
    OBVIOUS
  <2>4. TypeOK'
    BY <1>0, <2>1, <2>2, <2>3 DEF TypeOK
  <2>5. Buffer'
    <3>1. ASSUME NEW i \in Slot, break_addr[i] # Nowhere, break_addr[i] \notin edited'
          PROVE  break_addr[i] \notin edited /\ break_addr[i] # p[1]
      BY <1>0, <2>1, <3>1, BreakpointsType
    <3>2. ASSUME NEW i \in Slot, break_addr[i] # Nowhere, break_addr[i] \notin edited'
          PROVE  break_code[i] = image'[break_addr[i]]
      BY <1>0, <2>1, <3>1, <3>2 DEF Buffer, TypeOK
    <3>. QED  BY <1>0, <2>2, <3>2 DEF Buffer
  <2>6. Clean(mem, Addr)'
    BY <1>0, <2>1, <2>2, <2>3 DEF Traps, Clean, TypeOK
  <2>7. Modes' /\ Traps'
    BY <1>0, <2>2, <2>6 DEF Modes, Traps, Away, Steps
  <2>. QED  BY <2>4, <2>5, <2>7 DEF IInv
<1>6. CASE prepare_breakpoints
  <2>1. /\ at = "prepare" /\ at' = "leave" /\ mem' = WithTraps(mem)
        /\ UNCHANGED <<break_addr, break_code, task_reg, task_stat, next_order,
                       bran_order, pc, image, edited, ran>>
    BY <1>6 DEF prepare_breakpoints, ghost
  <2>2. task_stat = "EXEC" /\ Clean(mem, Addr)
    BY <1>0, <2>1 DEF Modes, Traps
  <2>3. /\ mem' \in [Addr -> Code \cup {BREAK}]
        /\ \A a \in Addr : mem'[a] = IF a \in Breakpoints THEN BREAK ELSE mem[a]
    BY <1>0, <2>1 DEF WithTraps, TypeOK
  <2>4. TypeOK' /\ Buffer' /\ Modes'
    BY <1>0, <2>1, <2>2, <2>3 DEF TypeOK, Buffer, Modes, Steps, Place
  <2>5. Breakpoints' = Breakpoints /\ Breakpoints \subseteq Addr
    BY <1>0, <2>1, BreakpointsType DEF Breakpoints
  <2>6. Clean(mem, Addr \ Breakpoints)' /\ \A a \in Breakpoints' : mem'[a] = BREAK
    BY <2>1, <2>2, <2>3, <2>5 DEF Clean
  <2>7. Traps'
    BY <2>1, <2>2, <2>6 DEF Traps, Away, Steps
  <2>. QED  BY <2>4, <2>7 DEF IInv
<1>7. CASE exec
  <2>1. /\ at = "leave" /\ at' = "user" /\ pc' = task_reg /\ ran' = 0
        /\ UNCHANGED <<mem, break_addr, break_code, next_order, bran_order,
                       task_reg, task_stat, image, edited>>
    BY <1>7 DEF exec, traps, ghost
  <2>2. /\ task_reg \in Addr
        /\ task_stat \in {"EXEC", "ESTEP", "NEXEC"}
    BY <1>0, <2>1 DEF Modes
  <2>3. TypeOK'
    <3>1. pc' \in Addr /\ at' \in Place
      BY <2>1, <2>2 DEF Place
    <3>2. ran' \in 0 .. 2
      BY ONLY <2>1
    <3>. QED  BY <1>0, <2>1, <3>1, <3>2 DEF TypeOK
  <2>4. Buffer' /\ Modes'
    <3>1. Buffer'
      BY <1>0, <2>1 DEF Buffer
    <3>2. Modes'
      BY <2>1, <2>2 DEF Modes
    <3>. QED  BY <3>1, <3>2
  <2>5. Traps'
    BY <1>0, <2>1 DEF Traps, Away, Steps, Stepped, Clean, Breakpoints
  <2>. QED  BY <2>3, <2>4, <2>5 DEF IInv
<1>8. CASE UserRuns
  <2>1. /\ at = "user" /\ mem[pc] # BREAK /\ pc' \in {mem[pc][1], mem[pc][2]}
        /\ ran' = IF ran < 2 THEN ran + 1 ELSE ran
        /\ UNCHANGED <<mem, break_addr, break_code, next_order, bran_order,
                       task_reg, task_stat, at, image, edited>>
    BY <1>8 DEF UserRuns, traps, ghost
  <2>2. pc' \in Addr /\ ran' \in 0 .. 2
    <3>1. mem[pc] \in Code
      BY <1>0, <2>1 DEF TypeOK
    <3>2. mem[pc] \in Addr \X Addr
      BY <3>1
    <3>3. pc' \in Addr
      <4>1. PICK next \in Addr, bran \in Addr : mem[pc] = <<next, bran>>
        BY <3>2
      <4>. QED  BY <2>1, <4>1
    <3>4. ran' \in 0 .. 2
      <4>1. ran \in 0 .. 2 /\ ran' = IF ran < 2 THEN ran + 1 ELSE ran
        BY <1>0, <2>1 DEF TypeOK
      <4>. QED  BY ONLY <4>1
    <3>. QED  BY <3>3, <3>4
  <2>3. TypeOK' /\ Buffer' /\ Modes'
    BY <1>0, <2>1, <2>2 DEF TypeOK, Buffer, Modes, Steps
  <2>4. Traps'
    BY <1>0, <2>1 DEF Traps, Away, Steps, Stepped, Clean, Breakpoints
  <2>. QED  BY <2>3, <2>4 DEF IInv
<1>9. CASE trapa_break
  <2>1. /\ at = "user" /\ at' = "finish" /\ task_reg' = pc
        /\ UNCHANGED <<mem, break_addr, break_code, next_order, bran_order,
                       task_stat, pc, image, edited, ran>>
    BY <1>9 DEF trapa_break, traps, ghost
  <2>2. TypeOK' /\ Buffer' /\ Modes'
    BY <1>0, <2>1 DEF TypeOK, Buffer, Modes, Steps, Place
  <2>3. Traps'
    BY <1>0, <2>1 DEF Traps, Away, Steps, Stepped, Clean, Breakpoints
  <2>. QED  BY <2>2, <2>3 DEF IInv
<1>10. CASE break_task
  <2>1. /\ task_stat = "EXEC" /\ task_stat' = "ABREAK" /\ at' = "finish"
        /\ task_reg' \in {pc, Monitor}
        /\ UNCHANGED <<mem, break_addr, break_code, next_order, bran_order,
                       pc, image, edited, ran>>
    BY <1>10 DEF break_task, Interrupted, traps, ghost
  <2>2. TypeOK' /\ Buffer' /\ Modes'
    BY <1>0, <2>1 DEF TypeOK, Buffer, Modes, Steps, Place, Status
  <2>3. Clean(mem, Addr \ Breakpoints)
    BY <1>0, <2>1 DEF Traps, Away, Steps, Modes, Clean, TypeOK, Place
  <2>4. Traps'
    BY <2>1, <2>3 DEF Traps, Away, Steps, Clean, Breakpoints
  <2>. QED  BY <2>2, <2>4 DEF IInv
<1>11. CASE finish_breakpoints
  <2>1. /\ at = "finish"
        /\ mem' = IF Steps THEN StepUndone(WithoutTraps(mem)) ELSE WithoutTraps(mem)
        /\ at' \in {"prepare", "shell"}
        /\ at' = "prepare" => Steps /\ task_stat' = "EXEC"
        /\ at' = "shell" => task_stat' \in {"ASTEP", "ABREAK"}
        /\ UNCHANGED <<break_addr, break_code, task_reg, next_order, bran_order,
                       pc, image, edited, ran>>
    BY <1>11 DEF finish_breakpoints, StatusAfter, Steps, ghost
  <2>2. mem' \in [Addr -> Code \cup {BREAK}] /\ Clean(mem', Addr)
    <3>1. CASE Steps
      <4>. DEFINE part == {a \in Addr : a \in Rom \/ a \notin Stepped}
      <4>1. /\ WithoutTraps(mem) \in [Addr -> Code \cup {BREAK}]
            /\ Clean(WithoutTraps(mem), part \cup Breakpoints)
        BY <1>0, <2>1, <3>1, WithoutTrapsClean DEF Traps, Away
      <4>2. Clean(WithoutTraps(mem), part)
        BY <4>1 DEF Clean
      <4>. QED  BY <1>0, <2>1, <3>1, <4>1, <4>2, StepUndoneClean DEF Traps, Away
    <3>2. CASE ~Steps
      <4>1. Clean(mem, Addr \ Breakpoints)
        BY <1>0, <2>1, <3>2 DEF Traps, Away
      <4>2. /\ WithoutTraps(mem) \in [Addr -> Code \cup {BREAK}]
            /\ Clean(WithoutTraps(mem), (Addr \ Breakpoints) \cup Breakpoints)
        BY <1>0, <4>1, WithoutTrapsClean
      <4>. QED  BY <2>1, <3>2, <4>2 DEF Clean
    <3>. QED  BY <3>1, <3>2
  <2>3. Clean(mem, Addr)'
    BY <2>1, <2>2 DEF Clean
  <2>4. TypeOK' /\ Buffer' /\ Modes'
    BY <1>0, <2>1, <2>2 DEF TypeOK, Buffer, Modes, Steps, Place, Status
  <2>5. Traps'
    BY <2>1, <2>3 DEF Traps, Away
  <2>. QED  BY <2>4, <2>5 DEF IInv
<1>12. CASE UNCHANGED vars
  <2>. USE <1>12 DEF vars
  <2>1. TypeOK' /\ Buffer' /\ Modes'
    BY <1>0 DEF TypeOK, Buffer, Modes, Steps
  <2>2. Traps'
    BY <1>0 DEF Traps, Away, Steps, Stepped, Clean, Breakpoints
  <2>. QED  BY <2>1, <2>2 DEF IInv
<1>. QED
  BY <1>1, <1>2, <1>3, <1>4, <1>5, <1>6, <1>7, <1>8, <1>9, <1>10, <1>11, <1>12
  DEF Next, Commands, MonitorRuns, ProgramRuns

(* Every variable of the debugger keeps its type.                          *)
THEOREM TypeCorrect == Spec => []TypeOK
<1>1. IInv => TypeOK
  BY DEF IInv
<1>. QED  BY <1>1, InitIInv, NextIInv, PTL DEF Spec

(* task.h:66: the shell never shows a trap of the debugger's own, and the  *)
(* program it shows is the one that was loaded.                            *)
THEOREM ProgramIsKept == Spec => []CodeIntact
<1>1. IInv => CodeIntact
  BY DEF IInv, Traps, Clean, CodeIntact
<1>. QED  BY <1>1, InitIInv, NextIInv, PTL DEF Spec

(* task.c:97: a program that runs freely has a trap at each breakpoint.    *)
THEOREM NoBreakpointIsMissed == Spec => []BreakpointsArmed
<1>1. IInv => BreakpointsArmed
  BY DEF IInv, Traps, BreakpointsArmed
<1>. QED  BY <1>1, InitIInv, NextIInv, PTL DEF Spec

-----------------------------------------------------------------------------
(* While a step is under way its instruction is the program's own and both *)
(* places it can go to have a trap.                                        *)
Prepared == /\ mem[task_reg] = <<next_order.addr, bran_order.addr>>
            /\ \A a \in Stepped : mem[a] = BREAK

Stepping ==
    /\ at \in {"leave", "user"} /\ Steps /\ Trappable => Prepared
    /\ at = "user" /\ Steps /\ Trappable =>
            \/ pc = task_reg /\ ran = 0
            \/ pc \in Stepped /\ ran = 1

LEMMA StepPrepared ==
    ASSUME IInv, at = "shell", NEW a \in Addr, task_reg' = a, PrepareTrap(a), Trappable'
    PROVE  Prepared'
<1>. DEFINE next == mem[a][1]
            bran == mem[a][2]
            first == Poked(mem, next, BREAK)
<1>1. Clean(mem, Addr) /\ mem \in [Addr -> Code \cup {BREAK}]
  BY DEF IInv, Traps, TypeOK
<1>2. next \in Addr /\ bran \in Addr /\ mem[a] = <<next, bran>>
  <2>1. mem[a] \in Addr \X Addr  BY <1>1 DEF Clean
  <2>. QED  BY <2>1
<1>3. /\ next_order'.addr = next /\ bran_order'.addr = bran
      /\ mem' = IF bran = next THEN first ELSE Poked(first, bran, BREAK)
  BY DEF PrepareTrap
<1>4. /\ first \in [Addr -> Code \cup {BREAK}]
      /\ \A b \in Addr : first[b] = IF b = next /\ next \notin Rom THEN BREAK ELSE mem[b]
  BY <1>1, <1>2, PokedType
<1>. HIDE DEF next, bran, first
<1>5. next \notin Rom /\ bran \notin Rom /\ a \notin {next, bran}
  BY <1>3 DEF Trappable
<1>6. \A b \in Addr : mem'[b] = IF b \in {next, bran} THEN BREAK ELSE mem[b]
  <2>1. CASE bran = next
    <3>1. mem' = first  BY <1>3, <2>1
    <3>. QED  BY <1>4, <1>5, <2>1, <3>1
  <2>2. CASE bran # next
    <3>1. \A b \in Addr : Poked(first, bran, BREAK)[b] =
                IF b = bran /\ bran \notin Rom THEN BREAK ELSE first[b]
      BY <1>2, <1>4 DEF Poked
    <3>2. mem' = Poked(first, bran, BREAK)  BY <1>3, <2>2
    <3>3. \A b \in Addr : first[b] = IF b = next THEN BREAK ELSE mem[b]
      BY <1>4, <1>5
    <3>4. \A b \in Addr : mem'[b] = IF b = bran THEN BREAK ELSE first[b]
      BY <1>5, <3>1, <3>2
    <3>. QED  BY <3>3, <3>4
  <2>. QED  BY <2>1, <2>2
<1>. QED  BY <1>2, <1>3, <1>5, <1>6 DEF Prepared, Stepped

LEMMA SteppingNext == IInv /\ Stepping /\ [Next]_vars => Stepping'
<1>. SUFFICES ASSUME IInv, Stepping, [Next]_vars PROVE Stepping'
  OBVIOUS
<1>1. CASE exec_usertask \/ step_exec_usertask
  <2>1. PICK a \in Addr :
            /\ task_reg' = a
            /\ at' = "prepare" \/ (at' = "leave" /\ PrepareTrap(a))
    BY <1>1 DEF exec_usertask, step_exec_usertask
  <2>2. at = "shell"  BY <1>1 DEF exec_usertask, step_exec_usertask
  <2>. QED  BY <2>1, <2>2, StepPrepared DEF Stepping
<1>2. CASE BreakSet \/ BreakDelete \/ Edit \/ prepare_breakpoints \/ finish_breakpoints
             \/ trapa_break \/ break_task
  <2>1. \/ at' \in {"shell", "finish", "prepare"}
        \/ at' = "leave" /\ task_stat' = "EXEC"
    BY <1>2 DEF BreakSet, BreakDelete, Edit, prepare_breakpoints, finish_breakpoints,
                trapa_break, break_task, IInv, Modes
  <2>. QED  BY <2>1 DEF Stepping, Steps
<1>3. CASE exec
  BY <1>3 DEF exec, traps, ghost, Stepping, Steps, Trappable, Prepared, Stepped
<1>4. CASE UserRuns
  <2>1. /\ at = "user" /\ at' = "user" /\ mem[pc] # BREAK /\ pc' \in {mem[pc][1], mem[pc][2]}
        /\ ran' = IF ran < 2 THEN ran + 1 ELSE ran
        /\ UNCHANGED <<mem, next_order, bran_order, task_reg, task_stat>>
    BY <1>4 DEF UserRuns, traps, ghost
  <2>2. ASSUME Steps, Trappable
        PROVE  pc' \in Stepped /\ ran' = 1 /\ Prepared
    <3>1. Prepared /\ ((pc = task_reg /\ ran = 0) \/ (pc \in Stepped /\ ran = 1))
      BY <2>1, <2>2 DEF Stepping
    <3>2. pc = task_reg /\ ran = 0  BY <2>1, <3>1 DEF Prepared
    <3>3. ran' = 1  BY ONLY <2>1, <3>2
    <3>. QED  BY <2>1, <3>1, <3>2, <3>3 DEF Prepared, Stepped
  <2>. QED  BY <2>1, <2>2 DEF Stepping, Steps, Trappable, Prepared, Stepped
<1>5. CASE UNCHANGED vars
  BY <1>5 DEF vars, Stepping, Steps, Trappable, Prepared, Stepped
<1>. QED
  BY <1>1, <1>2, <1>3, <1>4, <1>5 DEF Next, Commands, MonitorRuns, ProgramRuns

(* task.c:65-77: a step, the hidden one off a breakpoint included, runs    *)
(* one instruction of the program and then meets one of its traps.         *)
THEOREM StepsAreSingle == Spec => []StepRunsOne
<1>1. Init => Stepping  BY DEF Init, Stepping
<1>2. Stepping => StepRunsOne
  BY DEF Stepping, StepRunsOne, Trappable, Stepped
<1>. QED  BY <1>1, <1>2, InitIInv, NextIInv, SteppingNext, PTL DEF Spec
=============================================================================
