# Verification of obscuremicros

TLA+ models of the programs in this repository, model-checked with TLC and, for
the components where it matters most, proved with TLAPS. The models are
translated from the C (and VHDL) sources; each definition of `PROJECT.json`'s
`map` names the lines it stands for.

## 1. Inventory

The repository is a collection of small programs for small machines. What has
logic of its own:

| component | sources | state it keeps | operations | interacts with | hard because |
|---|---|---|---|---|---|
| YMODEM | `thirdparty/ymodem/ymodem.c` (adapted, linked into both flash writers and a host harness) | block number, write position, error count, session state | receive a session, send a file | a peer over a serial line, through `_getchar`/`_putchar` | damage, loss, repetition, timeouts on both sides, answers read late |
| Flash drivers | `generic/flash/{intel,atmel,cfi,jedec,common}.c` | the mode the chip was left in, `errno` | identify, erase, lock, program, poll | the chip, through `flash_write_byte`/`flash_read_byte` | command sequences, a chip that is busy, error bits, protected or stuck cells |
| Flash writers | `h8300-elf/flashwriter/main.c`, `arm-softfloat-eabi/lpc2294/flashwriter/main.c` | the image buffer | menu: load, write, read, erase, pattern, save | YMODEM and a flash driver | one step of several failing, a buffer left by a failed one |
| Tetris | `h8300-elf/handheldproject_tetris/{main,detection}.c` | two tables of the field, piece, counters, overflow flag | intro, fall, rest, clear lines, game over, move, turn | display and input, once per frame | long sequences of legal moves, boundaries of the playfield |
| Console | `h8300-elf/handheldproject/{display,input,audio,nvram,debugleds}.c` | frame buffers, dirty rows, ready/done flags, key latches | draw, refresh, scan keys | the timer interrupt against the main loop | an interrupt between any two statements |
| JJY decoder | `generic/JJY/jjy.c` | bit and mark counters, current and last time frame | sample, bit, mark, get time | a radio signal sampled by the caller | lost or spurious pulses, stale fields, calendar boundaries |
| m68k bus interface | `generic/m68ktestboardinterface/m68kinterface.c`, `hardware/m68kintglue/*.vhd` | bus state machine, pins, shift register | clock, read, write, interrupt | a 68000 bus master through shifted pins | ordering of pins and data, handshakes |
| LPC2294 skeleton and SLIP | `arm-softfloat-eabi/lpc2294/{skel,lwipslip}/*.c` | UART FIFO, timer ticks, RTC | print, read with timeout, interrupts | FIQ/IRQ against the main loop; lwIP | registers that change between two reads, FIFO limits |
| H8 skeleton | `h8300-elf/h8skel/*` | I/O registers | enable and disable chip selects, clock output, DRAM | programs | read-modify-write of shared registers |
| LANDISK LEDs | `sh-elf/leds-landisk/leds-landisk.c` | one LED register, registered devices | set, disk trigger, probe, remove, init, exit | Linux LED core | shared register, failure in the middle of registration |
| h8mon debugger | `thirdparty/h8mon/h8mon-0.90/{task.c,tasks.s,commands.c,stub.c}` | breakpoint table, saved originals, task state, user registers | go, step, break, edit, ^C, trap | the program under test, which it patches; the receive interrupt | traps written into code that is edited, stepped through and interrupted |
| h8mon network | `thirdparty/h8mon/h8mon-0.90/net/*.c` | ring of the controller, one frame buffer, one UDP context, ARP table, TFTP block number | poll, resolve, request, acknowledge, give up | a TFTP server over Ethernet; the shell, which polls it too | lost, repeated and overwritten frames, resources that are never given back |

Where the hard behaviour is, line by line, is the list `hazards` in
`PROJECT.json`; every component, the ones that are left out too, is under
`components`.

What would make each component correct:

* **YMODEM.** The receiver never writes outside the buffer lent to it, never
  reports more than the buffer holds, stores each block once and in order,
  reports a length only with the whole file, and gives up on a sender that has
  gone. The sender sends all of the file, tells the truth when it returns 0, and
  returns (it need not: section 4).
* **Flash drivers and writer.** The chip is ready and readable whenever no
  function is under way; what a function reports is how its own operation ended;
  a write reports every page that is not on the chip and no sound one; a load leaves
  nothing of an older image behind.
* **Tetris and console.** A piece stays on the field and comes to rest, complete
  lines go and nothing else does, a game starts clean; what is drawn is shown,
  and no frame draws over a picture that waits.
* **JJY.** An undamaged minute is decoded whatever came before it, the time is
  offered on the minute only, and its date is right.
* **m68k interface.** Every transaction is answered, and each word is accessed
  once, at its address.
* **LEDs.** An LED shows what it was last set to, and no LED stays registered
  without its driver.
* **h8mon debugger.** The shell finds the program that was loaded, without a
  trap; a running program meets every breakpoint; a step runs one instruction;
  the prompt comes back.
* **h8mon network.** What is at the load address is the file from its start,
  success means all of it, the UDP context is free again, a command returns.

## 2. Modules

| module | models | kind |
|---|---|---|
| `Ymodem` | packets, control characters and the two directions of a line | vocabulary |
| `YmodemReceiver` | `ymodem_receive()` with `receive_packet()` | component |
| `YmodemSender` | `ymodem_send()` with `send_data_packets()` | component |
| `HostSender`, `HostReceiver` | the terminal program at the other end (external) | environment |
| `FaultyLine` | a line that damages and loses (external) | environment |
| `YmodemAnySender` | the receiver on a line where anything may arrive; `YmodemDownload` is proved to implement it | open specification |
| `FileReception` | what a call of `ymodem_receive()` promises its caller | abstract specification |
| `YmodemDownload` | a board and a host on a faulty line, or a board and a stranger; implements `FileReception` | composition |
| `YmodemUpload` | a board that sends and a host on a faulty line | composition |
| `IntelFlash` | `generic/flash/intel.c` and its chip | component |
| `AtmelFlash` | `generic/flash/atmel.c` and its chip | component |
| `FlashWriter` | `h8300-elf/flashwriter/main.c` over `AtmelFlash` | composition |
| `TetrisField` | tables, collision test, removal of lines | operators |
| `TetrisFrames` | what a frame of each state does to the display | abstract specification |
| `Tetris` | the main loop, frame by frame; extends and implements `TetrisFrames` | component |
| `TetrisConsole` | the frames of `TetrisFrames` against the refresh interrupt | composition |
| `Jjy` | `jjy_addsample()`, `jjy_bit()`, `jjy_mark()` | component |
| `JjyCalendar` | `jjy_doytomonth()`, and what a date is | operators |
| `JjyReception` | the decoder and the station of `jjy_test.c` | composition |
| `M68kInterface` | `m68kint_clock()` and the bus of `testharness.c` | component |
| `LandiskLeds` | the LED module's life and its register | component |
| `H8Debugger` | breakpoints, steps and ^C of h8mon over the program under test | component |
| `H8Network` | ring, frame buffer, UDP context and ARP table of h8mon | component |
| `TftpServer` | the server a board boots from (external) | environment |
| `TftpGet` | the `tftpb` command on `H8Network`, with `TftpServer` and a faulty network | composition |
| `YmodemReceiverProofs` | theorems about `YmodemAnySender` and `YmodemDownload` | proofs |
| `YmodemUploadProofs` | theorems about `YmodemUpload` | proofs |
| `FlashProofs` | theorems about `IntelFlash`, `AtmelFlash` and `FlashWriter` | proofs |
| `TetrisProofs` | theorems about `Tetris` and `TetrisConsole` | proofs |
| `HardwareProofs` | theorems about `M68kInterface` and `LandiskLeds` | proofs |
| `JjyProofs` | theorems about `JjyReception` | proofs |
| `H8DebuggerProofs`, `TftpGetProofs` | theorems about the module they are named after | proofs |
| `MC*` | values for TLC | instances |

How state and actions correspond to the code:

* **YMODEM.** A packet is one token; what `receive_packet()` returns for it (a
  packet, 1 for damage, -1 for a timeout, 0 with length 0 or -1) is its kind.
  The variables of `YmodemReceiver` are the locals of `ymodem_receive()` under
  their own names; each action is one turn of its inner loop, reading, replying
  and the resets at the loop heads included. `buf` has one byte more than was
  lent, the canary. `RcvTimeout` may happen at any time, which also covers
  `_getchar()` of the H8 flash writer, whose counter starts from an unset
  variable (`main.c:30`). `YmodemSender` has one action per character that
  `ymodem_send()` waits for, with `at` for the place in the function.
* **Intel flash.** A function is a command and a return, with the step of the
  chip between them; `op` is the function under way. Error bits stay in `sr`
  until `intel_waitforwsm()` clears them, which is what `ReportsAgree` is about.
* **Atmel flash and writer.** The poll is modelled read by read, since the chip
  may become ready between two reads. `FlashWriter` adds the menu: one action
  per entry that changes something, and the page loop of `writebuffertochip()`
  in three. A YMODEM session is what `YmodemReceiver` shows that it may leave
  in the buffer: whole pages of each file in order, ended anywhere.
* **Tetris.** One step is one frame. A row of a table is a set of columns. The
  three ways in which the code reads a piece (tested, marked, drawn) are three
  operators, because they differ. `detectcollisionleft()` and `...right()` have
  no definition in the repository, so they answer anything.
* **Console.** `calls` is what is left of the frame's calls; the interrupt may
  come between any two of them and inside a drawing one.
* **JJY.** One step is one sample. `bits`, `marks` and the time fields are the
  statics of `jjy.c`. `Damages` and `Burst` say in which symbols samples may be
  misread and how many of a second: with two of ten a digit is lost or stays what
  it was, with three a one becomes a mark.
* **m68k.** One step is one call of `m68kint_clock()`, with the harness between
  calls. Pins are active low as in the code.
* **LEDs.** A read-modify-write is `Lock` and `Store`, so that two processors
  interleave inside it; calls that the LED core will make are a queue per
  processor. The module's thread goes through `init`, `probe`, `remove` and
  `exit` one registration at a time, each of which may fail.
* **Debugger.** An instruction is the pair that `calc_next_pc()` makes of it: the
  next address and the one it may branch to. `mem` is the user's memory with the
  traps in it; `image`, which no code has, is what the operator put there. `at`
  says what the processor runs: the shell, `exec_usertask()` before it writes the
  traps, the gap before the `rte` of `_exec()`, the program, or what follows a
  trap. `break_task` is the receive interrupt, possible wherever `task_stat` is
  `EXEC`, the gaps included. The GDB stub's `c`, `s`, `M` and `X` do what the
  shell's commands do and are the same actions.
* **Network.** A frame is what its bytes say to whoever looks at them: a block of
  TFTP with a number and a length, an error report, ping, ARP or something else;
  and whether it is for this board (`mine`). The controller takes all frames
  (`rtl8019as.c:266`), `proc_ip()` looks whom they are for, and `proc_tftpget()`
  takes what it finds in the buffer. `buf` is the only frame buffer, `data_len`
  the length of the last datagram for the board, which stays when another frame
  is read into the buffer before `receive_udp()` comes: the next block is stored
  with the number and owner of the frame that is there and the length that was
  announced (`Saved`). `inherited` remembers whether a datagram was waiting when
  the command was given, which `create_udp()` does not clear. `Disturbs` is the
  network, `ServerHears` and `ServerTimesOut` the server. `at` is the loop that
  polls the controller: the shell's, `wait_arp_reply()`'s or `tftp_get()`'s.

## 3. Runs

Twelve runs, one of which shows a violation; their instances are in the `.cfg`
files and `MC*` modules.

| run | what it asks | instance, and why it is enough |
|---|---|---|
| `Download` | memory safety of the receiver, `FileReception` is implemented, success under loss, the receiver gives up | a file of 3 blocks with a short tail, payloads of 1 and 2, buffer of 6, 2 block numbers so that they wrap; three lines: every damage but a forged EOT with timeouts at any moment; one that only spoils packets, 2 of them with `MAX_ERRORS` 3, so that one more would end the session; one where a stranger transmits up to 5 of 8 tokens, enough for a header, a full buffer and one block more |
| `DownloadTwoFiles` | *violation*: a length is returned without the data | two files, one noise on an answer and one lost packet |
| `Upload` | what arrives is the file; `ymodem_send()` returns or repeats its header; one damaged packet is survived | 6 blocks, block numbers modulo 3, 0 to 2 stale requests in the UART, three lines with up to 4 faults |
| `IntelFlash` | reports are true, array readable, functions return | 2 blocks of 2 bytes (one word), each operation ending in any of the chip's ways |
| `FlashWriter` | pages that are not on the chip are reported, no others; load leaves nothing over; writes return | 2 pages, one of them worn, two images, two files a session, contents with either toggle bit |
| `Tetris` | the piece on its field, lines, refinement of `TetrisFrames`, a piece comes to rest | field of 4 by 3: the width of the largest piece and one more, all rotations; the drop counter shortened to 4. Fields of other heights are left to the proof (`CompleteLinesGo`) |
| `TetrisConsole` | frames and interrupt | no bounds: 107 states |
| `JjyReception` | decoding under damage, dates, when a time is offered | two sequences of minutes (into and out of a call sign minute, over the new year) with up to 2 samples misread, of one second or of two; one minute of each of the 731 days of a common and a leap year |
| `M68k` | every word transaction is answered in time and makes one access | 2 addresses, 2 words, the code's own counts of 100 and 10 |
| `Leds` | the register under two processors, the life of the module | both products, 4 LEDs instead of 8 on a USL_5P (the trigger touches bits 2 and 3), two processors and the module's thread |
| `Debugger` | the program is kept, breakpoints hold, a step is a step, the prompt returns | 4 addresses: a loop, a conditional branch, a branch to itself and a call into ROM, so that a step's two traps and a breakpoint coincide in every way; 2 entries for breakpoints, one patch the operator may write |
| `Tftp` | the file in order, success, the UDP context, what the server believes, the command returns, lost data is made up for | 2 blocks, of which the last is short, 2 transfers, a ring of 2 frames (one is lost as soon as two wait), an ARP table of 2 for 3 machines; five networks: everything at any time, twice; noise and ^C with a second command; strangers that fill the ARP table; two frames of another board's transfer (an error, or a block 1 to 3, one more than the file has); one that only spoils data |

`TypeOK` is stated in every module. It holds in the same instances when the name
is added to the `INVARIANTS` of the `.cfg`, and is kept out of the runs to leave
those to the properties a reader would doubt; for six components it is proved.

Deadlock is checked except where the system stops: a YMODEM call that has
returned, a menu that was left, a broadcast that is over.

**Fairness.** `Download` and `Upload`: weak fairness of each program's reading
(both run) and of `_getchar()` returning without a character, which its loop
counts do (`h8300-elf/flashwriter/main.c:28-44`). The host's timer in `Upload` is
weakly fair: it starts again with every packet, and the board's `_getchar()`
ends far sooner, so that a board that keeps sending keeps the host from timing
out. Only while the host has no header is its timer strongly fair: there it asks
at intervals of its own, and the greeting the board repeats is no packet. Damage
has no fairness. `IntelFlash` and `FlashWriter`: the driver's code
runs, and the chip ends what it does, as `while` loops without a bound take for
granted (`intel.c:54`, `atmel.c:57`). `Tetris`: the timer never stops, so there
is always another frame; the player's choices have no fairness. `TetrisConsole`:
timer and main loop both keep running. `Debugger`: monitor and program run, and
the operator keeps pressing ^C, without which a program that loops keeps the
processor. `Tftp`: board and server run, and the timers of both run out, which
they do by counting.

**What the runs say of successes.** `EventuallyReceived`, `EventuallyUploaded` and
`FileArrives` carry their conditions: a line that only spoils packets, at most so
many faults, and peers whose timeouts outlast what is under way. Without them the
code does not keep the promise: a repeated packet
whose ACK was lost is answered NAK for ever (`ymodem.c:256`), between files the
receiver asks for ever (`ymodem.c:328`), and a repeated TFTP block is not
acknowledged again (`tftpget.c:99`). `ReturnsOrRepeatsHeader` does not say that
`ymodem_send()` returns, for it need not: when the `C` behind the ACK of the
header is damaged or the ACK comes alone, header and ACK may follow each other
for ever (`ymodem.c:475-507`), with a host that is served before its timer ends
each time. The property is that this is the only such loop, under conditions of
its own (no answer is lost altogether, neither side gives up on what is under
way). `LoadedIsPrefix` and `SuccessIsWhole` are about commands on a network where
nobody else's TFTP is overheard, given when no datagram waits (`Alone`).
`PromptReturns` excludes a step into ROM, where no trap can be written.

## 4. Findings and deviations met

One run shows the program doing other than its text says (`findings`):

* `DownloadTwoFiles`: in a session of two files one damaged answer and one lost
  packet make `ymodem_receive()` return the length of a file whose data it has
  not stored ("Returns the length of the file received", `ymodem.c:213`).

Others that reading and modelling brought up, without a run of their own; where
a property would be violated by them, it says so and excludes them:

* `ymodem.c:477-481` says that after the ACK of the header the transfer begins with
  "a "C" or NAK" of the receiver, but only `C` begins it: a host whose `C` was
  lost and that asks with NAK gets the header again, and nothing counts how often
  (`ymodem.c:475-507`). `ReturnsOrRepeatsHeader` allows for this loop.
* "Handle leap years" (`jjy.c:42`) adds the leap day after month 2, counted from 0,
  which is March. 29 February is served as 1 March, each day of March as the next,
  31 March as the 0th of April; from 1 April the dates are right again.
  `DateIsRight` leaves out these 32 days (`LeapGap`) and no others, and
  `LeapGapIsWrong` proves that the date is wrong on each of them.
* There is one frame buffer for everybody ("a buffer is needed for each UDP
  context", `udp.c:171`), and the controller takes the frames of other machines. A
  block of another board's transfer that is read between the datagram and
  `receive_udp()`, and has the number that is due, is stored and acknowledged as
  one of the file (`tftpget.c:86-120`); an error report for another board ends the
  command. `LoadedIsPrefix` leaves such networks out (`Alone`): with `IsPrefix` in
  its place TLC finds the block of the other file in the network that `Tftp` has for
  this. The same way a datagram that waited when a command was given (two commands
  ended by ^C and `ipaddr` before it) lends its length to a block that was read
  while no context was in use.
* `tftp_get()` reports a timeout by `rt`, which still is what sending the request
  returned when the server says nothing (`tftpget.c:177`, `:203`): the board then
  starts what was in memory before. `SuccessIsWhole` allows for it.
* ^C, and a server that does not answer ARP, leave the only UDP context in use
  (`tftpget.c:156`, `:169`): no later transfer works until `ipaddr` is given.
  `ContextComesBack` names these two. The test of `cgetc()` there is the wrong
  way round and reads an unset variable (`tftpget.c:166`).
* A step writes its traps without looking whether they were written
  (`task.c:71`): a step into ROM runs on, and ^C is not taken while stepping.
* An edit of memory under a breakpoint is undone at the next stop
  (`task.c:168`); the model keeps such addresses in `edited`.
* ^C between `_exec_mon()` and the `rte` of `_exec()` saves a program counter of
  the monitor as the user's (`task.c:42`).
* `ymodem_send()` greets with `C` (`ymodem.c:471`), which `ymodem_receive()`
  takes for an abort: the two cannot talk to each other.
* Its loop that should flush the FIFO removes one character (`ymodem.c:466`).
* Tetris never tests row 0 of the field (`detection.c:37`): a piece falls from
  row 1 into occupied cells. At the top the canary row is tested as part of the
  field, and ends a new game at once when the last one left the piece in an odd
  column. A piece is tested, marked and drawn as three different shapes.
* The JJY decoder offers a minute that lacks bits as the time; they are only
  printed (`jjy.c:52`).
* `m68kint_clock()` asserts DTACK from reset until the first transaction is
  over (`pinsout` is zero, and pushed), and acknowledges byte transactions
  without serving them (`m68kinterface.c:92-103`).
* The LED module leaves its trigger registered when its initialisation fails
  after that, and its platform device when it is unloaded, so that it cannot be
  loaded again (`leds-landisk.c:236-259`; the model shows it as a module that
  fails to load).
* The check of the product for the trigger `disk` is commented out
  (`leds-landisk.c:191-199`): given to an LED of a USL_5P it writes over LEDs 2
  and 3. `LedsShowWhatWasSet` claims nothing of these two from then until they are
  set again (`last`).
* `i + 2` in `intel_writeblockaswords()` moves nothing, and both block writes
  end at the first success.

## 5. Proofs

TLAPS proves the following for every value of the constants that satisfies the
modules' named assumptions.

| module | theorem | says |
|---|---|---|
| `YmodemReceiverProofs` | `TypeCorrect`, `CanarySafe`, `ReportSafe`, `CountAgrees`, `ErrorsBounded`, `BytesStay` | over the open specification `YmodemAnySender`: types, no write behind the buffer, no length beyond it, position and packet count agree, the error budget, stored bytes stay |
| | `DownloadType`, `DownloadSafe` | a download is an execution of `YmodemAnySender`, so that all of the above holds of it |
| | `FileIsDelivered`, `ReportMeansWhole` | a download of one file implements `FileReception`; a length that is reported is that of the file, and the file is there |
| `YmodemUploadProofs` | `HostHasThePrefix`, `NoBlockIsSkipped`, `ZeroIsHonest` | what the host has is a prefix of the file, and all of it after a good end; sender and host never differ by more than the block under way; a return of 0 means that nothing was sent |
| `TetrisProofs` | `TypeCorrect`, `PieceStaysOnField`, `GamesStartClean`, `IntroFieldIsEmpty`, `ImplementsFrames` | types; column bound, clean start, empty field, refinement of `TetrisFrames` |
| | `CompleteLinesGo` | for a field of every height the nested loops of `detectcompletelines()` take the complete lines away and bring every other down, in order and with its picture, until no row is free below it |
| | `NoFrameIsSkipped`, `IntroIsNotTorn` | no frame begins while the picture of the last one waits; the interrupt copies a half drawn picture only in the game and at its end |
| `FlashProofs` | `IntelTypeCorrect`, `ReportsAreTrue`, `AlwaysReadable`, `ErrnoIsReason` | Intel chip: types, true reports, readable array, reason of a failed erase |
| | `PollWaits`, `WritesAreTrue`, `ReportsAreJustified`, `LoadsStartClean` | Atmel chip and writer: the poll outlasts the chip, a write leaves no bad page unreported and names no sound one, a load holds nothing of an older image |
| `JjyProofs` | `TypeCorrect`, `CleanMinutesAreDecoded`, `DatesAreServed`, `LeapGapIsWrong`, `NoTimeIsStale` | types; an undamaged minute is decoded as it was sent; its date is that of the day, on every day of a common year and on those up to 28 February and from 1 April of a leap year; on the 32 days between it never is; a time is offered with the last sample of a minute only |
| `HardwareProofs` | `BusTypeCorrect`, `EveryWordOnce` | m68k: types; one access per word, answered in time |
| | `TypeCorrect`, `NoSettingIsLost`, `EveryLedIsTakenBack` | LEDs: types; an LED shows what it was set to; no LED outlives its driver |
| `H8DebuggerProofs` | `TypeCorrect`, `ProgramIsKept`, `NoBreakpointIsMissed`, `StepsAreSingle` | types; the program is what was loaded; breakpoints hold; a step runs one instruction |
| `TftpGetProofs` | `TypeCorrect`, `LoadIsInOrder`, `NoHalfProgramStarts`, `ContextIsFreed`, `ServerIsNotMisled` | types; the file in order, each block with its content and length, and success is nothing or all, both where no one else's TFTP is overheard and no datagram waited for the command; on every network the context is freed, and no transfer looks complete to the server that the board does not have |

*YMODEM, receiver.* The properties are not inductive. `CanaryIntact` needs that `buf_ptr`
stays within the buffer (`Position`), which needs that it is 0 whenever a header
is expected; a reported size needs that a size too large was never followed by
success (`Report`), for `size` is assigned before it is compared; the error
budget needs that `errno` is clear while the call runs (`Budget`). The
invariant is `AnyTypeOK` with these three; `CountAgrees` adds itself to it. The
assumptions are that a short packet is shorter than a long one, that
buffer, limit and line hold something, and that the canary is no byte a packet
can carry.

*YMODEM, download.* `HostStep` and `DamageType` show that whatever host and wire
do leaves tokens on the line, so that every step of a download is one of
`YmodemAnySender` (`ImplementsAnySender`). The refinement needs the whole
composition. `Served` has three parts. `Progress`: up to where the receiver
stands the buffer has the bytes of the file, and `size` is its length. `Behind`:
everything on the line is old or fresh, and what is ahead of something that is
not fresh is old. *Fresh* is the one token that would bring the receiver forward
(`Current`), *old* is what it answers without moving: the block before, which has
the neighbouring number, and an EOT after the end; damage is both.
`Situation`: the ten pairs of what the host believes and how far the receiver
really is. When the host is one behind (`HeaderIn`, `BlockIn`, `EotIn`), all that
is on the line is old and at most one ACK is on its way; when it is level, none
is. The line is a queue, so a token that is taken has only fresh ones behind it
(`TailBehind`), and they become old by being overtaken (`Overtaken`). TLC checked
the same invariant on `Download.cfg` before it was proved.

Two hypotheses (`Sole`) are needed. One file in the session: with two, an ACK of
a repeated EOT is taken for that of the next header, which is the finding of
`DownloadTwoFiles`. And no packet turns into an EOT on the line: TLC shows a
forged EOT ending the file after its header, and `ymodem_receive()` has nothing
to tell it by (`ymodem.c:249`). Neither retries, nor timeouts, nor the number of
faults are bounded.

*YMODEM, upload.* `Inv` is a disjunction of six phases: nobody has answered yet
(`Greeting`), the header is sent (`Announcing`), the host has it (`Announced`),
the sender gave up before any data (`Refused`), a block and its answer (`InStep`:
one thing is under way at a time, an ACK only if the host has the block), and all
of the file is with the host (`Complete`). The hypothesis (`Punctual`) is a host
that answers in its own time, which is what keeps one thing under way; no packet
that turns into an EOT; and at most two stale characters in the board's UART when
it starts. Two is what the code can deal with: the FIFO is not flushed but read
once (`ymodem.c:466`), one more is taken as the answer to the greeting, and with a
third TLC finds a block counted as sent that the host has not stored.

*Tetris.* `Control` (state, rotation, column in range), the column bound, that
no game runs with an overflow left over, and that the intro's field is empty
hold together: the field is only empty in the intro because no game begins with
`hasoverflown`. `ImplementsFrames` maps each step to a step of `TetrisFrames`
under that invariant, so that what `TetrisConsole` shows holds of this program.

`CompleteLinesGo` is a proof about two nested loops. What is lost or mixed up
nowhere is one statement about every step of the inner loop: the rows of the
result are those at the start, each brought to a place of its own in the same
order (`Follows`, `RowFollows`). That Height sweeps are enough is another: after
i of them nothing below row i is free that has anything above it (`Settled`),
because the sweep that goes down meets the lowest of the rows above i and takes
it along all the way (`Coming`, `RowSettles`). Both are carried through the
loops by induction over the numbers of steps and of sweeps. The library's
theorem of that name takes an operator, which the provers cannot instantiate;
`SetInduction` says the same of a set of numbers, from the theorem that a
well-founded relation has minimal elements. The two recursive functions that
stand for the loops are shown to have values in the same way (`SweepDefined`,
`SinkDefined`).

*Console.* A frame makes its picture ready in its last call, unless it draws or
shows twice, which only frames of the game and the one that ends it do
(`FrameCalls`); `ConsoleInv` says which calls may be left in which of the two
cases, and that before the ready flag nothing waits.

*Intel flash.* `Idle` says that between calls the status is clear and the array
readable, `Clean` that while a function runs the error bits are those of its own
outcome. Reports follow, because the checks read those bits.

*Flash writer.* `Polls` says that a busy chip is about to show the bit the last
read did not show, so that two equal reads mean a ready chip. `Written` says
which pages are on the chip while a write runs; `Alarm` that only worn pages
have been named, unless the chip is protected.

*JJY.* The proof has two halves. The first is about what `sendtime()` sends, and
knows nothing of the decoder: a run of symbols `Spells` a number if each is a
binary digit of it, putting runs behind each other shifts and adds (`Joined`), and
so every block spells a number, two decimal digits five bits apart in most of
them (`BlocksSpell`); `SignalReads` then gives the symbol of each of the sixty
seconds as a digit of one of six numbers. The second is an invariant with one
part per time scale. `Second`: the counts are those of the samples sent, but for
the ones misread. `Minute`: the number of marks is that of the second, damaged
or not, and `alt` is clear when a minute begins. `Block`: in a minute undamaged so
far, `bits` is the number of the block without the digits still to come. `Fields`:
what the blocks before it said is in the fields, and `alt` is true of this minute.
`Decoded` takes that over into the next minute. The dates are a matter of two
recursive functions of twelve values, which are unfolded (`DaysBeforeIs`,
`OrdinalIs`): the loop of `jjy_doytomonth()` stops at the first month that ends
behind the day (`MonthFound`), where the ends of the months are those the code
has, the misplaced leap day included (`MonthEnds`). Compared with the calendar
that gives the right date outside `LeapGap` (`DatesAreRight`) and a wrong one on
each day of it (`DatesAreWrong`).

The hypothesis (`Readable`) is that no mark is misread and at most two samples of
a second are: otherwise a mark is lost, or a one becomes one, and from there on the
decoder counts marks from the wrong second for good, for nothing in `jjy.c` finds
the minute again (`synced` is true from the start and never cleared, `jjy.c:18`).

*m68k.* Between the harness's first clock and its last a transaction is in one of
four states: not started with DTACK high, DTACK low with nothing accessed,
served, and over. `Transaction` says so, with the count of clocks each takes
(0 to 3), which is why a patience of four clocks is assumed and enough; a
transaction without a strobe never leaves the first.

*LEDs.* `Holder`: whoever is inside the lock is alone, with the register as it
is. `Typed`: a job changes its LED's bit only, or the two bits of the disk, of
whose LEDs nothing is remembered afterwards. `Known`: the
processors' jobs are about registered LEDs, so that nobody is inside when the
module is loaded again and rewrites the register without the lock
(`NobodyInside`). `Registered` says which LEDs are registered at each place of the
module's thread; `Fresh` that those to come are untouched.

*Debugger.* `Buffer` says that the entries are about different addresses of RAM
and hold what was there, `Modes` what each place of the processor says of
`task_stat`, `Traps` where traps may be in each place and what was saved of the
code under them. That a step saves its second original after writing its first
trap is harmless because the two addresses differ or the second is not used
(`PrepareTrap`), and that a stop writes back breakpoints before the step's
originals because the latter are what was there before. `Stepping` adds, for a
step, that its instruction is the program's own until the stop and both places it
can go to have a trap: the program counter is at the instruction, or at a trap
with one instruction run.

*TFTP.* Two invariants, the second on top of the first. `Buffered` is about the
frame buffer: where no one else's TFTP is overheard, every block in the ring and in
the buffer is one of the file for this board (`OwnFrames`), a transfer under way has
the context (`HasContext`), and the length in it is that of the block in the buffer
(`Matched`), because only another datagram replaces the one by a block, and that
sets the length too; the datagram that waited before the command is the exception.
`IInv` is about the command: the blocks are counted (`Numbered`, on every network),
they have the file's content and lengths, and while `rt` is still what sending the
request returned nothing is stored (`Fresh`). The hypothesis (`Alone`) is part of
`LoadedIsPrefix` and of `SuccessIsWhole`; TLC shows that it is needed (section 4).
The other two theorems do without it. `ServerIsNotMisled` counts: each acknowledgement of the last block that is under
way, or that the server has seen, was sent by a command of its own that stored
the file (`Ledger`): there are never more of them than loads completed.

**Model-checked only.** Liveness alone (fairness and `ENABLED` are beyond the
prover): every safety property of a passing run has a theorem. `TearsOnlyInGame`
and `AcknowledgedBytesStay` are the other way round: they are proved, and left
out of the runs.

## 6. Not modelled

The characters of the YMODEM filename block and the bits of the CRC;
`atmel_identify()`, the CFI and JEDEC identification; the ARM flash writer, whose
loop never reaches its flash part; audio, NVRAM and debug LEDs; the LPC2294
skeleton and SLIP; the H8 register helpers; the VHDL glue; `bk2421`, `formats`,
the z80 tree and the I2C, ADC, CAN, PWM and SPI files, which hold no logic yet.
Stores behind `checktable` and `playfield` change memory the Tetris model does
not have, so nothing is claimed of what they destroy. In h8mon: which bytes an
instruction has, the registers other than the program counter, the characters
and checksums of the GDB remote protocol, headers and checksums of the network,
command line editing, `elf.c`, and a TFTP block number beyond 16 bits.

Most of the repository's lines are not program logic of its own: the code pages
and the core of FatFs, of which `lwipslip/main.c` (`initfs()`, 43-73) reads
directories over a `diskio.c` of empty functions; C that a VHDL simulator
generated; `h8write`, `tinyprintf` and `itoa`, vendored tools and formatting.
They are listed under `components` with this reason. h8mon is vendored as well
and is modelled because it is a complete monitor whose debugger and network are
the most intricate state machines of the tree.

## 7. What could follow

1. The GDB remote protocol of `stub.c`: packets, checksums and the answers that
   are repeated when `-` comes back, over the line of `FaultyLine`.
2. `YmodemHeader`: the filename block (lengths at their limits, `str_to_u32`
   modulo 2^32).
3. `FlashWriter` over `FileReception` instead of its own pages.
4. `LpcClock` (registers read one by one across a carry) and `SlipReceive` (the
   interrupt and its buffer).
