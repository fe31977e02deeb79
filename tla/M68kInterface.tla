--------------------------- MODULE M68kInterface ---------------------------
(***************************************************************************)
(* The 68000 bus interface of m68kinterface.c, called once a clock, and    *)
(* the bus as testharness.c plays it.  The pins are active low, as in the  *)
(* code: TRUE is released.                                                 *)
(***************************************************************************)
EXTENDS Naturals, Sequences

CONSTANTS Addresses,     \* values of the address lines
          Words,         \* values of the data lines
          ResetCycles,   \* 100
          Patience       \* 10, the cycles runtransaction() waits

ASSUME Counts == ResetCycles \in Nat /\ Patience \in Nat /\ Patience > 3

VARIABLES state, range, address, cyclecounter,   \* the interface
          pinsout,                               \* what it will push next
          pins, dtack, data,                     \* the bus
          accesses,                              \* readword() and writeword() of this transaction
          phase, cycles, worked                  \* the harness

interface == <<state, range, address, cyclecounter, pinsout>>
harness == <<phase, cycles, worked>>
busvars == <<interface, pins, dtack, data, accesses, harness>>

Pins == [addressstrobe : BOOLEAN, readnotwrite : BOOLEAN, uds : BOOLEAN, lds : BOOLEAN,
         address : Addresses]

\* Strobes released: what resetstate() puts on the bus.
Released(p) == [p EXCEPT !.addressstrobe = TRUE, !.readnotwrite = TRUE, !.uds = TRUE, !.lds = TRUE]

----------------------------------------------------------------------------
(* m68kint_clock(), one action per state.                                  *)

pushpins == dtack' = pinsout'.dtack

InReset ==
    /\ state = "RESET"
    /\ cyclecounter' = cyclecounter + 1
    /\ LET over == cyclecounter + 1 > ResetCycles
       IN  /\ pinsout' = [pinsout EXCEPT !.reset = over, !.halt = over]
           /\ state' = IF over THEN "IDLE" ELSE "RESET"
    /\ pushpins
    /\ UNCHANGED <<range, address, pins, data, accesses>>

\* No strobe of the address, or none of the data: nothing is started.
Ignored == state = "IDLE" /\ (pins.addressstrobe \/ (pins.uds /\ pins.lds))

NotStarted == Ignored /\ UNCHANGED <<interface, pins, dtack, data, accesses>>

RangeOf(p) == IF ~p.uds /\ ~p.lds THEN "WORD"
              ELSE IF ~p.uds THEN "UPPERBYTE" ELSE "LOWERBYTE"

\* A mistake: the address lines are not read.
StartedX ==
    /\ state = "IDLE" /\ ~Ignored
    /\ range' = RangeOf(pins) /\ pinsout' = [pinsout EXCEPT !.dtack = FALSE] /\ pushpins
    /\ state' = IF pins.readnotwrite THEN "READ" ELSE "WRITE"
    /\ UNCHANGED <<address, cyclecounter, pins, data, accesses>>

\* DTACK goes low before the word is read or written.
Started ==
    /\ state = "IDLE" /\ ~Ignored
    /\ range' = RangeOf(pins)
    /\ pinsout' = [pinsout EXCEPT !.dtack = FALSE]
    /\ pushpins
    /\ address' = pins.address
    /\ state' = IF pins.readnotwrite THEN "READ" ELSE "WRITE"
    /\ UNCHANGED <<cyclecounter, pins, data, accesses>>

\* Only words are served; a byte is let through without an access.
Served(kind, word) ==
    /\ state = kind /\ state' = "ENDTRANSACTION"
    /\ IF range = "WORD"
       THEN /\ accesses' = Append(accesses, <<kind, address, word>>)
            /\ data' = word
       ELSE UNCHANGED <<accesses, data>>
    /\ UNCHANGED <<range, address, cyclecounter, pinsout, pins, dtack>>

Read == \E word \in Words : Served("READ", word)
Write == Served("WRITE", data)

Ended ==
    /\ state = "ENDTRANSACTION" /\ state' = "IDLE"
    /\ pinsout' = [pinsout EXCEPT !.dtack = TRUE]
    /\ pushpins
    /\ UNCHANGED <<range, address, cyclecounter, pins, data, accesses>>

m68kint_clock == InReset \/ NotStarted \/ Started \/ Read \/ Write \/ Ended

----------------------------------------------------------------------------
(* testharness.c: transactions one after the other, of any kind.           *)

\* After m68kint_reset(); pinsout is a static, all zero.
BusInit ==
    /\ state = "RESET" /\ cyclecounter = 0 /\ range = "WORD"
    /\ pinsout = [dtack |-> FALSE, reset |-> FALSE, halt |-> FALSE]
    /\ pins \in {Released(p) : p \in Pins} /\ address \in Addresses
    /\ dtack = TRUE /\ data \in Words /\ accesses = <<>>
    /\ phase = "reset" /\ cycles = 0 /\ worked = FALSE

Spin ==
    /\ phase = "reset"
    /\ m68kint_clock
    /\ phase' = IF state' = "RESET" THEN "reset" ELSE "free"
    /\ UNCHANGED <<cycles, worked>>

\* resetstate() raises DTACK by itself before it clocks the interface.
ResetState ==
    /\ phase = "free" /\ phase' = "settling"
    /\ pins' = Released(pins) /\ dtack' = TRUE /\ accesses' = <<>>
    /\ UNCHANGED <<interface, data, cycles, worked>>

Settle == phase = "settling" /\ m68kint_clock /\ phase' = "ready" /\ UNCHANGED <<cycles, worked>>

Start ==
    /\ phase = "ready" /\ phase' = "low" /\ cycles' = 0
    /\ pins' \in {p \in Pins : ~p.addressstrobe}
    /\ data' \in IF pins'.readnotwrite THEN {data} ELSE Words
    /\ UNCHANGED <<interface, dtack, accesses, worked>>

\* "wait for dtack to go low", then "wait while its low".
Waits == cycles < Patience /\ dtack = (phase = "low")

Wait ==
    /\ phase \in {"low", "high"} /\ Waits
    /\ m68kint_clock
    /\ cycles' = cycles + 1
    /\ UNCHANGED <<phase, worked>>

WentLow == phase = "low" /\ ~Waits /\ phase' = "high"
           /\ UNCHANGED <<interface, pins, dtack, data, accesses, cycles, worked>>

\* The address strobe is released once DTACK is up again, or patience is gone.
Finish ==
    /\ phase = "high" /\ ~Waits /\ phase' = "free"
    /\ pins' = [pins EXCEPT !.addressstrobe = TRUE]
    /\ worked' = (cycles # Patience)
    /\ UNCHANGED <<interface, dtack, data, accesses, cycles>>

BusNext == Spin \/ ResetState \/ Settle \/ Start \/ Wait \/ WentLow \/ Finish

BusSpec == BusInit /\ [][BusNext]_busvars

----------------------------------------------------------------------------
(* Properties.                                                             *)

\* Types of the interface's and the harness's variables.
BusTypeOK ==
    /\ state \in {"IDLE", "READ", "WRITE", "ENDTRANSACTION", "RESET"}
    /\ range \in {"WORD", "LOWERBYTE", "UPPERBYTE"}
    /\ address \in Addresses /\ cyclecounter \in 0 .. ResetCycles + 1
    /\ pinsout \in [dtack : BOOLEAN, reset : BOOLEAN, halt : BOOLEAN] /\ pins \in Pins
    /\ dtack \in BOOLEAN /\ data \in Words
    /\ phase \in {"reset", "free", "settling", "ready", "low", "high"}
    /\ cycles \in 0 .. Patience /\ worked \in BOOLEAN

\* A word transaction that is over was answered in time and made one access, of
\* its kind, at its address, and its word is what the bus holds.
OneAccess ==
    (phase = "free" /\ ~pins.uds /\ ~pins.lds) =>
        /\ worked
        /\ accesses = << <<IF pins.readnotwrite THEN "READ" ELSE "WRITE", pins.address, data>> >>
=============================================================================
