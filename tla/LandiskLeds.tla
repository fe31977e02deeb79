---------------------------- MODULE LandiskLeds ----------------------------
(***************************************************************************)
(* The LED driver of leds-landisk.c: its life as a kernel module, and the  *)
(* LED register it shares with itself on several processors.  What the     *)
(* kernel's LED core and driver core do when they are called is external;  *)
(* every registration may fail.  A user may give the trigger "disk" to     *)
(* LEDs of either product: on a USL_5P it then writes over two of the      *)
(* eight LEDs.                                                             *)
(***************************************************************************)
EXTENDS Naturals, Sequences

CONSTANTS UslLeds,      \* how many LEDs a USL_5P has: 8 in the code
          Cpus,         \* callers of the LED core besides the module's own thread
          UserDisk      \* LEDs a user may give the trigger "disk" (a bound)

ASSUME Parameters == /\ UslLeds \in 2 .. 8 /\ UserDisk \subseteq 0 .. 1
                     /\ "module" \notin Cpus

Bits == 0 .. 7
Disk == {2, 3}                       \* 0x0c
Led == 0 .. UslLeds - 1
Threads == Cpus \cup {"module"}

VARIABLES landisk_product,           \* what the probe of the register finds
          PA_LED,                    \* the bits that are set in the register
          landisk_led_lock, tmp,     \* who is inside the lock, and what each has read
          todo,                      \* thread -> the calls into the driver it still makes
          leds, disk,                \* registered LEDs, and those with the trigger "disk"
          trigger, device, driver,   \* what else is registered with the kernel
          at, i, nr_leds,            \* where the module's thread is
          last                       \* LED -> what it was last set to, if nothing
                                     \* wrote over it since

register == <<PA_LED, landisk_led_lock, tmp, last>>
kernel == <<leds, disk, trigger, device, driver>>
vars == <<landisk_product, register, todo, kernel, at, i, nr_leds>>

----------------------------------------------------------------------------
(* Calls that change the register: read, change, write, under the lock.    *)

landisk_led_set(n, value) ==
    [led |-> n, to |-> IF value THEN "on" ELSE "off",
     clear |-> {n}, set |-> IF value THEN {n} ELSE {}]
landisk_disk_trig_activate(n) == [led |-> n, to |-> "disk", clear |-> Disk, set |-> {2}]
landisk_disk_trig_deactivate(n) == [led |-> n, to |-> "disk", clear |-> Disk, set |-> Disk]

\* What the LED core calls when it takes the trigger from an LED.
Detach(n) == <<landisk_disk_trig_deactivate(n), landisk_led_set(n, FALSE)>>

\* The trigger is taken from LED after LED, of the two that may have it.
led_trigger_unregister == (IF 0 \in disk THEN Detach(0) ELSE <<>>)
                          \o (IF 1 \in disk THEN Detach(1) ELSE <<>>)

Busy(t) == todo[t] # <<>>

\* A mistake: nobody looks who is inside.
LockX(t) ==
    /\ Busy(t) /\ t \notin landisk_led_lock
    /\ landisk_led_lock' = landisk_led_lock \cup {t} /\ tmp' = [tmp EXCEPT ![t] = PA_LED]
    /\ UNCHANGED <<PA_LED, last, todo, kernel, at, i, nr_leds>>

Lock(t) ==
    /\ Busy(t) /\ landisk_led_lock = {}
    /\ landisk_led_lock' = {t} /\ tmp' = [tmp EXCEPT ![t] = PA_LED]
    /\ UNCHANGED <<PA_LED, last, todo, kernel, at, i, nr_leds>>

Store(t) ==
    /\ t \in landisk_led_lock
    /\ LET job == Head(todo[t])
       IN  /\ PA_LED' = (tmp[t] \ job.clear) \cup job.set
           /\ last' = IF job.to = "disk"
                      THEN [n \in Led |-> IF n \in Disk THEN "unset" ELSE last[n]]
                      ELSE [last EXCEPT ![job.led] = job.to]
    /\ landisk_led_lock' = landisk_led_lock \ {t} /\ tmp' = [tmp EXCEPT ![t] = {}]
    /\ todo' = [todo EXCEPT ![t] = Tail(@)]
    /\ UNCHANGED <<kernel, at, i, nr_leds>>

----------------------------------------------------------------------------
(* The LED core on behalf of users and of other triggers.                  *)

Calls(t, jobs) == todo' = [todo EXCEPT ![t] = jobs]

Sets(c, n, value) ==
    /\ ~Busy(c) /\ n \in leds
    /\ Calls(c, <<landisk_led_set(n, value)>>)
    /\ UNCHANGED <<register, kernel, at, i, nr_leds>>

\* The driver no longer says which LEDs the trigger is for.
Attaches(c, n) ==
    /\ ~Busy(c) /\ trigger /\ n \in (leds \cap UserDisk) \ disk
    /\ disk' = disk \cup {n}
    /\ Calls(c, <<landisk_disk_trig_activate(n)>>)
    /\ UNCHANGED <<register, leds, trigger, device, driver, at, i, nr_leds>>

Detaches(c, n) ==
    /\ ~Busy(c) /\ n \in disk
    /\ disk' = disk \ {n}
    /\ Calls(c, Detach(n))
    /\ UNCHANGED <<register, leds, trigger, device, driver, at, i, nr_leds>>

----------------------------------------------------------------------------
(* landisk_led_init() and landisk_led_exit().                              *)

Nr == IF landisk_product = "LANDISK" THEN 2 ELSE UslLeds

At(place) == at = place /\ ~Busy("module")
Goes(place) == at' = place

\* The register is probed and rewritten without the lock.
Load ==
    /\ At("out") /\ Goes("trigger")
    /\ PA_LED' = PA_LED \cup IF landisk_product = "LANDISK" THEN 0 .. 2 ELSE 0 .. 1
    /\ last' = [n \in Led |-> "unset"]
    /\ UNCHANGED <<landisk_led_lock, tmp, todo, kernel, i, nr_leds>>

RegisterTrigger ==
    /\ At("trigger")
    /\ \/ ~trigger /\ trigger' = TRUE /\ Goes("device")
       \/ UNCHANGED trigger /\ Goes("out")
    /\ UNCHANGED <<register, todo, leds, disk, device, driver, i, nr_leds>>

RegisterDevice ==
    /\ At("device")
    /\ \/ ~device /\ device' = TRUE /\ Goes("driver")
       \/ UNCHANGED device /\ Goes("out")
    /\ UNCHANGED <<register, todo, leds, disk, trigger, driver, i, nr_leds>>

\* platform_driver_probe() takes the driver and calls landisk_led_probe().
RegisterDriver ==
    /\ At("driver")
    /\ \/ driver' = TRUE /\ Goes("probe") /\ UNCHANGED device
       \/ device' = FALSE /\ Goes("out") /\ UNCHANGED driver
    /\ i' = 0 /\ nr_leds' = Nr
    /\ UNCHANGED <<register, todo, leds, disk, trigger>>

\* The status LED of a LANDISK takes the trigger "disk" as it is registered.
RegisterLed ==
    /\ At("probe") /\ i < nr_leds
    /\ leds' = leds \cup {i} /\ i' = i + 1
    /\ IF landisk_product = "LANDISK" /\ i = 1
       THEN disk' = disk \cup {i} /\ Calls("module", <<landisk_disk_trig_activate(i)>>)
       ELSE UNCHANGED <<disk, todo>>
    /\ UNCHANGED <<register, trigger, device, driver, at, nr_leds>>

\* A mistake: i - 1 is taken from the i of the LED that failed.
LedFailsX ==
    /\ At("probe") /\ i < nr_leds /\ Goes("rollback")
    /\ nr_leds' = IF i > 0 THEN i - 1 ELSE 0
    /\ i' = 0
    /\ UNCHANGED <<register, todo, kernel>>

\* i has moved on when the failure is noticed, hence i - 1 in the code.
LedFails ==
    /\ At("probe") /\ i < nr_leds /\ Goes("rollback")
    /\ nr_leds' = i /\ i' = 0
    /\ UNCHANGED <<register, todo, kernel>>

Loaded ==
    /\ At("probe") /\ i = nr_leds /\ Goes("in")
    /\ UNCHANGED <<register, todo, kernel, i, nr_leds>>

\* The LED core waits for who is setting the LED before it lets it go.
led_classdev_unregister(n) ==
    /\ \A c \in Cpus : \A k \in DOMAIN todo[c] : todo[c][k].led # n
    /\ leds' = leds \ {n} /\ disk' = disk \ {n}
    /\ \/ n \in disk /\ Calls("module", Detach(n))
       \/ n \notin disk /\ \E jobs \in {<<>>, <<landisk_led_set(n, FALSE)>>} : Calls("module", jobs)

UnregisterLed ==
    /\ At("rollback") \/ At("remove")
    /\ i < nr_leds /\ i' = i + 1
    /\ led_classdev_unregister(i)
    /\ UNCHANGED <<register, trigger, device, driver, at, nr_leds>>

\* A failed probe takes driver and device with it; the trigger stays.
InitFails ==
    /\ At("rollback") /\ i = nr_leds /\ Goes("out")
    /\ driver' = FALSE /\ device' = FALSE
    /\ UNCHANGED <<register, todo, leds, disk, trigger, i, nr_leds>>

Exit ==
    /\ At("in") /\ Goes("remove")
    /\ \A c \in Cpus : \A k \in DOMAIN todo[c] : todo[c][k].to # "disk"
    /\ trigger' = FALSE /\ disk' = {}
    /\ Calls("module", led_trigger_unregister)
    /\ i' = 0 /\ nr_leds' = Nr
    /\ UNCHANGED <<register, leds, device, driver>>

\* The driver goes; the device that landisk_led_init() made stays.
Unloaded ==
    /\ At("remove") /\ i = nr_leds /\ Goes("out")
    /\ driver' = FALSE
    /\ UNCHANGED <<register, todo, leds, disk, trigger, device, i, nr_leds>>

----------------------------------------------------------------------------
Init ==
    /\ landisk_product \in {"LANDISK", "USL_5P"}
    /\ PA_LED \in {{}, Bits} /\ landisk_led_lock = {} /\ tmp = [t \in Threads |-> {}]
    /\ todo = [t \in Threads |-> <<>>]
    /\ leds = {} /\ disk = {} /\ trigger = FALSE /\ device = FALSE /\ driver = FALSE
    /\ at = "out" /\ i = 0 /\ nr_leds = 0
    /\ last = [n \in Led |-> "unset"]

Module == \/ Load \/ RegisterTrigger \/ RegisterDevice \/ RegisterDriver
          \/ RegisterLed \/ LedFails \/ Loaded \/ UnregisterLed \/ InitFails
          \/ Exit \/ Unloaded

Users(c) == \E n \in Led : Attaches(c, n) \/ Detaches(c, n) \/ \E value \in BOOLEAN : Sets(c, n, value)

Next ==
    /\ UNCHANGED landisk_product
    /\ \/ Module
       \/ \E t \in Threads : Lock(t) \/ Store(t)
       \/ \E c \in Cpus : Users(c)

Spec == Init /\ [][Next]_vars

----------------------------------------------------------------------------
(* Properties.                                                             *)

\* Types of the variables.
TypeOK ==
    /\ PA_LED \subseteq Bits /\ tmp \in [Threads -> SUBSET Bits]
    /\ landisk_led_lock \subseteq Threads
    /\ leds \subseteq Led /\ disk \subseteq leds
    /\ {trigger, device, driver} \subseteq BOOLEAN
    /\ at \in {"out", "trigger", "device", "driver", "probe", "rollback", "in", "remove"}
    /\ nr_leds \in 0 .. UslLeds /\ i \in 0 .. nr_leds
    /\ last \in [Led -> {"unset", "on", "off"}]

\* Whoever sets an LED, and whatever else is being set meanwhile, the LED shows
\* what it was last set to (the lock of landisk_led_set()), until it is set again
\* or, LEDs 2 and 3 of a USL_5P, the trigger "disk" writes over it.
LedsShowWhatWasSet ==
    \A n \in leds : last[n] # "unset" => (n \in PA_LED) = (last[n] = "on")

\* LEDs are registered only while the driver and its device are: a probe that
\* fails half way, and the exit, take back every LED that was registered.
NoLedIsLeftBehind == leds # {} => driver /\ device /\ at \in {"probe", "rollback", "in", "remove"}
=============================================================================
