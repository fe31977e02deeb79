---------------------------- MODULE HardwareProofs ----------------------------
(***************************************************************************)
(* Two drivers of hardware, which share nothing.                           *)
(*                                                                         *)
(* The LED register and the life of the module, for any number of          *)
(* processors.  An LED shows what it was last set to because whoever is    *)
(* inside the lock holds the register as it is, and because a job changes  *)
(* no bit of a registered LED but its own or, if it is the disk's, those   *)
(* of which nothing is remembered afterwards.                              *)
(*                                                                         *)
(* The 68000 bus interface makes one access per word, for any addresses,   *)
(* words and patience.  Where a transaction is, is told by four states of  *)
(* the interface against the harness: not started, started with DTACK low, *)
(* served, and ended with DTACK high again.                                *)
(***************************************************************************)
EXTENDS LandiskLeds, M68kInterface, SequenceTheorems, TLAPS

Products == {"LANDISK", "USL_5P"}
Values == {"unset", "on", "off"}
Record == [led : Led, to : {"on", "off", "disk"}, clear : SUBSET Bits, set : SUBSET Bits]

(* What may wait to be done: an LED's own bit, or the disk's bits.         *)
Jobs ==
    {job \in Record :
        IF job.to = "disk"
        THEN job.clear = Disk /\ job.set \subseteq Disk
        ELSE job.clear = {job.led} /\ job.set = IF job.to = "on" THEN {job.led} ELSE {}}

Typed ==
    /\ landisk_product \in Products
    /\ todo \in [Threads -> Seq(Jobs)]

(* Whoever is inside the lock is alone there, with the register as it is.  *)
Holder ==
    \A t \in landisk_led_lock : landisk_led_lock = {t} /\ Busy(t) /\ tmp[t] = PA_LED

(* The processors set registered LEDs only.                                *)
Known == \A c \in Cpus : \A k \in DOMAIN todo[c] : todo[c][k].led \in leds

(* Which LEDs are registered at each place of the module's thread.         *)
Registered ==
    /\ at \in {"out", "trigger", "device", "driver"} => leds = {}
    /\ at = "probe" => nr_leds = Nr /\ leds = {n \in Led : n < i}
    /\ at \in {"rollback", "remove"} => leds = {n \in Led : i <= n /\ n < nr_leds}
    /\ at = "in" => leds = {n \in Led : n < Nr}
    /\ at = "driver" => device
    /\ at \in {"probe", "rollback", "in", "remove"} => driver /\ device
    /\ nr_leds <= Nr

(* While the module is loaded, LEDs to come are untouched.                 *)
Fresh ==
    /\ at \in {"trigger", "device", "driver", "probe"} =>
          \A n \in Led \ leds : last[n] = "unset"
    /\ at \in {"trigger", "device", "driver"} => todo["module"] = << >>
    /\ at = "probe" =>
          \A k \in DOMAIN todo["module"] : todo["module"][k].to = "disk"

Inv == /\ TypeOK /\ Typed /\ Holder /\ Known /\ Registered /\ Fresh
       /\ LedsShowWhatWasSet

-----------------------------------------------------------------------------
LEMMA NrRange == landisk_product \in Products => Nr \in 2 .. UslLeds
BY Parameters DEF Products, Nr

LEMMA SetIsJob ==
    ASSUME NEW n \in Led, NEW value \in BOOLEAN
    PROVE  landisk_led_set(n, value) \in Jobs
BY Parameters DEF landisk_led_set, Jobs, Record, Bits, Led

LEMMA DiskIsJob ==
    ASSUME NEW n \in Led
    PROVE  /\ landisk_disk_trig_activate(n) \in Jobs
           /\ landisk_disk_trig_deactivate(n) \in Jobs
BY DEF landisk_disk_trig_activate, landisk_disk_trig_deactivate, Jobs, Record, Bits, Disk

LEMMA DetachIsJobs ==
    ASSUME NEW n \in Led
    PROVE  Detach(n) \in Seq(Jobs)
<1>1. landisk_led_set(n, FALSE) \in Jobs  BY SetIsJob
<1>2. PICK a \in Jobs, b \in Jobs : Detach(n) = <<a, b>>
  BY <1>1, DiskIsJob DEF Detach
<1> QED  BY <1>2

(* The rest of a queue, element by element.                                *)
LEMMA Rest ==
    ASSUME NEW S, NEW s \in Seq(S), s # << >>
    PROVE  /\ Head(s) \in S /\ Tail(s) \in Seq(S)
           /\ 1 \in DOMAIN s /\ Head(s) = s[1]
           /\ \A k \in DOMAIN Tail(s) : k + 1 \in DOMAIN s /\ Tail(s)[k] = s[k + 1]
<1>1. /\ Head(s) \in S /\ Tail(s) \in Seq(S) /\ Len(Tail(s)) = Len(s) - 1
      /\ \A k \in 1 .. Len(Tail(s)) : Tail(s)[k] = s[k + 1]
  BY HeadTailProperties
<1>2. DOMAIN s = 1 .. Len(s) /\ DOMAIN Tail(s) = 1 .. Len(Tail(s)) /\ Len(s) \in Nat
  BY <1>1, LenProperties
<1>3. Len(s) # 0  BY EmptySeq
<1> QED  BY <1>1, <1>2, <1>3

LEMMA InitInv == Init => Inv
<1> SUFFICES ASSUME Init PROVE Inv  OBVIOUS
<1>1. Nr \in 2 .. UslLeds  BY NrRange DEF Init, Products
<1>2. TypeOK
  <2>1. /\ PA_LED \subseteq Bits /\ tmp \in [Threads -> SUBSET Bits]
        /\ last \in [Led -> Values]
    BY DEF Init, Values
  <2>2. nr_leds \in 0 .. UslLeds /\ i \in 0 .. nr_leds  BY Parameters DEF Init
  <2> QED  BY <2>1, <2>2 DEF Init, TypeOK, Values
<1>3. Typed  BY EmptySeq DEF Init, Typed, Products
<1>4. Holder /\ Known  BY DEF Init, Holder, Known, Threads
<1>5. Registered /\ Fresh /\ LedsShowWhatWasSet
  BY <1>1 DEF Init, Registered, Fresh, LedsShowWhatWasSet
<1> QED  BY <1>2, <1>3, <1>4, <1>5 DEF Inv

-----------------------------------------------------------------------------
(* Inside the lock.                                                        *)
LEMMA LockStep ==
    ASSUME Inv, landisk_product' = landisk_product, NEW t \in Threads, Lock(t)
    PROVE  Inv'
<1>1. TypeOK'  BY DEF Inv, TypeOK, Lock, kernel
<1>2. Typed'  BY DEF Inv, Typed, Lock, kernel
<1>3. Holder'
  <2>1. Busy(t)' /\ landisk_led_lock' = {t}  BY DEF Lock, Busy
  <2>2. tmp'[t] = PA_LED'  BY DEF Inv, TypeOK, Lock
  <2> QED  BY <2>1, <2>2 DEF Holder
<1>4. Known' /\ Registered' /\ Fresh'
  BY DEF Inv, Known, Registered, Fresh, Lock, kernel, Nr
<1>5. LedsShowWhatWasSet'
  BY DEF Inv, LedsShowWhatWasSet, Lock, kernel
<1> QED  BY <1>1, <1>2, <1>3, <1>4, <1>5 DEF Inv

LEMMA StoreStep ==
    ASSUME Inv, landisk_product' = landisk_product, NEW t \in Threads, Store(t)
    PROVE  Inv'
<1> DEFINE job == Head(todo[t])
<1>1. /\ landisk_led_lock = {t} /\ todo[t] # << >> /\ tmp[t] = PA_LED
  BY DEF Inv, Holder, Store, Busy
<1>2. todo[t] \in Seq(Jobs)  BY DEF Inv, Typed
<1>3. /\ job \in Jobs /\ Tail(todo[t]) \in Seq(Jobs)
      /\ 1 \in DOMAIN todo[t] /\ job = todo[t][1]
      /\ \A k \in DOMAIN Tail(todo[t]) :
            k + 1 \in DOMAIN todo[t] /\ Tail(todo[t])[k] = todo[t][k + 1]
  BY <1>1, <1>2, Rest
<1>4. /\ PA_LED' = (PA_LED \ job.clear) \cup job.set
      /\ last' = IF job.to = "disk"
                 THEN [n \in Led |-> IF n \in Disk THEN "unset" ELSE last[n]]
                 ELSE [last EXCEPT ![job.led] = job.to]
      /\ landisk_led_lock' = {} /\ tmp' = [tmp EXCEPT ![t] = {}]
      /\ todo' = [todo EXCEPT ![t] = Tail(todo[t])]
      /\ UNCHANGED <<leds, disk, trigger, device, driver, at, i, nr_leds>>
  BY <1>1 DEF Store, kernel
<1> HIDE DEF job
<1>5. job \in Record
  BY <1>3 DEF Jobs
<1>6. TypeOK'
  <2>1. PA_LED' \subseteq Bits /\ last' \in [Led -> Values]
    BY <1>4, <1>5 DEF Inv, TypeOK, Record, Values
  <2>2. tmp' \in [Threads -> SUBSET Bits]  BY <1>4 DEF Inv, TypeOK
  <2> QED  BY <1>4, <2>1, <2>2 DEF Inv, TypeOK, Values
<1>7. Typed'  BY <1>3, <1>4 DEF Inv, Typed
<1>8. Holder'  BY <1>4 DEF Holder
<1>9. \A u \in Threads : \A k \in DOMAIN todo'[u] :
         \E l \in DOMAIN todo[u] : todo'[u][k] = todo[u][l]
  BY <1>3, <1>4 DEF Inv, Typed
<1>10. Known'
  BY <1>4, <1>9 DEF Inv, Known, Threads
<1>11. Registered'
  BY <1>4 DEF Inv, Registered, Nr
<1>12. Fresh'
  <2>1. ASSUME at \in {"trigger", "device", "driver"}
        PROVE  todo'["module"] = << >>
    BY <1>1, <1>4, <2>1 DEF Inv, Fresh, Typed, Threads
  <2>2. ASSUME at = "probe"
        PROVE  \A k \in DOMAIN todo'["module"] : todo'["module"][k].to = "disk"
    BY <1>9, <2>2 DEF Inv, Fresh, Threads
  <2>3. ASSUME at \in {"trigger", "device", "driver", "probe"}, NEW n \in Led \ leds
        PROVE  last'[n] = "unset"
    <3>1. last[n] = "unset"  BY <2>3 DEF Inv, Fresh
    <3>2. CASE t = "module"
      <4>1. job.to = "disk"
        BY <1>1, <1>3, <2>3, <3>2 DEF Inv, Fresh
      <4> QED  BY <1>4, <3>1, <4>1
    <3>3. CASE t \in Cpus
      <4>1. job.led \in leds  BY <1>3, <3>3 DEF Inv, Known
      <4> QED  BY <1>4, <3>1, <4>1 DEF Inv, TypeOK
    <3> QED  BY <3>2, <3>3 DEF Threads
  <2> QED  BY <1>4, <2>1, <2>2, <2>3 DEF Fresh
<1>13. LedsShowWhatWasSet'
  <2> SUFFICES ASSUME NEW n \in leds, last'[n] # "unset"
               PROVE  (n \in PA_LED') <=> (last'[n] = "on")
    BY <1>4 DEF LedsShowWhatWasSet
  <2>1. n \in Led /\ (last[n] # "unset" => ((n \in PA_LED) <=> (last[n] = "on")))
    BY DEF Inv, TypeOK, LedsShowWhatWasSet
  <2>2. CASE job.to = "disk"
    <3>1. job.clear = Disk /\ job.set \subseteq Disk
      BY <1>3, <2>2 DEF Jobs
    <3>2. n \notin Disk /\ last'[n] = last[n]
      BY <1>4, <2>1, <2>2
    <3> QED  BY <1>4, <2>1, <3>1, <3>2
  <2>3. CASE job.to # "disk"
    <3>1. job.clear = {job.led} /\ job.set = IF job.to = "on" THEN {job.led} ELSE {}
      BY <1>3, <2>3 DEF Jobs
    <3>2. last' = [last EXCEPT ![job.led] = job.to]  BY <1>4, <2>3
    <3>3. CASE n = job.led
      <4>1. last'[n] = job.to  BY <2>1, <3>2, <3>3 DEF Inv, TypeOK
      <4> QED  BY <1>4, <3>1, <3>3, <4>1
    <3>4. CASE n # job.led
      <4>1. last'[n] = last[n]  BY <2>1, <3>2, <3>4 DEF Inv, TypeOK
      <4> QED  BY <1>4, <2>1, <3>1, <3>4, <4>1
    <3> QED  BY <3>3, <3>4
  <2> QED  BY <2>2, <2>3
<1> QED
  BY <1>6, <1>7, <1>8, <1>10, <1>11, <1>12, <1>13 DEF Inv

-----------------------------------------------------------------------------
(* The LED core, and whatever else only hands jobs to a thread.            *)
LEMMA SetsStep ==
    ASSUME Inv, landisk_product' = landisk_product,
           NEW c \in Cpus, NEW n \in Led, NEW value \in BOOLEAN, Sets(c, n, value)
    PROVE  Inv'
<1>1. /\ n \in leds /\ todo' = [todo EXCEPT ![c] = <<landisk_led_set(n, value)>>]
      /\ ~Busy(c) /\ UNCHANGED <<register, kernel, at, i, nr_leds>>
      /\ c \in Threads /\ c # "module"
  BY Parameters DEF Sets, Calls, Threads
<1>2. TypeOK'  BY <1>1 DEF Inv, TypeOK, register, kernel
<1>3. Typed'
  <2>1. landisk_led_set(n, value) \in Jobs
    BY SetIsJob DEF Inv, Typed
  <2> QED  BY <1>1, <2>1 DEF Inv, Typed, kernel
<1>4. Holder'  BY <1>1 DEF Inv, Holder, Busy, register, Typed, TypeOK
<1>5. Known'
  <2>1. \A k \in DOMAIN <<landisk_led_set(n, value)>> : <<landisk_led_set(n, value)>>[k].led = n
    BY DEF landisk_led_set
  <2> QED  BY <1>1, <2>1 DEF Inv, Known, kernel, Typed
<1>6. Registered' /\ Fresh'
  BY <1>1 DEF Inv, Registered, Fresh, register, kernel, Nr, Typed, Threads
<1>7. LedsShowWhatWasSet'
  BY <1>1 DEF Inv, LedsShowWhatWasSet, register, kernel
<1> QED  BY <1>2, <1>3, <1>4, <1>5, <1>6, <1>7 DEF Inv

LEMMA AttachesStep ==
    ASSUME Inv, landisk_product' = landisk_product,
           NEW c \in Cpus, NEW n \in Led, Attaches(c, n)
    PROVE  Inv'
<1>1. /\ n \in leds /\ todo' = [todo EXCEPT ![c] = <<landisk_disk_trig_activate(n)>>]
      /\ ~Busy(c) /\ disk' = disk \cup {n}
      /\ UNCHANGED <<register, leds, trigger, device, driver, at, i, nr_leds>>
      /\ c \in Threads /\ c # "module"
  BY Parameters DEF Attaches, Calls, Threads
<1>2. TypeOK'  BY <1>1 DEF Inv, TypeOK, register
<1>3. Typed'
  <2>1. landisk_disk_trig_activate(n) \in Jobs
    BY DiskIsJob
  <2> QED  BY <1>1, <2>1 DEF Inv, Typed
<1>4. Holder'  BY <1>1 DEF Inv, Holder, Busy, register, Typed, TypeOK
<1>5. Known'
  <2>1. \A k \in DOMAIN <<landisk_disk_trig_activate(n)>> :
           <<landisk_disk_trig_activate(n)>>[k].led = n
    BY DEF landisk_disk_trig_activate
  <2> QED  BY <1>1, <2>1 DEF Inv, Known, Typed
<1>6. Registered' /\ Fresh'
  BY <1>1 DEF Inv, Registered, Fresh, register, Nr, Typed, Threads
<1>7. LedsShowWhatWasSet'
  BY <1>1 DEF Inv, LedsShowWhatWasSet, register
<1> QED  BY <1>2, <1>3, <1>4, <1>5, <1>6, <1>7 DEF Inv

LEMMA DetachesStep ==
    ASSUME Inv, landisk_product' = landisk_product,
           NEW c \in Cpus, NEW n \in Led, Detaches(c, n)
    PROVE  Inv'
<1>1. /\ n \in disk /\ todo' = [todo EXCEPT ![c] = Detach(n)]
      /\ ~Busy(c) /\ disk' = disk \ {n}
      /\ UNCHANGED <<register, leds, trigger, device, driver, at, i, nr_leds>>
      /\ c \in Threads /\ c # "module"
  BY Parameters DEF Detaches, Calls, Threads
<1>2. TypeOK'  BY <1>1 DEF Inv, TypeOK, register
<1>3. n \in leds  BY <1>1 DEF Inv, TypeOK
<1>4. Typed'  BY <1>1, DetachIsJobs DEF Inv, Typed
<1>5. Holder'  BY <1>1 DEF Inv, Holder, Busy, register, Typed, TypeOK
<1>6. Known'
  <2>1. \A k \in DOMAIN Detach(n) : Detach(n)[k].led = n
    BY DEF Detach, landisk_disk_trig_deactivate, landisk_led_set
  <2> QED  BY <1>1, <1>3, <2>1 DEF Inv, Known, Typed
<1>7. Registered' /\ Fresh'
  BY <1>1 DEF Inv, Registered, Fresh, register, Nr, Typed, Threads
<1>8. LedsShowWhatWasSet'
  BY <1>1 DEF Inv, LedsShowWhatWasSet, register
<1> QED  BY <1>2, <1>4, <1>5, <1>6, <1>7, <1>8 DEF Inv

-----------------------------------------------------------------------------
(* The module's thread.                                                    *)

(* When no LED is registered nobody is inside the lock: the processors set *)
(* registered LEDs, and the module's thread is between two calls.          *)
LEMMA NobodyInside ==
    ASSUME Inv, leds = {}, ~Busy("module")
    PROVE  landisk_led_lock = {}
<1> SUFFICES ASSUME NEW t \in landisk_led_lock PROVE FALSE  OBVIOUS
<1>1. t \in Cpus /\ todo[t] # << >>
  BY DEF Inv, TypeOK, Holder, Busy, Threads
<1>2. 1 \in DOMAIN todo[t]
  <2>1. todo[t] \in Seq(Jobs)
    BY <1>1 DEF Inv, Typed, Threads
  <2> QED  BY <1>1, <2>1, Rest
<1>3. todo[t][1].led \in leds  BY <1>1, <1>2 DEF Inv, Known
<1> QED  BY <1>3

LEMMA LoadStep ==
    ASSUME Inv, landisk_product' = landisk_product, Load
    PROVE  Inv'
<1>1. /\ at = "out" /\ ~Busy("module") /\ at' = "trigger"
      /\ PA_LED' = PA_LED \cup IF landisk_product = "LANDISK" THEN 0 .. 2 ELSE 0 .. 1
      /\ last' = [n \in Led |-> "unset"]
      /\ UNCHANGED <<landisk_led_lock, tmp, todo, leds, disk, trigger, device, driver, i, nr_leds>>
  BY DEF Load, At, Goes, kernel
<1>2. leds = {}  BY <1>1 DEF Inv, Registered
<1>3. landisk_led_lock = {}  BY <1>1, <1>2, NobodyInside
<1>4. TypeOK'
  <2>1. PA_LED' \subseteq Bits  BY <1>1 DEF Inv, TypeOK, Bits
  <2>2. last' \in [Led -> {"unset", "on", "off"}]  BY <1>1
  <2> QED  BY <1>1, <2>1, <2>2 DEF Inv, TypeOK
<1>5. Typed' /\ Known'  BY <1>1 DEF Inv, Typed, Known
<1>6. Holder'  BY <1>1, <1>3 DEF Holder
<1>7. Registered' /\ LedsShowWhatWasSet'
  BY <1>1, <1>2 DEF Inv, Registered, LedsShowWhatWasSet, Nr
<1>8. Fresh'  BY <1>1 DEF Fresh, Busy
<1> QED  BY <1>4, <1>5, <1>6, <1>7, <1>8 DEF Inv

(* Steps that register or take back what is not an LED.                    *)
LEMMA RegisterStep ==
    ASSUME Inv, landisk_product' = landisk_product,
           RegisterTrigger \/ RegisterDevice \/ RegisterDriver
    PROVE  Inv'
<1>1. /\ UNCHANGED <<register, todo, leds, disk>>
      /\ {trigger', device', driver'} \subseteq BOOLEAN
      /\ at \in {"trigger", "device", "driver"}
      /\ at' \in {"out", "device", "driver", "probe"}
  BY DEF RegisterTrigger, RegisterDevice, RegisterDriver, At, Goes, Inv, TypeOK
<1>2. \/ UNCHANGED <<i, nr_leds>> /\ at' # "probe"
      \/ i' = 0 /\ nr_leds' = Nr
  BY DEF RegisterTrigger, RegisterDevice, RegisterDriver, At, Goes
<1>3. at' = "driver" => device' = TRUE
  BY <1>1 DEF RegisterTrigger, RegisterDevice, RegisterDriver, At, Goes
<1>4. at' = "probe" => /\ i' = 0 /\ nr_leds' = Nr /\ driver' = TRUE /\ device' = TRUE
  <2>1. CASE RegisterDriver
    <3>1. at' = "probe" => driver' = TRUE /\ device' = device /\ i' = 0 /\ nr_leds' = Nr
      BY <2>1 DEF RegisterDriver, Goes
    <3>2. device = TRUE
      BY <2>1 DEF RegisterDriver, At, Inv, Registered, TypeOK
    <3> QED  BY <3>1, <3>2
  <2>2. CASE RegisterTrigger \/ RegisterDevice
    BY <2>2 DEF RegisterTrigger, RegisterDevice, Goes
  <2> QED  BY <2>1, <2>2
<1>5. leds = {} /\ todo["module"] = << >>
  BY <1>1 DEF Inv, Registered, Fresh
<1>6. Nr \in 2 .. UslLeds  BY NrRange DEF Inv, Typed
<1>7. TypeOK'
  <2>1. nr_leds' \in 0 .. UslLeds /\ i' \in 0 .. nr_leds'
    BY <1>2, <1>6 DEF Inv, TypeOK
  <2> QED  BY <1>1, <2>1 DEF Inv, TypeOK, register
<1>8. Typed' /\ Holder' /\ Known' /\ LedsShowWhatWasSet'
  BY <1>1 DEF Inv, Typed, Holder, Busy, Known, LedsShowWhatWasSet, register
<1>9. Registered'
  <2>1. nr_leds' <= Nr'  BY <1>2, <1>6 DEF Inv, Registered, Nr
  <2>2. {n \in Led : n < 0} = {}  BY DEF Led
  <2>3. at' = "probe" => nr_leds' = Nr' /\ leds' = {n \in Led : n < i'}
    BY <1>1, <1>4, <1>5, <2>2 DEF Nr
  <2> QED  BY <1>1, <1>3, <1>4, <1>5, <2>1, <2>3 DEF Registered
<1>10. Fresh'
  BY <1>1, <1>5 DEF Inv, Fresh, register
<1> QED  BY <1>7, <1>8, <1>9, <1>10 DEF Inv

(* An LED comes in, untouched; the status LED brings its trigger.          *)
LEMMA RegisterLedStep ==
    ASSUME Inv, landisk_product' = landisk_product, RegisterLed
    PROVE  Inv'
<1>1. /\ at = "probe" /\ ~Busy("module") /\ i < nr_leds
      /\ leds' = leds \cup {i} /\ i' = i + 1
      /\ UNCHANGED <<register, trigger, device, driver, at, nr_leds>>
  BY DEF RegisterLed, At
<1>2. Nr \in 2 .. UslLeds /\ nr_leds = Nr /\ leds = {n \in Led : n < i}
  BY <1>1, NrRange DEF Inv, Typed, Registered
<1>3. i \in Nat /\ i \in Led /\ i \notin leds /\ last[i] = "unset"
  BY <1>1, <1>2, Parameters DEF Inv, TypeOK, Fresh, Led
<1>4. \/ /\ landisk_product = "LANDISK" /\ i = 1 /\ disk' = disk \cup {i}
         /\ todo' = [todo EXCEPT !["module"] = <<landisk_disk_trig_activate(i)>>]
      \/ UNCHANGED <<disk, todo>>
  BY DEF RegisterLed, Calls
<1>5. TypeOK'
  <2>1. leds' \subseteq Led /\ disk' \subseteq leds'
    BY <1>1, <1>3, <1>4 DEF Inv, TypeOK
  <2>2. i' \in 0 .. nr_leds'  BY <1>1, <1>2, <1>3
  <2> QED  BY <1>1, <2>1, <2>2 DEF Inv, TypeOK, register
<1>6. Typed'
  <2>1. CASE UNCHANGED <<disk, todo>>  BY <2>1 DEF Inv, Typed
  <2>2. CASE ~UNCHANGED <<disk, todo>>
    <3>1. todo' = [todo EXCEPT !["module"] = <<landisk_disk_trig_activate(i)>>]
      BY <1>4, <2>2
    <3>2. landisk_disk_trig_activate(i) \in Jobs
      BY <1>3, DiskIsJob
    <3> DEFINE one == landisk_disk_trig_activate(i)
    <3>3. <<one>> \in Seq(Jobs)  BY <3>2
    <3> HIDE DEF one
    <3>4. todo' = [todo EXCEPT !["module"] = <<one>>]  BY <3>1 DEF one
    <3> QED  BY <3>1, <3>3, <3>4 DEF Inv, Typed
  <2> QED  BY <2>1, <2>2
<1>7. Holder'
  BY <1>1, <1>4 DEF Inv, Holder, Busy, register, Typed, TypeOK
<1>8. Known'
  BY <1>1, <1>4, Parameters DEF Inv, Known, Typed, Threads
<1>9. Registered'
  <2>1. leds' = {n \in Led : n < i'}
    <3>1. \A n \in Led : n < i + 1 <=> (n < i \/ n = i)  BY <1>3 DEF Led
    <3> QED  BY <1>1, <1>2, <1>3, <3>1
  <2> QED  BY <1>1, <2>1 DEF Inv, Registered, Nr
<1>10. Fresh'
  <2>1. \A k \in DOMAIN <<landisk_disk_trig_activate(i)>> :
           <<landisk_disk_trig_activate(i)>>[k].to = "disk"
    BY DEF landisk_disk_trig_activate
  <2>2. \A k \in DOMAIN todo'["module"] : todo'["module"][k].to = "disk"
    BY <1>1, <1>4, <2>1 DEF Inv, Fresh, Typed, Threads
  <2> QED  BY <1>1, <2>2 DEF Inv, Fresh, register
<1>11. LedsShowWhatWasSet'
  BY <1>1, <1>3 DEF Inv, LedsShowWhatWasSet, register
<1> QED  BY <1>5, <1>6, <1>7, <1>8, <1>9, <1>10, <1>11 DEF Inv

(* Steps of the module's thread that touch no LED.                         *)
LEMMA TurnStep ==
    ASSUME Inv, landisk_product' = landisk_product,
           LedFails \/ Loaded \/ InitFails \/ Unloaded
    PROVE  Inv'
<1>1. UNCHANGED <<register, todo, leds, disk, trigger>>
  BY DEF LedFails, Loaded, InitFails, Unloaded, kernel
<1>2. Nr \in 2 .. UslLeds  BY NrRange DEF Inv, Typed
<1>3. /\ at' \in {"rollback", "in", "out"}
      /\ nr_leds' \in 0 .. UslLeds /\ i' \in 0 .. nr_leds' /\ nr_leds' <= Nr'
      /\ {device', driver'} \subseteq BOOLEAN
  <2>1. \/ nr_leds' = i /\ i' = 0
        \/ UNCHANGED <<i, nr_leds>>
    BY DEF LedFails, Loaded, InitFails, Unloaded
  <2>2. /\ nr_leds \in 0 .. UslLeds /\ i \in 0 .. nr_leds /\ nr_leds <= Nr
        /\ {device, driver} \subseteq BOOLEAN
    BY DEF Inv, TypeOK, Registered
  <2>3. UslLeds \in Nat  BY Parameters
  <2>4. nr_leds' \in 0 .. UslLeds /\ i' \in 0 .. nr_leds' /\ nr_leds' <= Nr
    BY <1>2, <2>1, <2>2, <2>3
  <2>5. Nr' = Nr  BY DEF Nr
  <2>6. at' \in {"rollback", "in", "out"} /\ {device', driver'} \subseteq BOOLEAN
    BY <2>2 DEF LedFails, Loaded, InitFails, Unloaded, Goes, kernel
  <2> QED  BY <2>4, <2>5, <2>6
<1>4. TypeOK'  BY <1>1, <1>3 DEF Inv, TypeOK, register
<1>5. Typed' /\ Holder' /\ Known' /\ LedsShowWhatWasSet' /\ Fresh'
  BY <1>1, <1>3 DEF Inv, Typed, Holder, Busy, Known, LedsShowWhatWasSet, Fresh, register
<1>6. Registered'
  <2>1. CASE LedFails
    <3>1. /\ at = "probe" /\ at' = "rollback" /\ nr_leds' = i /\ i' = 0
          /\ UNCHANGED <<leds, driver, device>>
      BY <2>1 DEF LedFails, At, Goes, kernel
    <3>2. leds = {n \in Led : n < i} /\ i \in Nat  BY <3>1 DEF Inv, Registered, TypeOK
    <3>3. leds' = {n \in Led : i' <= n /\ n < nr_leds'}  BY <3>1, <3>2 DEF Led
    <3> QED  BY <1>3, <3>1, <3>3 DEF Inv, Registered
  <2>2. CASE Loaded
    BY <1>3, <2>2 DEF Loaded, At, Goes, kernel, Inv, Registered, Nr
  <2>3. CASE InitFails \/ Unloaded
    <3>1. /\ at \in {"rollback", "remove"} /\ at' = "out" /\ i = nr_leds /\ leds' = leds
      BY <2>3 DEF InitFails, Unloaded, At, Goes
    <3>2. leds = {}
      <4>1. leds = {n \in Led : i <= n /\ n < nr_leds}  BY <3>1 DEF Inv, Registered
      <4>2. i \in Nat  BY DEF Inv, TypeOK
      <4> QED  BY <3>1, <4>1, <4>2 DEF Led
    <3> QED  BY <1>3, <3>1, <3>2 DEF Registered
  <2> QED  BY <2>1, <2>2, <2>3
<1> QED  BY <1>4, <1>5, <1>6 DEF Inv

(* An LED goes: nobody is setting it, and what its release makes the       *)
(* module's thread do are jobs of this LED.                                *)
LEMMA UnregisterLedStep ==
    ASSUME Inv, landisk_product' = landisk_product, UnregisterLed
    PROVE  Inv'
<1>1. /\ at \in {"rollback", "remove"} /\ ~Busy("module") /\ i < nr_leds /\ i' = i + 1
      /\ \A c \in Cpus : \A k \in DOMAIN todo[c] : todo[c][k].led # i
      /\ leds' = leds \ {i} /\ disk' = disk \ {i}
      /\ UNCHANGED <<register, trigger, device, driver, at, nr_leds>>
  BY DEF UnregisterLed, At, led_classdev_unregister
<1>2. PICK jobs : /\ todo' = [todo EXCEPT !["module"] = jobs]
                  /\ \/ i \in disk /\ jobs = Detach(i)
                     \/ jobs \in {<< >>, <<landisk_led_set(i, FALSE)>>}
  BY DEF UnregisterLed, led_classdev_unregister, Calls
<1>3. i \in Led
  <2>1. Nr \in 2 .. UslLeds  BY NrRange DEF Inv, Typed
  <2>2. i \in Nat /\ nr_leds \in Nat /\ nr_leds <= Nr  BY DEF Inv, TypeOK, Registered
  <2> QED  BY <1>1, <2>1, <2>2, Parameters DEF Led
<1>4. jobs \in Seq(Jobs)
  <2>1. CASE i \in disk /\ jobs = Detach(i)
    BY <1>3, <2>1, DetachIsJobs
  <2>2. CASE jobs = << >>  BY <2>2
  <2>3. CASE jobs = <<landisk_led_set(i, FALSE)>>
    <3> DEFINE one == landisk_led_set(i, FALSE)
    <3>1. one \in Jobs  BY <1>3, SetIsJob DEF Inv, Typed
    <3> HIDE DEF one
    <3>2. jobs = <<one>>  BY <2>3 DEF one
    <3> QED  BY <3>1, <3>2
  <2> QED  BY <1>2, <2>1, <2>2, <2>3
<1>5. TypeOK'
  <2>1. i' \in 0 .. nr_leds'  BY <1>1 DEF Inv, TypeOK
  <2> QED  BY <1>1, <2>1 DEF Inv, TypeOK, register
<1>6. Typed'  BY <1>2, <1>4 DEF Inv, Typed
<1>7. Holder'
  BY <1>1, <1>2 DEF Inv, Holder, Busy, register, Typed, TypeOK
<1>8. Known'
  BY <1>1, <1>2, Parameters DEF Inv, Known, Typed, Threads
<1>9. Registered'
  <2>1. leds = {n \in Led : i <= n /\ n < nr_leds}  BY <1>1 DEF Inv, Registered
  <2>2. i \in Nat  BY DEF Inv, TypeOK
  <2>3. \A n \in Led : (i + 1 <= n) <=> (i <= n /\ n # i)  BY <2>2 DEF Led
  <2>4. leds' = {n \in Led : i' <= n /\ n < nr_leds'}
    BY <1>1, <2>1, <2>3
  <2> QED  BY <1>1, <2>4 DEF Inv, Registered, Nr
<1>10. Fresh'  BY <1>1 DEF Fresh
<1>11. LedsShowWhatWasSet'
  BY <1>1 DEF Inv, LedsShowWhatWasSet, register
<1> QED  BY <1>5, <1>6, <1>7, <1>8, <1>9, <1>10, <1>11 DEF Inv

(* The trigger goes from the LEDs that have it.                            *)
LEMMA ExitStep ==
    ASSUME Inv, landisk_product' = landisk_product, Exit
    PROVE  Inv'
<1>1. /\ at = "in" /\ at' = "remove" /\ ~Busy("module")
      /\ trigger' = FALSE /\ disk' = {} /\ i' = 0 /\ nr_leds' = Nr
      /\ todo' = [todo EXCEPT !["module"] = led_trigger_unregister]
      /\ UNCHANGED <<register, leds, device, driver>>
  BY DEF Exit, At, Goes, Calls
<1>2. Nr \in 2 .. UslLeds  BY NrRange DEF Inv, Typed
<1>3. led_trigger_unregister \in Seq(Jobs)
  <2>1. ASSUME NEW n \in {0, 1}
        PROVE  (IF n \in disk THEN Detach(n) ELSE << >>) \in Seq(Jobs)
    <3>1. n \in Led  BY Parameters DEF Led
    <3>2. CASE n \in disk
      BY <3>1, <3>2, DetachIsJobs
    <3>3. CASE n \notin disk  BY <3>3, EmptySeq
    <3> QED  BY <3>2, <3>3
  <2>2. (IF 0 \in disk THEN Detach(0) ELSE << >>) \in Seq(Jobs)
    BY <2>1
  <2>3. (IF 1 \in disk THEN Detach(1) ELSE << >>) \in Seq(Jobs)
    BY <2>1
  <2> QED  BY <2>2, <2>3, ConcatProperties DEF led_trigger_unregister
<1>4. TypeOK'
  <2>1. nr_leds' \in 0 .. UslLeds /\ i' \in 0 .. nr_leds'  BY <1>1, <1>2
  <2> QED  BY <1>1, <2>1 DEF Inv, TypeOK, register
<1>5. Typed'  BY <1>1, <1>3 DEF Inv, Typed
<1>6. Holder'
  BY <1>1 DEF Inv, Holder, Busy, register, Typed, TypeOK
<1>7. Known'
  BY <1>1, Parameters DEF Inv, Known, Typed, Threads
<1>8. Registered'
  <2>1. leds = {n \in Led : n < Nr} /\ driver /\ device
    BY <1>1 DEF Inv, Registered
  <2>2. leds' = {n \in Led : i' <= n /\ n < nr_leds'}
    BY <1>1, <2>1 DEF Led
  <2> QED  BY <1>1, <1>2, <2>1, <2>2 DEF Registered, Nr
<1>9. Fresh'  BY <1>1 DEF Fresh
<1>10. LedsShowWhatWasSet'
  BY <1>1 DEF Inv, LedsShowWhatWasSet, register
<1> QED  BY <1>4, <1>5, <1>6, <1>7, <1>8, <1>9, <1>10 DEF Inv

LEMMA NextInv == Inv /\ [Next]_vars => Inv'
<1> SUFFICES ASSUME Inv, [Next]_vars PROVE Inv'  OBVIOUS
<1>1. CASE Next
  <2>1. landisk_product' = landisk_product  BY <1>1 DEF Next
  <2>2. CASE Module
    BY <2>1, <2>2, LoadStep, RegisterStep, RegisterLedStep, TurnStep, UnregisterLedStep,
       ExitStep DEF Module
  <2>3. CASE \E t \in Threads : Lock(t) \/ Store(t)
    BY <2>1, <2>3, LockStep, StoreStep
  <2>4. CASE \E c \in Cpus : Users(c)
    BY <2>1, <2>4, SetsStep, AttachesStep, DetachesStep DEF Users
  <2> QED  BY <1>1, <2>2, <2>3, <2>4 DEF Next
<1>2. CASE UNCHANGED vars
  BY <1>2 DEF vars, register, kernel, Inv, TypeOK, Typed, Holder, Busy, Known, Registered,
              Fresh, Nr, LedsShowWhatWasSet
<1> QED  BY <1>1, <1>2

-----------------------------------------------------------------------------
(* leds-landisk.c:95-119, :175-189: however many processors set LEDs and   *)
(* move the trigger while the module comes and goes, each registered LED   *)
(* shows what it was last set to, LEDs 2 and 3 of a USL_5P until the       *)
(* trigger writes over them.                                               *)
THEOREM NoSettingIsLost == Spec => []LedsShowWhatWasSet
<1>1. Inv => LedsShowWhatWasSet  BY DEF Inv
<1> QED  BY <1>1, InitInv, NextInv, PTL DEF Spec

(* leds-landisk.c:124-161, :234-259: wherever registration fails, and at   *)
(* every exit, no LED stays without its driver and its device.             *)
THEOREM EveryLedIsTakenBack == Spec => []NoLedIsLeftBehind
<1>1. Inv => NoLedIsLeftBehind
  <2> SUFFICES ASSUME Inv, leds # {} PROVE NoLedIsLeftBehind
    BY DEF NoLedIsLeftBehind
  <2>1. at \in {"probe", "rollback", "in", "remove"}
    BY DEF Inv, TypeOK, Registered
  <2> QED  BY <2>1 DEF Inv, Registered, NoLedIsLeftBehind
<1> QED  BY <1>1, InitInv, NextInv, PTL DEF Spec

(* No failure and no interleaving leaves a variable of the driver out of   *)
(* range.                                                                  *)
THEOREM TypeCorrect == Spec => []TypeOK
<1>1. Inv => TypeOK  BY DEF Inv
<1> QED  BY <1>1, InitInv, NextInv, PTL DEF Spec

-----------------------------------------------------------------------------
(* The 68000 bus interface.                                                *)

Strobed == ~(pins.uds /\ pins.lds)
Kind    == IF pins.readnotwrite THEN "READ" ELSE "WRITE"
Accessed ==
    ~pins.uds /\ ~pins.lds => accesses = << <<Kind, pins.address, data>> >>

(* The harness waits, and nothing has been started.                        *)
Unstarted ==
    /\ state = "IDLE" /\ dtack /\ accesses = << >>
    /\ Strobed => phase = "low" /\ cycles = 0

(* DTACK is low, and the word has not been accessed.                       *)
Underway ==
    /\ state = Kind /\ ~dtack /\ cycles = 1 /\ Strobed
    /\ range = RangeOf(pins) /\ address = pins.address
    /\ accesses = << >>

AtEnd ==
    /\ phase = "high" /\ state = "ENDTRANSACTION" /\ ~dtack /\ cycles = 2
    /\ Accessed

Over ==
    /\ phase = "high" /\ state = "IDLE" /\ dtack /\ cycles = 3
    /\ Accessed

Idle ==
    /\ phase = "reset" => state = "RESET" /\ pins.uds /\ cyclecounter <= ResetCycles
    /\ phase # "reset" => state # "RESET"
    /\ phase \in {"free", "settling", "ready"} => state = "IDLE"
    /\ phase \in {"settling", "ready"} =>
          pins.addressstrobe /\ dtack /\ accesses = << >>

Transaction ==
    phase \in {"low", "high"} =>
        /\ ~pins.addressstrobe
        /\ Unstarted \/ Underway \/ AtEnd \/ Over

BusInv == BusTypeOK /\ Idle /\ Transaction /\ OneAccess

-----------------------------------------------------------------------------
LEMMA ReleasedPins ==
    ASSUME NEW p \in Pins
    PROVE  /\ Released(p) \in Pins
           /\ Released(p).addressstrobe /\ Released(p).uds /\ Released(p).lds
BY DEF Released, Pins

LEMMA BusInitInv == BusInit => BusInv
<1> SUFFICES ASSUME BusInit PROVE BusInv  OBVIOUS
<1>1. PICK p \in Pins : pins = Released(p)  BY DEF BusInit
<1>2. pins \in Pins /\ pins.uds  BY <1>1, ReleasedPins
<1>3. BusTypeOK
  <2>1. pinsout \in [dtack : BOOLEAN, reset : BOOLEAN, halt : BOOLEAN]
    BY DEF BusInit
  <2>2. /\ cyclecounter \in 0 .. ResetCycles + 1 /\ cycles \in 0 .. Patience
        /\ state = "RESET" /\ range = "WORD" /\ phase = "reset"
    BY Counts DEF BusInit
  <2>3. dtack \in BOOLEAN /\ worked \in BOOLEAN /\ data \in Words /\ address \in Addresses
    BY DEF BusInit
  <2> QED  BY <1>2, <2>1, <2>2, <2>3 DEF BusTypeOK
<1>4. Idle /\ Transaction /\ OneAccess
  BY <1>2, Counts DEF BusInit, Idle, Transaction, OneAccess
<1> QED  BY <1>3, <1>4 DEF BusInv

(* One clock of an interface that is not in reset.                         *)
LEMMA ClockTypes ==
    ASSUME BusTypeOK, m68kint_clock, state = "RESET" => cyclecounter <= ResetCycles
    PROVE  /\ state' \in {"IDLE", "READ", "WRITE", "ENDTRANSACTION", "RESET"}
           /\ range' \in {"WORD", "LOWERBYTE", "UPPERBYTE"}
           /\ address' \in Addresses /\ cyclecounter' \in 0 .. ResetCycles + 1
           /\ pinsout' \in [dtack : BOOLEAN, reset : BOOLEAN, halt : BOOLEAN]
           /\ dtack' \in BOOLEAN /\ data' \in Words
           /\ pins' = pins
<1>1. CASE InReset
  <2>1. cyclecounter' \in 0 .. ResetCycles + 1 /\ state' \in {"IDLE", "RESET"}
    BY <1>1, Counts DEF InReset, BusTypeOK
  <2> DEFINE over == cyclecounter + 1 > ResetCycles
  <2>2. pinsout' \in [dtack : BOOLEAN, reset : BOOLEAN, halt : BOOLEAN]
    <3>1. over \in BOOLEAN  OBVIOUS
    <3>2. pinsout' = [pinsout EXCEPT !.reset = over, !.halt = over]
      BY <1>1 DEF InReset
    <3> HIDE DEF over
    <3> QED  BY <3>1, <3>2 DEF BusTypeOK
  <2> QED  BY <1>1, <2>1, <2>2 DEF InReset, pushpins, BusTypeOK
<1>2. CASE NotStarted
  BY <1>2 DEF NotStarted, interface, BusTypeOK
<1>3. CASE Started
  <2>1. range' \in {"WORD", "LOWERBYTE", "UPPERBYTE"}
    BY <1>3 DEF Started, RangeOf
  <2>2. address' \in Addresses /\ state' \in {"READ", "WRITE"}
    BY <1>3 DEF Started, BusTypeOK, Pins
  <2>3. pinsout' \in [dtack : BOOLEAN, reset : BOOLEAN, halt : BOOLEAN] /\ dtack' = FALSE
    BY <1>3 DEF Started, pushpins, BusTypeOK
  <2> QED  BY <1>3, <2>1, <2>2, <2>3 DEF Started, BusTypeOK
<1>4. CASE Read \/ Write
  <2>1. \E kind \in {"READ", "WRITE"}, word \in Words : Served(kind, word)
    BY <1>4 DEF Read, Write, BusTypeOK
  <2>2. PICK kind \in {"READ", "WRITE"}, word \in Words : Served(kind, word)
    BY <2>1
  <2>3. data' \in Words  BY <2>2 DEF Served, BusTypeOK
  <2> QED  BY <2>2, <2>3 DEF Served, BusTypeOK
<1>5. CASE Ended
  BY <1>5 DEF Ended, pushpins, BusTypeOK
<1> QED  BY <1>1, <1>2, <1>3, <1>4, <1>5 DEF m68kint_clock

-----------------------------------------------------------------------------
LEMMA SpinStep == BusInv /\ Spin => BusInv'
<1> SUFFICES ASSUME BusInv, Spin PROVE BusInv'  OBVIOUS
<1>1. BusTypeOK /\ m68kint_clock /\ phase = "reset" /\ state = "RESET" /\ pins.uds
  BY DEF BusInv, Spin, Idle
<1>2. InReset
  BY <1>1 DEF m68kint_clock, NotStarted, Ignored, Started, Read, Write, Served, Ended
<1>3. BusTypeOK'
  BY <1>1, ClockTypes DEF BusInv, Idle, Spin, BusTypeOK
<1>4. pins' = pins /\ state' \in {"RESET", "IDLE"}
  BY <1>2 DEF InReset
<1>5. state' = "RESET" => cyclecounter' <= ResetCycles
  BY <1>1, <1>2, Counts DEF InReset, BusTypeOK
<1>6. phase' = IF state' = "RESET" THEN "reset" ELSE "free"
  BY DEF Spin
<1> QED  BY <1>1, <1>3, <1>4, <1>5, <1>6 DEF BusInv, Idle, Transaction, OneAccess

LEMMA ResetStateStep == BusInv /\ ResetState => BusInv'
<1> SUFFICES ASSUME BusInv, ResetState PROVE BusInv'  OBVIOUS
<1>1. /\ pins' \in Pins
      /\ pins'.addressstrobe /\ pins'.uds
  BY ReleasedPins DEF BusInv, BusTypeOK, ResetState
<1>2. BusTypeOK'  BY <1>1 DEF BusInv, BusTypeOK, ResetState, interface
<1>3. phase = "free" /\ state = "IDLE" /\ UNCHANGED <<state, cyclecounter>>
  BY DEF BusInv, Idle, ResetState, interface
<1> QED
  BY <1>1, <1>2, <1>3 DEF BusInv, Idle, Transaction, OneAccess, ResetState

LEMMA SettleStep == BusInv /\ Settle => BusInv'
<1> SUFFICES ASSUME BusInv, Settle PROVE BusInv'  OBVIOUS
<1>1. /\ BusTypeOK /\ m68kint_clock /\ phase = "settling" /\ state = "IDLE"
      /\ pins.addressstrobe /\ dtack /\ accesses = << >>
  BY DEF BusInv, Settle, Idle
<1>2. NotStarted
  BY <1>1 DEF m68kint_clock, InReset, Ignored, Started, Read, Write, Served, Ended
<1>3. BusTypeOK'
  BY <1>1, ClockTypes DEF Settle, BusTypeOK
<1> QED
  BY <1>1, <1>2, <1>3 DEF BusInv, Idle, Transaction, OneAccess, Settle, NotStarted, interface

LEMMA StartStep == BusInv /\ Start => BusInv'
<1> SUFFICES ASSUME BusInv, Start PROVE BusInv'  OBVIOUS
<1>1. pins' \in Pins /\ ~pins'.addressstrobe /\ data' \in Words
  BY DEF BusInv, BusTypeOK, Start
<1>2. BusTypeOK'  BY <1>1, Counts DEF BusInv, BusTypeOK, Start, interface
<1>3. /\ state' = "IDLE" /\ dtack' /\ accesses' = << >>
      /\ phase' = "low" /\ cycles' = 0
  BY DEF BusInv, Idle, Start, interface
<1>4. Unstarted'  BY <1>3 DEF Unstarted
<1> QED  BY <1>1, <1>2, <1>3, <1>4 DEF BusInv, Idle, Transaction, OneAccess

(* The clock moves a transaction on to its next state.                     *)
LEMMA WaitStep == BusInv /\ Wait => BusInv'
<1> SUFFICES ASSUME BusInv, Wait PROVE BusInv'  OBVIOUS
<1>1. /\ BusTypeOK /\ m68kint_clock /\ Waits
      /\ phase \in {"low", "high"} /\ phase' = phase
      /\ ~pins.addressstrobe /\ cycles' = cycles + 1
      /\ state # "RESET"
  BY DEF BusInv, Wait, Transaction, Idle
<1>2. BusTypeOK'
  <2>1. cycles' \in 0 .. Patience  BY <1>1, Counts DEF Waits, BusTypeOK
  <2> QED  BY <1>1, <2>1, ClockTypes DEF Wait, BusTypeOK
<1>3. pins' = pins  BY <1>1, ClockTypes
<1>4. CASE Unstarted /\ ~Strobed
  <2>1. NotStarted
    BY <1>1, <1>4 DEF m68kint_clock, InReset, Ignored, Started, Read, Write, Served,
                      Ended, Unstarted, Strobed
  <2>2. Unstarted' /\ state' = "IDLE"
    BY <1>4, <2>1 DEF NotStarted, interface, Unstarted, Strobed
  <2> QED  BY <1>1, <1>2, <1>3, <2>2 DEF BusInv, Idle, Transaction, OneAccess
<1>5. CASE Unstarted /\ Strobed
  <2>1. Started
    BY <1>1, <1>5 DEF m68kint_clock, InReset, NotStarted, Ignored, Read, Write, Served,
                      Ended, Unstarted, Strobed
  <2>2. dtack' = FALSE /\ cycles' = 1
    BY <1>1, <1>5, <2>1 DEF Started, pushpins, Unstarted, BusTypeOK
  <2>3. Underway'
    BY <1>3, <1>5, <2>1, <2>2 DEF Started, Unstarted, Underway, Strobed, Kind, RangeOf
  <2>4. state' # "RESET"  BY <2>1 DEF Started
  <2> QED  BY <1>1, <1>2, <1>3, <2>3, <2>4 DEF BusInv, Idle, Transaction, OneAccess
<1>6. CASE Underway
  <2>1. phase = "high"  BY <1>1, <1>6 DEF Waits, Underway
  <2>2. PICK word \in Words : Served(Kind, word) /\ (Kind = "WRITE" => word = data)
    BY <1>1, <1>6 DEF m68kint_clock, InReset, NotStarted, Ignored, Started, Read, Write,
                      Served, Ended, Underway, Kind, BusTypeOK
  <2>3. Accessed'
    BY <1>3, <1>6, <2>2 DEF Served, Underway, Accessed, Kind, RangeOf
  <2>4. AtEnd'
    BY <1>1, <1>6, <2>1, <2>2, <2>3 DEF Served, Underway, AtEnd
  <2> QED  BY <1>1, <1>2, <1>3, <2>4 DEF BusInv, Idle, Transaction, OneAccess, AtEnd
<1>7. CASE AtEnd
  <2>1. Ended
    BY <1>1, <1>7 DEF m68kint_clock, InReset, NotStarted, Ignored, Started, Read, Write,
                      Served, AtEnd
  <2>2. dtack' = TRUE  BY <1>1, <2>1 DEF Ended, pushpins, BusTypeOK
  <2>3. Accessed'  BY <1>3, <1>7, <2>1 DEF Ended, AtEnd, Accessed, Kind
  <2>4. Over'  BY <1>1, <1>7, <2>1, <2>2, <2>3 DEF Ended, AtEnd, Over
  <2> QED  BY <1>1, <1>2, <1>3, <2>4 DEF BusInv, Idle, Transaction, OneAccess, Over
<1>8. ~Over  BY <1>1 DEF Waits, Over
<1> QED  BY <1>1, <1>4, <1>5, <1>6, <1>7, <1>8 DEF BusInv, Transaction

LEMMA WentLowStep == BusInv /\ WentLow => BusInv'
<1> SUFFICES ASSUME BusInv, WentLow PROVE BusInv'  OBVIOUS
<1>1. BusTypeOK'  BY DEF BusInv, BusTypeOK, WentLow, interface
<1>2. /\ phase = "low" /\ phase' = "high" /\ ~Waits
      /\ UNCHANGED <<interface, pins, dtack, data, accesses, cycles, worked>>
      /\ ~pins.addressstrobe /\ state # "RESET"
  BY DEF WentLow, BusInv, Transaction, Idle
<1>3. ~AtEnd /\ ~Over  BY <1>2 DEF AtEnd, Over
<1>4. CASE Unstarted
  <2>1. dtack = TRUE  BY <1>4 DEF Unstarted, BusInv, BusTypeOK
  <2>2. ~Strobed
    <3> SUFFICES ASSUME Strobed PROVE FALSE  OBVIOUS
    <3>1. cycles = 0 /\ phase = "low"  BY <1>4 DEF Unstarted
    <3>2. (phase = "low") = TRUE  BY <3>1
    <3>3. dtack = (phase = "low")  BY <2>1, <3>2, Zenon
    <3>4. cycles < Patience  BY <3>1, Counts
    <3>5. Waits  BY <3>3, <3>4, Zenon DEF Waits
    <3> QED  BY <1>2, <3>5
  <2>3. Unstarted'  BY <1>2, <1>4, <2>2 DEF Unstarted, Strobed, interface
  <2> QED  BY <1>1, <1>2, <2>3 DEF BusInv, Idle, Transaction, OneAccess, interface
<1>5. CASE Underway
  <2>1. Underway'
    BY <1>2, <1>5 DEF Underway, Strobed, Kind, RangeOf, interface
  <2> QED  BY <1>1, <1>2, <2>1 DEF BusInv, Idle, Transaction, OneAccess, interface
<1> QED  BY <1>2, <1>3, <1>4, <1>5 DEF BusInv, Transaction

LEMMA FinishStep == BusInv /\ Finish => BusInv'
<1> SUFFICES ASSUME BusInv, Finish PROVE BusInv'  OBVIOUS
<1>1. /\ phase = "high" /\ ~Waits /\ phase' = "free"
      /\ UNCHANGED <<state, cyclecounter, data, accesses>>
      /\ worked' = (cycles # Patience) /\ state # "RESET"
  BY DEF Finish, interface, BusInv, Idle
<1>2. /\ pins' \in Pins /\ pins'.uds = pins.uds /\ pins'.lds = pins.lds
      /\ pins'.readnotwrite = pins.readnotwrite /\ pins'.address = pins.address
  BY DEF BusInv, BusTypeOK, Pins, Finish
<1>3. BusTypeOK'  BY <1>2 DEF BusInv, BusTypeOK, Finish, interface
<1>4. CASE Unstarted
  <2>1. ~Strobed /\ state = "IDLE"  BY <1>1, <1>4 DEF Unstarted
  <2> QED  BY <1>1, <1>2, <1>3, <2>1 DEF BusInv, Idle, Transaction, OneAccess, Strobed
<1>5. ~Underway /\ ~AtEnd
  <2>1. (phase = "low") = FALSE  BY <1>1
  <2>2. dtack = FALSE => ~(cycles < Patience)  BY <1>1, <2>1 DEF Waits
  <2>3. Underway \/ AtEnd => dtack = FALSE
    BY DEF Underway, AtEnd, BusInv, BusTypeOK
  <2>4. Underway \/ AtEnd => cycles < Patience
    BY Counts DEF Underway, AtEnd
  <2> QED  BY <2>2, <2>3, <2>4
<1>6. CASE Over
  <2>1. cycles # Patience  BY <1>6, Counts DEF Over
  <2> DEFINE intime == cycles # Patience
  <2>3. intime = TRUE  BY <2>1
  <2>4. worked' = intime  BY <1>1
  <2>5. worked' = TRUE  BY <2>3, <2>4
  <2>2. OneAccess'
    BY <1>1, <1>2, <1>6, <2>5 DEF Over, Accessed, Kind, OneAccess
  <2> QED  BY <1>1, <1>3, <1>6, <2>2 DEF BusInv, Idle, Transaction, Over
<1> QED  BY <1>1, <1>4, <1>5, <1>6 DEF BusInv, Transaction

LEMMA BusNextInv == BusInv /\ [BusNext]_busvars => BusInv'
<1> SUFFICES ASSUME BusInv, [BusNext]_busvars PROVE BusInv'  OBVIOUS
<1>1. CASE BusNext
  BY <1>1, SpinStep, ResetStateStep, SettleStep, StartStep, WaitStep, WentLowStep,
     FinishStep DEF BusNext
<1>2. CASE UNCHANGED busvars
  BY <1>2 DEF busvars, interface, harness, BusInv, BusTypeOK, Idle, Transaction, OneAccess,
              Unstarted, Underway, AtEnd, Over, Accessed, Strobed, Kind, RangeOf
<1> QED  BY <1>1, <1>2

-----------------------------------------------------------------------------
(* m68kinterface.c:44-113: however transactions follow each other, each    *)
(* word transaction is answered before the harness loses patience and      *)
(* makes one access, at its address.                                       *)
THEOREM EveryWordOnce == BusSpec => []OneAccess
<1>1. BusInv => OneAccess  BY DEF BusInv
<1> QED  BY <1>1, BusInitInv, BusNextInv, PTL DEF BusSpec

(* No transaction leaves a variable of the interface out of range.         *)
THEOREM BusTypeCorrect == BusSpec => []BusTypeOK
<1>1. BusInv => BusTypeOK  BY DEF BusInv
<1> QED  BY <1>1, BusInitInv, BusNextInv, PTL DEF BusSpec
=============================================================================
