---------------------------- MODULE UpdateProofs ----------------------------
(***************************************************************************)
(* The safety of an update, for every set of images, every slot and sector *)
(* size, and every number of peers, repetitions and packets.               *)
(***************************************************************************)
EXTENDS Update, TLAPS

(* The boot loader accepts the image in slot r.                            *)
Good(r) == check_image(slot[r])

(* The part of the types the argument needs.                               *)
Types ==
  /\ conf \in 0 .. RomCount \cup {Erased}
  /\ rtc \in 0 .. RomCount \cup {None}
  /\ \E S : slot \in [Roms -> S]
  /\ pc \in {"boot", "rewrite", "run", "halt"}
  /\ rom \in Roms /\ to \in Roms /\ temp \in BOOLEAN
  /\ task \in {"wait", "receive", "store", "verify", "switch", "write"}

(* While an application runs, current_rom names a good ROM until the       *)
(* configuration is erased to be switched, and a transfer goes to another  *)
(* slot; a temporary boot is asked for only then.  So some ROM is always   *)
(* good, whatever the transfer has done to its slot.                       *)
Safe ==
  /\ \E r \in Roms : Good(r)
  /\ rtc # None => pc # "run" /\ conf \in Roms /\ Good(conf)
  /\ pc = "halt" => temp
  /\ pc = "rewrite" => Good(rom)
  /\ pc = "run" =>
       /\ task # "write" => conf \in Roms /\ Good(conf)
       /\ task # "wait" => \E r \in Roms : r # to /\ Good(r)
       /\ task \notin {"wait", "write"} => to # conf
       /\ ~temp => /\ Good(rom)
                   /\ task # "write" => rom = conf
                   /\ task = "write" => rom # to

IInv == Types /\ Safe

(* A slot that does not change is as good as it was.                       *)
LEMMA GoodUnchanged ==
  ASSUME NEW r, slot'[r] = slot[r]
  PROVE  Good(r)' <=> Good(r)
BY DEF Good, check_image, Headers, ChecksumRight

(* Init establishes the invariant: ROM 0 was flashed with a good image.    *)
LEMMA InitSafe == Init => IInv
<1> SUFFICES ASSUME Init PROVE IInv
  OBVIOUS
<1>1. Types
  <2>1. PICK i \in Images, j \in Images \cup {Erased} :
          slot = [r \in Roms |-> [k \in Blocks |->
                    IF r = 0 /\ k <= Size[i] THEN <<i, k>>
                    ELSE IF r # 0 /\ j # Erased /\ k <= Size[j] THEN <<j, k>>
                    ELSE Erased]]
    BY Zenon DEF Init
  <2>2. slot \in [Roms -> {slot[r] : r \in Roms}]
    BY <2>1
  <2>3. \E S : slot \in [Roms -> S]
    BY <2>2, Zenon
  <2>4. /\ conf \in 0 .. RomCount \cup {Erased}
        /\ rtc = None /\ pc = "boot" /\ rom = 0 /\ to = 0 /\ temp = FALSE
        /\ task = "wait"
    BY DEF Init
  <2>5. 0 \in Roms
    BY DEF Roms, RomCount
  <2> QED
    BY <2>3, <2>4, <2>5, Zenon DEF Types
<1>2. Good(0)
  BY DEF Init, Good
<1> QED
  BY <1>1, <1>2 DEF Init, IInv, Safe, Roms, RomCount

(* Steps of the peer, of the network, and of the receiving loop that only  *)
(* change what the invariant does not mention.                             *)
LEMMA ElsewhereSafe ==
  ASSUME IInv, UNCHANGED <<conf, rtc, slot, pc, rom, temp, task, to>>
  PROVE  IInv'
<1>1. Types'
  BY DEF IInv, Types
<1>2. \A r : Good(r)' <=> Good(r)
  BY GoodUnchanged
<1>3. Safe'
  BY <1>2 DEF IInv, Safe
<1> QED
  BY <1>1, <1>3 DEF IInv

(* The chip restarts, with the flash as it is.                             *)
LEMMA RebootSafe ==
  ASSUME IInv, Reboot, slot' = slot,
         conf' \in 0 .. RomCount \cup {Erased},
         rtc' \in 0 .. RomCount \cup {None},
         rtc' # None => conf' \in Roms /\ check_image(slot[conf'])
  PROVE  IInv'
<1>1. Types'
  <2>1. \E S : slot' \in [Roms -> S]
    BY DEF IInv, Types
  <2>2. pc' = "boot" /\ rom' = 0 /\ to' = 0 /\ temp' = FALSE /\ task' = "wait"
    BY DEF Reboot
  <2>3. 0 \in Roms
    BY DEF Roms, RomCount
  <2> QED
    BY <2>1, <2>2, <2>3, Zenon DEF Types
<1>2. \A r : Good(r)' <=> Good(r)
  BY GoodUnchanged
<1>3. rtc' # None => conf' \in Roms /\ Good(conf')
  BY DEF Good
<1>4. Safe'
  BY <1>2, <1>3 DEF IInv, Types, Safe, Reboot
<1> QED
  BY <1>1, <1>4 DEF IInv

(* tftp_receive_data returns to a task that waits, with the flash as it    *)
(* is.                                                                     *)
LEMMA ReturnSafe ==
  ASSUME IInv, pc = "run", task \notin {"wait", "switch", "write"},
         task' = "wait", to' = 0,
         UNCHANGED <<conf, rtc, slot, pc, rom, temp>>
  PROVE  IInv'
<1>1. Types'
  BY DEF IInv, Types, Roms, RomCount
<1>2. \A r : Good(r)' <=> Good(r)
  BY GoodUnchanged
<1>3. Safe'
  BY <1>2 DEF IInv, Types, Safe
<1> QED
  BY <1>1, <1>3 DEF IInv

(* A write to the slot of the transfer.                                    *)
LEMMA SlotWriteSafe ==
  ASSUME IInv, pc = "run", task \in {"receive", "store"},
         NEW s, slot' = [slot EXCEPT ![to] = s],
         task' \in {"wait", "receive", "store", "verify"},
         to' = IF task' = "wait" THEN 0 ELSE to,
         UNCHANGED <<conf, rtc, pc, rom, temp>>
  PROVE  IInv'
<1>1. Types'
  <2>1. PICK S : slot \in [Roms -> S]
    BY DEF IInv, Types
  <2>2. slot' \in [Roms -> S \cup {s}]
    BY <2>1, Zenon
  <2>3. task' \in {"wait", "receive", "store", "verify", "switch", "write"}
    OBVIOUS
  <2>4. to' \in Roms
    BY DEF IInv, Types, Roms, RomCount
  <2> QED
    BY <2>2, <2>3, <2>4, Zenon DEF IInv, Types
<1>2. ASSUME NEW r \in Roms, r # to
      PROVE  Good(r)' <=> Good(r)
  <2>1. slot'[r] = slot[r]
    BY <1>2 DEF IInv, Types
  <2> QED
    BY <2>1, GoodUnchanged
<1>3. conf \in Roms /\ Good(conf) /\ to # conf /\ rtc = None
  BY DEF IInv, Safe
<1>4. Good(conf)'
  BY <1>2, <1>3
<1>5. ~temp => rom = conf
  BY DEF IInv, Safe
<1>6. Safe'
  BY <1>3, <1>4, <1>5 DEF IInv, Types, Safe, Good
<1> QED
  BY <1>1, <1>6 DEF IInv

(* Every step of the loader keeps the invariant.  It leaves a bad current  *)
(* ROM only for a good one.                                                *)
LEMMA LoaderSafe ==
  ASSUME IInv, Loader
  PROVE  IInv'
<1> USE DEF RomCount
<1>0. Roms = {0, 1}
  BY DEF Roms
<1>1. CASE default_config
  <2>1. \A r : Good(r)' <=> Good(r)
    BY <1>1, GoodUnchanged DEF default_config
  <2>2. rtc = None
    BY <1>1, <1>0, ConstantsAssumption DEF default_config, IInv, Safe
  <2>3. Types'
    BY <1>1 DEF default_config, IInv, Types, bootVars, taskVars
  <2> QED
    BY <1>1, <2>1, <2>2, <2>3
    DEF default_config, IInv, Safe, bootVars, taskVars
<1>2. CASE halt_temp
  <2>1. \A r : Good(r)' <=> Good(r)
    BY <1>2, GoodUnchanged DEF halt_temp
  <2>2. Types'
    BY <1>2 DEF halt_temp, IInv, Types, taskVars, TempBoot
  <2> QED
    BY <1>2, <2>1, <2>2 DEF halt_temp, IInv, Safe, taskVars, TempBoot
<1>3. CASE find_image
  <2> DEFINE good == check_image(slot[FirstChoice])
             r == IF good THEN FirstChoice ELSE Fallback(CurrentRom)
  <2>1. \A q : Good(q)' <=> Good(q)
    BY <1>3, GoodUnchanged DEF find_image
  <2>2. /\ pc = "boot" /\ conf # Erased /\ UNCHANGED slot
        /\ TempBoot => rtc < RomCount
        /\ TempBoot => good
        /\ \/ /\ good /\ ValidCurrent
              /\ Start(r, TempBoot) /\ UNCHANGED conf
           \/ /\ ~(good /\ ValidCurrent)
              /\ temp' = TempBoot
              /\ IF r = None
                   THEN pc' = "halt" /\ UNCHANGED <<conf, rom>>
                   ELSE pc' = "rewrite" /\ conf' = Erased /\ rom' = r
              /\ UNCHANGED <<rtc, taskVars>>
    BY <1>3 DEF find_image
  <2>3. conf \in 0 .. RomCount /\ CurrentRom \in Roms /\ FirstChoice \in Roms
    BY <2>2, <1>0, ConstantsAssumption
    DEF IInv, Types, CurrentRom, FirstChoice, ValidCurrent, TempBoot
  <2>4. TempBoot => ValidCurrent /\ Good(conf)
    BY <1>0, ConstantsAssumption
    DEF IInv, Types, Safe, TempBoot, ValidCurrent
  <2>5. ~good => Good(Before(CurrentRom, 1)) /\ Before(CurrentRom, 1) \in Roms
    <3>1. SUFFICES ASSUME ~good
                   PROVE  Good(Before(CurrentRom, 1))
                          /\ Before(CurrentRom, 1) \in Roms
      OBVIOUS
    <3>2. FirstChoice = CurrentRom
      BY <2>2, <3>1 DEF FirstChoice, TempBoot
    <3>3. PICK q \in Roms : Good(q)
      BY DEF IInv, Safe
    <3>4. q # CurrentRom
      BY <3>1, <3>2, <3>3 DEF Good
    <3>5. q = Before(CurrentRom, 1)
      BY <3>4, <2>3, <1>0 DEF Before
    <3> QED
      BY <3>3, <3>5
  <2>6. ~good => Fallback(CurrentRom) = Before(CurrentRom, 1)
    <3> DEFINE G == { k \in 1 .. RomCount - 1 :
                        check_image(slot[Before(CurrentRom, k)]) }
    <3>1. ASSUME ~good PROVE G = {1}
      <4>1. 1 .. RomCount - 1 = {1}
        OBVIOUS
      <4> QED
        BY <3>1, <4>1, <2>5 DEF Good
    <3>2. ASSUME ~good
          PROVE  (CHOOSE k \in G : \A j \in G : k <= j) = 1
      BY <3>1, <3>2
    <3>3. Fallback(CurrentRom) =
            IF G = {} THEN None
            ELSE Before(CurrentRom, CHOOSE k \in G : \A j \in G : k <= j)
      BY DEF Fallback
    <3> QED
      BY <3>1, <3>2, <3>3
  <2>7. r \in Roms /\ Good(r) /\ r # None
    BY <2>3, <2>5, <2>6, <1>0, ConstantsAssumption DEF Good
  <2>8. CASE good /\ ValidCurrent
    <3>1. Start(r, TempBoot) /\ UNCHANGED <<conf, slot>>
      BY <2>2, <2>8
    <3>2. Good(conf) /\ conf \in Roms
      BY <2>8, <2>3, <2>4, <1>0
      DEF Good, FirstChoice, CurrentRom, TempBoot, ValidCurrent
    <3>3. ~TempBoot => r = conf
      BY <2>8 DEF FirstChoice, CurrentRom
    <3>4. TempBoot \in BOOLEAN
      BY DEF TempBoot
    <3>5. Types'
      BY <3>1, <3>2, <3>4, <2>7, <1>0 DEF IInv, Types, Start
    <3>6. Safe'
      BY <3>1, <3>2, <3>3, <3>4, <2>1, <2>7 DEF Safe, Start
    <3> QED
      BY <3>5, <3>6 DEF IInv
  <2>9. CASE ~(good /\ ValidCurrent)
    <3>1. /\ temp' = TempBoot /\ pc' = "rewrite" /\ conf' = Erased /\ rom' = r
          /\ UNCHANGED <<rtc, task, to, slot>>
      BY <2>2, <2>7, <2>9 DEF taskVars
    <3>2. ~TempBoot
      BY <2>2, <2>4, <2>9
    <3>3. TempBoot \in BOOLEAN
      BY DEF TempBoot
    <3>4. Types'
      BY <3>1, <3>3, <2>7 DEF IInv, Types
    <3>5. Safe'
      BY <3>1, <3>2, <2>1, <2>7 DEF Safe, TempBoot
    <3> QED
      BY <3>4, <3>5 DEF IInv
  <2> QED
    BY <2>8, <2>9
<1>4. CASE rewrite_config
  <2>1. \A r : Good(r)' <=> Good(r)
    BY <1>4, GoodUnchanged DEF rewrite_config
  <2>2. Types'
    BY <1>4, <1>0 DEF rewrite_config, Start, IInv, Types
  <2> QED
    BY <1>4, <2>1, <2>2 DEF rewrite_config, Start, IInv, Types, Safe
<1> QED
  BY <1>1, <1>2, <1>3, <1>4 DEF Loader

(* Every step of a transfer keeps the invariant.  It writes only the slot  *)
(* current_rom does not name.                                              *)
LEMMA DownloadSafe ==
  ASSUME IInv, Download
  PROVE  IInv'
<1> USE DEF RomCount
<1>0. Roms = {0, 1}
  BY DEF Roms
<1>1. ASSUME UNCHANGED slot
      PROVE  (\A r : Good(r)' <=> Good(r))
  BY <1>1, GoodUnchanged
<1>2. ASSUME pc = "run", task = "wait", task' = "receive", to' = NextSlot,
             UNCHANGED <<confVars, slot, bootVars>>
      PROVE  IInv'
  <2>1. conf \in Roms /\ Good(conf) /\ rtc = None
    BY <1>2 DEF IInv, Safe
  <2>2. NextSlot \in Roms /\ NextSlot # conf
    BY <2>1, <1>0 DEF NextSlot
  <2>3. Types'
    BY <1>2, <2>2 DEF IInv, Types, confVars, bootVars
  <2>4. Safe'
    BY <1>1, <1>2, <2>1, <2>2 DEF IInv, Types, Safe, confVars, bootVars
  <2> QED
    BY <2>3, <2>4 DEF IInv
<1>3. CASE tftp_task_wrq
  <2>1. CASE task' = "receive" /\ to' = NextSlot
    BY <1>2, <1>3, <2>1 DEF tftp_task_wrq, Running
  <2>2. CASE UNCHANGED <<to, task>>
    BY <1>3, <2>2, ElsewhereSafe DEF tftp_task_wrq, confVars, bootVars
  <2> QED
    BY <1>3, <2>1, <2>2 DEF tftp_task_wrq
<1>4. CASE ota_tftp_download
  BY <1>2, <1>4 DEF ota_tftp_download, Running
<1>5. CASE receive_timeout
  <2>1. CASE UNCHANGED <<task, to>>
    BY <1>5, <2>1, ElsewhereSafe DEF receive_timeout, confVars, bootVars
  <2>2. CASE Return("wait", mbox)
    BY <1>5, <2>2, ReturnSafe
    DEF receive_timeout, Return, Running, confVars, bootVars
  <2> QED
    BY <1>5, <2>1, <2>2 DEF receive_timeout
<1>6. CASE receive_error
  BY <1>6, ReturnSafe DEF receive_error, Return, Running, confVars, bootVars
<1>7. CASE receive_other
  <2>1. CASE UNCHANGED <<task, to>>
    BY <1>7, <2>1, ElsewhereSafe DEF receive_other, confVars, bootVars
  <2>2. CASE Return("wait", Tail(mbox))
    BY <1>7, <2>2, ReturnSafe
    DEF receive_other, Return, Running, confVars, bootVars
  <2> QED
    BY <1>7, <2>1, <2>2 DEF receive_other
<1>8. CASE receive_block
  <2>1. pc = "run" /\ task = "receive" /\ UNCHANGED <<conf, rtc, pc, rom, temp>>
    BY <1>8 DEF receive_block, Running, confVars, bootVars
  <2>2. PICK s : slot' = [slot EXCEPT ![to] = s]
    BY <1>8, Zenon DEF receive_block
  <2>3. \/ task' = "wait" /\ to' = 0
        \/ task' = "store" /\ to' = to
    BY <1>8 DEF receive_block, Return
  <2> QED
    BY <2>1, <2>2, <2>3, SlotWriteSafe, Zenon
<1>9. CASE store_block
  <2>1. pc = "run" /\ task = "store" /\ UNCHANGED <<conf, rtc, pc, rom, temp>>
    BY <1>9 DEF store_block, Running, confVars, bootVars
  <2>2. PICK s : slot' = [slot EXCEPT ![to] = s]
    BY <1>9, Zenon DEF store_block
  <2>3. \/ task' = "wait" /\ to' = 0
        \/ task' \in {"receive", "verify"} /\ to' = to
    BY <1>9 DEF store_block, Return
  <2> QED
    BY <2>1, <2>2, <2>3, SlotWriteSafe, Zenon
<1>10. CASE verify_image
  <2>1. /\ pc = "run" /\ task = "verify"
        /\ UNCHANGED <<conf, rtc, slot, pc, rom, temp>>
    BY <1>10 DEF verify_image, Running, confVars, bootVars
  <2>2. CASE task' = "wait" /\ to' = 0
    BY <2>1, <2>2, ReturnSafe
  <2>3. CASE task' = "switch" /\ to' = to
    <3>1. Types'
      BY <2>1, <2>3 DEF IInv, Types
    <3>2. Safe'
      BY <1>1, <2>1, <2>3 DEF IInv, Types, Safe
    <3> QED
      BY <3>1, <3>2 DEF IInv
  <2> QED
    BY <1>10, <2>2, <2>3 DEF verify_image, Return
<1>11. CASE rboot_set_config_erase
  <2>1. CASE Reboot /\ UNCHANGED conf
    <3>1. rtc' = None /\ conf' \in 0 .. RomCount \cup {Erased}
      BY <1>11, <2>1 DEF rboot_set_config_erase, Running, IInv, Types, Safe
    <3> QED
      BY <1>11, <2>1, <3>1, RebootSafe DEF rboot_set_config_erase
  <2>2. CASE conf' = Erased /\ task' = "write" /\ UNCHANGED <<bootVars, to>>
    <3>1. pc = "run" /\ task = "switch" /\ UNCHANGED <<rtc, slot>>
      BY <1>11 DEF rboot_set_config_erase, Running
    <3>2. Types'
      BY <2>2, <3>1 DEF IInv, Types, bootVars
    <3>3. Safe'
      BY <1>1, <2>2, <3>1 DEF IInv, Types, Safe, bootVars
    <3> QED
      BY <3>2, <3>3 DEF IInv
  <2> QED
    BY <1>11, <2>1, <2>2 DEF rboot_set_config_erase
<1>12. CASE rboot_set_config_write
  <2>1. rtc' = None /\ conf' \in 0 .. RomCount
    BY <1>12, <1>0 DEF rboot_set_config_write, Running, IInv, Types, Safe
  <2> QED
    BY <1>12, <2>1, RebootSafe DEF rboot_set_config_write
<1> QED
  BY <1>3, <1>4, <1>5, <1>6, <1>7, <1>8, <1>9, <1>10, <1>11, <1>12 DEF Download, Progress

(* Every step keeps the invariant.                                         *)
LEMMA StepSafe ==
  ASSUME IInv, [Next]_vars
  PROVE  IInv'
<1>1. CASE Loader
  BY <1>1, LoaderSafe
<1>2. CASE Download
  BY <1>2, DownloadSafe
<1>3. CASE rboot_set_temp_rom
  <2>1. conf \in Roms /\ check_image(slot[conf]) /\ UNCHANGED <<conf, slot>>
    BY <1>3 DEF rboot_set_temp_rom, Running, IInv, Safe, Good
  <2>2. conf' \in 0 .. RomCount /\ rtc' \in 0 .. RomCount
    BY <1>3, <2>1 DEF rboot_set_temp_rom, Roms, RomCount
  <2> QED
    BY <1>3, <2>1, <2>2, RebootSafe DEF rboot_set_temp_rom
<1>4. CASE Reset
  <2>1. conf' = conf /\ rtc' = rtc /\ slot' = slot
    BY <1>4 DEF Reset, confVars
  <2>2. rtc # None => conf \in Roms /\ check_image(slot[conf])
    BY DEF IInv, Safe, Good
  <2> QED
    BY <1>4, <2>1, <2>2, RebootSafe DEF Reset, IInv, Types
<1>5. CASE PowerCut
  BY <1>5, RebootSafe DEF PowerCut, IInv, Types
<1>6. CASE Network
  <2>1. UNCHANGED <<conf, rtc, slot, pc, rom, temp, task, to>>
    BY <1>6 DEF Network, PeerOffers, PeerRepeats, PeerGivesUp, recv_udp, Lose,
                confVars, bootVars, taskVars
  <2> QED
    BY <2>1, ElsewhereSafe
<1>7. CASE UNCHANGED vars
  BY <1>7, ElsewhereSafe DEF vars, confVars, bootVars, taskVars
<1> QED
  BY <1>1, <1>2, <1>3, <1>4, <1>5, <1>6, <1>7 DEF Next

(* The invariant holds in every state.                                     *)
LEMMA Invariance == Spec => []IInv
<1> QED
  BY InitSafe, StepSafe, PTL DEF Spec

(* No sequence of updates, power failures, resets and network faults       *)
(* leaves the device without a ROM that find_image starts.                 *)
THEOREM UpdateKeepsBootable == Spec => []AlwaysBootable
<1>1. IInv => AlwaysBootable
  BY DEF IInv, Safe, Good, AlwaysBootable
<1> QED
  BY <1>1, Invariance, PTL

(* No transfer writes the slot a normally booted application runs from.    *)
THEOREM RunningSlotIntact == Spec => []RunningIntact
<1>1. IInv => RunningIntact
  BY DEF IInv, Types, Safe, Good, RunningIntact, Running
<1> QED
  BY <1>1, Invariance, PTL

(* Only the slot that current_rom does not name is ever written.           *)
THEOREM OnlySpareSlotWritten == Spec => CurrentUntouched
<1>1. ASSUME IInv, [Next]_vars
      PROVE  [\A r \in Roms : slot'[r] # slot[r] => conf \in Roms \ {r}]_vars
  <2> SUFFICES ASSUME Next, NEW r \in Roms, slot'[r] # slot[r]
               PROVE  conf \in Roms \ {r}
    BY <1>1
  <2>1. receive_block \/ store_block
    BY DEF Next, Loader, default_config, halt_temp, find_image, rewrite_config,
           Download, Progress, tftp_task_wrq, ota_tftp_download, receive_timeout,
           receive_error, receive_other, verify_image, rboot_set_config_erase,
           rboot_set_config_write, rboot_set_temp_rom, Reset, PowerCut, Network,
           PeerOffers, PeerRepeats, PeerGivesUp, recv_udp, Lose
  <2>2. pc = "run" /\ task \in {"receive", "store"}
    BY <2>1 DEF receive_block, store_block, Running
  <2>3. conf \in Roms /\ to # conf
    BY <1>1, <2>2 DEF IInv, Safe
  <2>4. r = to
    <3>1. PICK s : slot' = [slot EXCEPT ![to] = s]
      BY <2>1 DEF receive_block, store_block
    <3> QED
      BY <1>1, <3>1 DEF IInv, Types
  <2> QED
    BY <2>3, <2>4
<1> QED
  BY <1>1, Invariance, PTL DEF Spec, CurrentUntouched
-----------------------------------------------------------------------------
(* What tftp_receive_data finds in the flash.                              *)

(* Division with remainder is unique.                                      *)
LEMMA SmallMultiple ==
  ASSUME NEW d \in Nat \ {0}, NEW k \in Int, d * k < d, -d < d * k
  PROVE  k = 0
OBVIOUS

(* A remainder is unique.                                                  *)
LEMMA Remainder ==
  ASSUME NEW d \in Nat \ {0}, NEW q \in Nat, NEW p \in Nat,
         NEW r \in 0 .. d - 1, NEW s \in 0 .. d - 1, d * q + r = d * p + s
  PROVE  r = s
<1>1. d * (q - p) = s - r
  OBVIOUS
<1>2. q - p = 0
  BY <1>1, SmallMultiple
<1> QED
  BY <1>2

(* Quotient and remainder.                                                 *)
LEMMA Division ==
  ASSUME NEW n \in Nat, NEW d \in Nat \ {0}
  PROVE  /\ n = (d * (n \div d)) + (n % d)
         /\ n \div d \in Nat /\ n % d \in 0 .. d - 1
OBVIOUS

(* The next block is the next of its sector, or the first of another.      *)
LEMMA NextOffset ==
  ASSUME NEW n \in Nat, NEW d \in Nat \ {0}
  PROVE  (n + 1) % d = IF (n % d) + 1 = d THEN 0 ELSE (n % d) + 1
<1> DEFINE q == n \div d
           r == n % d
           p == (n + 1) \div d
           s == (n + 1) % d
<1>1. /\ q \in Nat /\ r \in 0 .. d - 1 /\ n = d * q + r
      /\ p \in Nat /\ s \in 0 .. d - 1 /\ n + 1 = d * p + s
  <2>1. n + 1 \in Nat
    OBVIOUS
  <2> HIDE DEF q, r, p, s
  <2>2. q \in Nat /\ r \in 0 .. d - 1 /\ n = d * q + r
    BY Division, Zenon DEF q, r
  <2>3. p \in Nat /\ s \in 0 .. d - 1 /\ n + 1 = d * p + s
    BY <2>1, Division, Zenon DEF p, s
  <2> QED
    BY <2>2, <2>3
<1> HIDE DEF q, r, p, s
<1>2. CASE r + 1 = d
  <2>1. d * (q + 1) + 0 = d * p + s
    BY <1>1, <1>2
  <2>2. q + 1 \in Nat /\ 0 \in 0 .. d - 1
    BY <1>1
  <2>3. 0 = s
    BY <2>1, <2>2, <1>1, Remainder
  <2> QED
    BY <2>3, <1>2 DEF r, s
<1>3. CASE r + 1 # d
  <2>1. d * q + (r + 1) = d * p + s
    BY <1>1
  <2>2. r + 1 \in 0 .. d - 1
    BY <1>1, <1>3
  <2>3. r + 1 = s
    BY <2>1, <2>2, <1>1, Remainder
  <2> QED
    BY <2>3, <1>3 DEF r, s
<1> QED
  BY <1>2, <1>3

(* A block's place in its sector, and the blocks from the one that is      *)
(* awaited to the end of its sector.                                       *)
Offset == (block - 1) % SectorBlocks
Ahead == block .. block - Offset + SectorBlocks - 1
Clear == \A k \in Blocks : k \in Ahead => slot[to][k] = Erased

(* No block is spoilt.                                                     *)
Flash == slot \in [Roms -> [Blocks -> Cells \ {Spoilt}]]

Session ==
  /\ role \in {"server", "client"} /\ file1 \in BOOLEAN
  /\ block \in Nat \ {0} /\ retries \in 0 .. Retransmits
  /\ conn \in Tids \cup {None}
  /\ mbox \in Seq(Packet) /\ pkt \in Packet \cup {None}

Traffic ==
  /\ net \subseteq Packet
  /\ \/ peer = None
     \/ peer \in [tid : Tids, img : Images, blk : Nat, tries : 0 .. MaxTries]

(* What is left of the sector being written is erased: while the task      *)
(* waits for a block inside a sector, and whenever it holds a block to     *)
(* write.                                                                  *)
Ready ==
  /\ task = "receive" /\ Offset # 0 => Clear
  /\ task = "store" => /\ pkt \in Packet /\ pkt.blk = block /\ block \in Blocks
                       /\ Clear

Written == Flash /\ Session /\ Traffic /\ Ready

(* A chip is flashed with whole images.                                    *)
LEMMA InitWritten == Init => Written
<1> SUFFICES ASSUME Init PROVE Written
  OBVIOUS
<1>1. Flash
  <2>1. PICK i \in Images, j \in Images \cup {Erased} :
          slot = [r \in Roms |-> [k \in Blocks |->
                    IF r = 0 /\ k <= Size[i] THEN <<i, k>>
                    ELSE IF r # 0 /\ j # Erased /\ k <= Size[j] THEN <<j, k>>
                    ELSE Erased]]
    BY Zenon DEF Init
  <2>2. \A k \in Blocks, m \in Images : <<m, k>> \in Cells \ {Spoilt}
    BY ConstantsAssumption DEF Cells, Blocks
  <2>3. Erased \in Cells \ {Spoilt}
    BY ConstantsAssumption DEF Cells
  <2>4. i \in Images /\ (j # Erased => j \in Images)
    BY ConstantsAssumption
  <2> QED
    BY <2>1, <2>2, <2>3, <2>4 DEF Flash
<1>2. Session
  BY ConstantsAssumption DEF Init, Session
<1> QED
  BY <1>1, <1>2 DEF Init, Written, Traffic, Ready

(* The peer's packets are packets.                                         *)
LEMMA PeerPacket ==
  ASSUME NEW p \in [tid : Tids, img : Images, blk : Nat, tries : 0 .. MaxTries]
  PROVE  PacketOf(p) \in Packet
<1>1. CASE p.blk = 0
  BY <1>1 DEF PacketOf, Packet
<1>2. CASE p.blk # 0
  BY <1>2 DEF PacketOf, Packet
<1> QED
  BY <1>1, <1>2

(* An acknowledgement keeps the traffic well formed.                       *)
LEMMA AckTraffic ==
  ASSUME Traffic, NEW t, NEW k \in Nat, tftp_send_ack(t, k)
  PROVE  Traffic'
<1>1. CASE UNCHANGED <<net, peer>>
  BY <1>1 DEF Traffic
<1>2. CASE peer # None /\ peer' = None /\ UNCHANGED net
  BY <1>2 DEF Traffic
<1>3. CASE /\ peer # None
           /\ peer' = [peer EXCEPT !.blk = k + 1, !.tries = MaxTries]
           /\ net' = net \cup {PacketOf(peer')}
  <2>0. k + 1 \in Nat /\ MaxTries \in 0 .. MaxTries
    BY ConstantsAssumption
  <2>1. peer' \in [tid : Tids, img : Images, blk : Nat, tries : 0 .. MaxTries]
    BY <1>3, <2>0, Zenon DEF Traffic
  <2>2. PacketOf(peer') \in Packet
    BY <2>1, PeerPacket
  <2> QED
    BY <1>3, <2>1, <2>2 DEF Traffic
<1> QED
  BY <1>1, <1>2, <1>3 DEF tftp_send_ack

(* So does a peer that begins a transfer.                                  *)
LEMMA BeginTraffic ==
  ASSUME Traffic, NEW first \in Nat, Begin(first)
  PROVE  Traffic'
<1>1. PICK t \in Tids, i \in Images :
        /\ peer' = [tid |-> t, img |-> i, blk |-> first, tries |-> MaxTries]
        /\ net' = net \cup {PacketOf(peer')}
  BY DEF Begin
<1>2. peer' \in [tid : Tids, img : Images, blk : Nat, tries : 0 .. MaxTries]
  BY <1>1, ConstantsAssumption
<1>3. PacketOf(peer') \in Packet
  BY <1>2, PeerPacket
<1> QED
  BY <1>1, <1>2, <1>3 DEF Traffic

(* The task that a restart, a loader or a return leaves has nothing to     *)
(* write.                                                                  *)
LEMMA IdleWritten ==
  ASSUME Written, UNCHANGED slot, Session', Traffic',
         task' \notin {"receive", "store"}
  PROVE  Written'
BY DEF Written, Flash, Ready

(* A restart ends the transfer and leaves the flash as it is.              *)
LEMMA RebootWritten ==
  ASSUME Written, Reboot, UNCHANGED slot
  PROVE  Written'
<1>1. Session'
  BY ConstantsAssumption DEF Reboot, Session
<1>2. Traffic'
  BY DEF Reboot, Traffic
<1> QED
  BY <1>1, <1>2, IdleWritten DEF Reboot

(* So does the end of a transfer: tftp_task waits for the next.            *)
LEMMA ReturnSession ==
  ASSUME Session, NEW next, NEW rest \in Seq(Packet), Return(next, rest)
  PROVE  Session'
<1>1. mbox' \in Seq(Packet)
  BY DEF Return
<1>2. file1' \in BOOLEAN
  BY Zenon DEF Return, Session
<1>3. 0 \in 0 .. Retransmits
  BY ConstantsAssumption
<1> QED
  BY <1>1, <1>2, <1>3 DEF Return, Session

(* The boot loader writes to no slot.                                      *)
LEMMA LoaderWritten ==
  ASSUME Written, Loader
  PROVE  Written'
<1>1. UNCHANGED <<slot, net, peer>>
  BY DEF Loader, default_config, halt_temp, find_image, rewrite_config
<1>2. Traffic'
  BY <1>1 DEF Written, Traffic
<1>3. \/ UNCHANGED taskVars
      \/ /\ role' \in {"server", "client"} /\ task' = "wait" /\ file1' = TRUE
         /\ block' = 1 /\ retries' = 0 /\ conn' = None /\ mbox' = <<>>
         /\ pkt' = None
  BY DEF Loader, default_config, halt_temp, find_image, rewrite_config, Start
<1>4. CASE UNCHANGED taskVars
  BY <1>1, <1>2, <1>4
  DEF taskVars, Written, Flash, Session, Ready, Clear, Ahead, Offset
<1>5. CASE /\ role' \in {"server", "client"} /\ task' = "wait" /\ file1' = TRUE
           /\ block' = 1 /\ retries' = 0 /\ conn' = None /\ mbox' = <<>>
           /\ pkt' = None
  <2>1. Session'
    BY <1>5, ConstantsAssumption DEF Session
  <2> QED
    BY <1>1, <1>2, <1>5, <2>1, IdleWritten
<1> QED
  BY <1>3, <1>4, <1>5, Zenon

(* Nor does the network.                                                   *)
LEMMA NetworkWritten ==
  ASSUME Written, Network
  PROVE  Written'
<1>1. UNCHANGED <<slot, role, task, to, file1, block, retries, conn, pkt>>
  BY DEF Network, PeerOffers, PeerRepeats, PeerGivesUp, recv_udp, Lose, taskVars
<1>2. mbox' \in Seq(Packet)
  BY DEF Network, PeerOffers, PeerRepeats, PeerGivesUp, recv_udp, Lose, taskVars,
         Written, Session, Traffic
<1>3. Flash' /\ Session' /\ Ready'
  BY <1>1, <1>2 DEF Written, Flash, Session, Ready, Clear, Ahead, Offset
<1>4. Traffic'
  <2>1. CASE PeerOffers
    BY <2>1, BeginTraffic DEF PeerOffers, Written
  <2>2. CASE PeerRepeats
    <3>1. peer \in [tid : Tids, img : Images, blk : Nat, tries : 0 .. MaxTries]
      BY <2>2 DEF PeerRepeats, Written, Traffic
    <3>2. PacketOf(peer) \in Packet
      BY <3>1, PeerPacket
    <3>3. peer' \in [tid : Tids, img : Images, blk : Nat, tries : 0 .. MaxTries]
      BY <2>2, <3>1, ConstantsAssumption DEF PeerRepeats
    <3> QED
      BY <2>2, <3>2, <3>3 DEF PeerRepeats, Written, Traffic
  <2>3. CASE PeerGivesUp
    BY <2>3 DEF PeerGivesUp, Written, Traffic
  <2>4. CASE recv_udp \/ Lose
    BY <2>4 DEF recv_udp, Lose, Written, Traffic
  <2> QED
    BY <2>1, <2>2, <2>3, <2>4 DEF Network
<1> QED
  BY <1>3, <1>4 DEF Written

(* Erase leaves a block-sized row of cells, with the sector erased that    *)
(* the block starts.                                                       *)
LEMMA EraseCells ==
  ASSUME NEW s \in [Blocks -> Cells \ {Spoilt}], NEW k
  PROVE  Erase(s, k) \in [Blocks -> Cells \ {Spoilt}]
<1>1. Erased \in Cells \ {Spoilt}
  BY ConstantsAssumption DEF Cells
<1> QED
  BY <1>1 DEF Erase

(* Writing a block to an erased cell spoils nothing.                       *)
LEMMA WriteCells ==
  ASSUME NEW s \in [Blocks -> Cells \ {Spoilt}], NEW k \in Blocks,
         s[k] = Erased, NEW i \in Images, NEW n \in Blocks
  PROVE  Write(s, k, <<i, n>>) \in [Blocks -> Cells \ {Spoilt}]
<1>1. <<i, n>> \in Cells \ {Spoilt}
  BY ConstantsAssumption DEF Cells, Blocks
<1>2. Write(s, k, <<i, n>>) = [s EXCEPT ![k] = <<i, n>>]
  BY DEF Write
<1> QED
  BY <1>1, <1>2, Zenon

(* A transfer starts at the first block of a sector.                       *)
LEMMA TransferStarts ==
  ASSUME Written, UNCHANGED <<slot, role, file1, pkt>>, Traffic',
         task' = "receive", block' = 1, retries' = Retransmits,
         conn' \in Tids \cup {None}, mbox' \in Seq(Packet)
  PROVE  Written'
<1>1. 0 % SectorBlocks = 0
  BY ConstantsAssumption
<1>2. Offset' = 0
  BY <1>1 DEF Offset
<1>3. Ready'
  BY <1>2 DEF Ready
<1>4. Session'
  BY ConstantsAssumption DEF Written, Session
<1> QED
  BY <1>3, <1>4 DEF Written, Flash

(* Every step of a transfer keeps the invariant.                           *)
LEMMA DownloadWritten ==
  ASSUME IInv, Written, Download
  PROVE  Written'
<1>0. /\ Flash /\ Session /\ Traffic /\ Ready /\ to \in Roms
      /\ block \in Nat /\ block - 1 \in Nat
  BY DEF Written, Session, IInv, Types
<1>1. ASSUME mbox # <<>>
      PROVE  Head(mbox) \in Packet /\ Tail(mbox) \in Seq(Packet)
  BY <1>0, <1>1 DEF Session
<1>2. ASSUME Traffic',
             UNCHANGED <<slot, role, task, to, file1, block, pkt>>,
             retries' \in 0 .. Retransmits,
             conn' \in Tids \cup {None}, mbox' \in Seq(Packet)
      PROVE  Written'
  <2>1. Session'
    BY <1>0, <1>2 DEF Session
  <2>2. Ready'
    BY <1>0, <1>2 DEF Ready, Clear, Ahead, Offset
  <2> QED
    BY <1>0, <1>2, <2>1, <2>2 DEF Written, Flash
<1>3. ASSUME Return("wait", mbox) \/ (mbox # <<>> /\ Return("wait", Tail(mbox))),
             Flash', Traffic'
      PROVE  Written'
  <2>1. mbox \in Seq(Packet)
    BY <1>0 DEF Session
  <2>2. Session'
    BY <1>0, <1>1, <1>3, <2>1, ReturnSession, Zenon
  <2>3. task' = "wait"
    BY <1>3 DEF Return
  <2> QED
    BY <1>3, <2>2, <2>3 DEF Written, Ready
<1>4. CASE tftp_task_wrq
  <2>1. mbox # <<>> /\ mbox' = Tail(mbox) /\ mbox' \in Seq(Packet)
    BY <1>1, <1>4 DEF tftp_task_wrq
  <2>2. UNCHANGED <<slot, role, file1, pkt>>
    BY <1>4 DEF tftp_task_wrq
  <2>3. CASE UNCHANGED <<conn, to, task, block, retries, net, peer>>
    <3>1. Traffic'
      BY <1>0, <2>3 DEF Traffic
    <3> QED
      BY <1>0, <1>2, <2>1, <2>2, <2>3, <3>1 DEF Session
  <2>4. CASE /\ conn' = Head(mbox).tid
             /\ task' = "receive" /\ block' = 1 /\ retries' = Retransmits
             /\ tftp_send_ack(Head(mbox).tid, 0)
    <3>1. Traffic'
      BY <1>0, <2>4, AckTraffic
    <3>2. conn' \in Tids
      BY <1>1, <2>1, <2>4 DEF Packet
    <3> QED
      BY <2>1, <2>2, <2>4, <3>1, <3>2, TransferStarts
  <2> QED
    BY <1>4, <2>3, <2>4 DEF tftp_task_wrq
<1>5. CASE ota_tftp_download
  <2>1. Traffic'
    <3>1. CASE UNCHANGED <<net, peer>>
      BY <1>0, <3>1 DEF Traffic
    <3>2. CASE Begin(1)
      BY <1>0, <3>2, BeginTraffic
    <3> QED
      BY <1>5, <3>1, <3>2 DEF ota_tftp_download
  <2>2. conn' \in Tids \cup {None} /\ mbox' \in Seq(Packet)
    BY <1>0, <1>5 DEF ota_tftp_download, Session
  <2> QED
    BY <1>5, <2>1, <2>2, TransferStarts DEF ota_tftp_download
<1>6. CASE receive_timeout
  <2>1. UNCHANGED slot
    BY <1>6 DEF receive_timeout
  <2>2. Flash'
    BY <1>0, <2>1 DEF Flash
  <2>3. CASE /\ retries > 0 /\ retries' = retries - 1
             /\ tftp_send_ack(conn, block - 1)
             /\ UNCHANGED <<role, task, to, file1, block, conn, mbox, pkt>>
    <3>1. Traffic'
      BY <1>0, <2>3, AckTraffic
    <3>2. retries' \in 0 .. Retransmits
      BY <1>0, <2>3, ConstantsAssumption DEF Session
    <3> QED
      BY <1>0, <1>2, <2>1, <2>3, <3>1, <3>2 DEF Session
  <2>4. CASE Return("wait", mbox) /\ UNCHANGED <<net, peer>>
    <3>1. Traffic'
      BY <1>0, <2>4 DEF Traffic
    <3> QED
      BY <1>3, <2>2, <2>4, <3>1
  <2> QED
    BY <1>6, <2>3, <2>4 DEF receive_timeout
<1>7. CASE receive_error
  <2>1. Flash' /\ Traffic'
    BY <1>0, <1>7 DEF receive_error, Flash, Traffic
  <2> QED
    BY <1>3, <1>7, <2>1 DEF receive_error
<1>8. CASE receive_other
  <2> DEFINE p == Head(mbox)
  <2>1. UNCHANGED slot /\ mbox # <<>> /\ Flash'
    BY <1>0, <1>8 DEF receive_other, Flash
  <2>2. CASE /\ p.op = "DATA" /\ p.blk = block - 1
             /\ mbox' = Tail(mbox) /\ conn' = Connected(p)
             /\ tftp_send_ack(Connected(p), p.blk)
             /\ UNCHANGED <<role, task, to, file1, block, retries, pkt>>
    <3>1. Traffic'
      BY <1>0, <2>2, AckTraffic
    <3>2. conn' \in Tids \cup {None}
      BY <1>0, <1>1, <2>1, <2>2 DEF Connected, Packet, Session
    <3> QED
      BY <1>0, <1>1, <1>2, <2>1, <2>2, <3>1, <3>2 DEF Session
  <2>3. CASE Return("wait", Tail(mbox)) /\ UNCHANGED <<net, peer>>
    <3>1. Traffic'
      BY <1>0, <2>3 DEF Traffic
    <3> QED
      BY <1>3, <2>1, <2>3, <3>1
  <2> QED
    BY <1>8, <2>2, <2>3 DEF receive_other
<1>9. CASE receive_block
  <2> DEFINE p == Head(mbox)
  <2>1. /\ mbox # <<>> /\ p.blk = block /\ p \in Packet /\ task = "receive"
        /\ slot' = [slot EXCEPT ![to] = Erase(slot[to], block)]
        /\ UNCHANGED <<net, peer>>
    BY <1>1, <1>9 DEF receive_block
  <2>2. slot[to] \in [Blocks -> Cells \ {Spoilt}]
    BY <1>0 DEF Flash
  <2>3. Erase(slot[to], block) \in [Blocks -> Cells \ {Spoilt}]
    BY <2>2, EraseCells
  <2>4. Flash'
    BY <1>0, <2>1, <2>3 DEF Flash
  <2>5. Traffic'
    BY <1>0, <2>1 DEF Traffic
  <2>6. CASE Return("wait", Tail(mbox))
    BY <1>3, <2>1, <2>4, <2>5, <2>6
  <2>7. CASE /\ ~TooLarge(p) /\ task' = "store" /\ pkt' = p
             /\ mbox' = Tail(mbox) /\ conn' = Connected(p)
             /\ retries' = Retransmits
             /\ UNCHANGED <<role, to, file1, block>>
    <3>1. conn' \in Tids \cup {None}
      BY <1>0, <2>1, <2>7 DEF Connected, Packet, Session
    <3>2. Session'
      <4>1. retries' \in 0 .. Retransmits
        BY <2>7, ConstantsAssumption
      <4> QED
        BY <1>0, <1>1, <2>1, <2>7, <3>1, <4>1, ZenonT(20) DEF Session
    <3>3. block \in Blocks
      <4>1. block \in Nat \ {0} /\ ~(block > MaxBlocks)
        BY <1>0, <2>1, <2>7 DEF TooLarge, Session
      <4> QED
        BY <4>1, ConstantsAssumption DEF Blocks
    <3>4. slot'[to] = Erase(slot[to], block)
      BY <1>0, <2>1 DEF Flash
    <3>5. ASSUME NEW k \in Blocks, k \in Ahead
          PROVE  slot'[to][k] = Erased
      <4>1. CASE Offset = 0
        <5>1. k \in block .. block + SectorBlocks - 1
          BY <1>0, <3>5, <4>1, ConstantsAssumption DEF Ahead
        <5> QED
          BY <3>4, <4>1, <5>1 DEF Erase, Offset
      <4>2. CASE Offset # 0
        <5>1. slot[to][k] = Erased
          BY <1>0, <2>1, <3>5, <4>2 DEF Ready, Clear
        <5> QED
          BY <3>4, <4>2, <5>1 DEF Erase, Offset
      <4> QED
        BY <4>1, <4>2
    <3>6. Ahead' = Ahead /\ to' = to
      BY <2>7 DEF Ahead, Offset
    <3>7. Clear'
      BY <3>5, <3>6 DEF Clear
    <3>8. Ready'
      BY <2>1, <2>7, <3>3, <3>7 DEF Ready
    <3> QED
      BY <2>4, <2>5, <3>2, <3>8 DEF Written
  <2> QED
    BY <1>9, <2>6, <2>7 DEF receive_block
<1>10. CASE store_block
  <2>1. /\ task = "store" /\ pkt \in Packet /\ pkt.blk = block /\ Clear
        /\ block \in Blocks /\ pkt.img \in Images
        /\ slot' = [slot EXCEPT ![to] =
                      Write(slot[to], block, <<pkt.img, pkt.blk>>)]
    BY <1>0, <1>10 DEF store_block, Ready, Packet
  <2>2. Offset \in 0 .. SectorBlocks - 1
    BY <1>0, ConstantsAssumption DEF Offset
  <2>3. block \in Ahead
    BY <1>0, <2>2, ConstantsAssumption DEF Ahead
  <2>4. slot[to] \in [Blocks -> Cells \ {Spoilt}] /\ slot[to][block] = Erased
    BY <1>0, <2>1, <2>3 DEF Flash, Clear
  <2>5. Write(slot[to], block, <<pkt.img, pkt.blk>>)
          \in [Blocks -> Cells \ {Spoilt}]
    BY <2>1, <2>4, WriteCells
  <2>6. Flash'
    BY <1>0, <2>1, <2>5 DEF Flash
  <2>7. CASE /\ task' = "verify"
             /\ UNCHANGED <<role, to, file1, block, retries, conn, mbox, pkt,
                            net, peer>>
    BY <1>0, <2>6, <2>7 DEF Written, Session, Traffic, Ready
  <2>8. CASE /\ task' = "receive" /\ block' = block + 1 /\ pkt' = None
             /\ tftp_send_ack(conn, block)
             /\ UNCHANGED <<role, to, file1, retries, conn, mbox>>
    <3>1. Traffic'
      BY <1>0, <2>8, AckTraffic
    <3>2. Session'
      BY <1>0, <2>8 DEF Session
    <3>3. Offset' = IF Offset + 1 = SectorBlocks THEN 0 ELSE Offset + 1
      <4>1. Offset' = (block - 1 + 1) % SectorBlocks
        BY <1>0, <2>8 DEF Offset
      <4> QED
        BY <1>0, <4>1, NextOffset, ConstantsAssumption, Zenon DEF Offset
    <3>4. ASSUME Offset' # 0, NEW k \in Blocks, k \in Ahead'
          PROVE  slot'[to'][k] = Erased
      <4>1. k \in block + 1 .. block + 1 - (Offset + 1) + SectorBlocks - 1
        <5>1. Offset' = Offset + 1
          BY <3>3, <3>4
        <5>2. Ahead' = block' .. block' - Offset' + SectorBlocks - 1
          BY DEF Ahead
        <5>3. block' = block + 1
          BY <2>8
        <5>4. block' - Offset' = block + 1 - (Offset + 1)
          BY <1>0, <2>2, <5>1, <5>3
        <5>5. k \in block' .. block' - Offset' + SectorBlocks - 1
          BY <3>4, <5>2, Zenon
        <5> QED
          BY <5>3, <5>4, <5>5, Zenon
      <4>2. k \in Ahead /\ k # block
        BY <1>0, <2>2, <4>1, ConstantsAssumption DEF Ahead, Blocks
      <4>3. slot[to][k] = Erased
        BY <2>1, <4>2 DEF Clear
      <4>4. slot'[to] = Write(slot[to], block, <<pkt.img, pkt.blk>>)
        BY <1>0, <2>1 DEF Flash
      <4> QED
        BY <2>4, <2>8, <4>2, <4>3, <4>4 DEF Write
    <3>5. Ready'
      BY <2>8, <3>4 DEF Ready, Clear
    <3> QED
      BY <2>6, <3>1, <3>2, <3>5 DEF Written
  <2>9. CASE Return("wait", mbox) /\ UNCHANGED <<net, peer>>
    <3>1. Traffic'
      BY <1>0, <2>9 DEF Traffic
    <3> QED
      BY <1>3, <2>6, <2>9, <3>1
  <2> QED
    BY <1>10, <2>7, <2>8, <2>9 DEF store_block
<1>11. CASE verify_image
  <2>1. UNCHANGED slot
    BY <1>11 DEF verify_image
  <2>2. PICK next \in {"wait", "switch"} : Return(next, mbox)
    BY <1>11 DEF verify_image
  <2>3. mbox \in Seq(Packet)
    BY <1>0 DEF Session
  <2>4. Session'
    BY <1>0, <2>2, <2>3, ReturnSession
  <2>5. Traffic'
    <3>1. CASE tftp_send_ack(conn, block)
      BY <1>0, <3>1, AckTraffic
    <3>2. CASE UNCHANGED <<net, peer>>
      BY <1>0, <3>2 DEF Traffic
    <3> QED
      BY <1>11, <3>1, <3>2 DEF verify_image
  <2>6. task' \notin {"receive", "store"}
    BY <2>2 DEF Return
  <2> QED
    BY <2>1, <2>4, <2>5, <2>6, IdleWritten
<1>12. CASE rboot_set_config_erase
  <2>1. CASE Reboot
    BY <1>12, <2>1, RebootWritten DEF rboot_set_config_erase
  <2>2. CASE /\ task' = "write"
             /\ UNCHANGED <<role, to, file1, block, retries, conn, mbox, pkt,
                            net, peer>>
    <3>1. Session' /\ Traffic'
      BY <1>0, <2>2 DEF Session, Traffic
    <3> QED
      BY <1>12, <2>2, <3>1, IdleWritten DEF rboot_set_config_erase
  <2> QED
    BY <1>12, <2>1, <2>2 DEF rboot_set_config_erase
<1>13. CASE rboot_set_config_write
  BY <1>13, RebootWritten DEF rboot_set_config_write
<1> QED
  BY <1>4, <1>5, <1>6, <1>7, <1>8, <1>9, <1>10, <1>11, <1>12, <1>13
  DEF Download, Progress

(* Every step keeps the invariant.                                         *)
LEMMA StepWritten ==
  ASSUME IInv, Written, [Next]_vars
  PROVE  Written'
<1>1. CASE Loader
  BY <1>1, LoaderWritten
<1>2. CASE Download
  BY <1>2, DownloadWritten
<1>3. CASE rboot_set_temp_rom \/ Reset \/ PowerCut
  BY <1>3, RebootWritten DEF rboot_set_temp_rom, Reset, PowerCut
<1>4. CASE Network
  BY <1>4, NetworkWritten
<1>5. CASE UNCHANGED vars
  BY <1>5 DEF vars, taskVars, Written, Flash, Session, Traffic, Ready, Clear,
              Ahead, Offset
<1> QED
  BY <1>1, <1>2, <1>3, <1>4, <1>5 DEF Next

(* What a transfer has written so far, for all time.                       *)
LEMMA WrittenInvariance == Spec => []Written
<1> QED
  BY InitWritten, StepWritten, Invariance, PTL DEF Spec

(* Every variable of the boot loader, the receiving task and the network   *)
(* keeps its type.                                                         *)
THEOREM UpdateTypeCorrect == Spec => []TypeOK
<1>1. IInv /\ Written => TypeOK
  <2>1. Flash => slot \in [Roms -> [Blocks -> Cells]]
    BY DEF Flash
  <2> QED
    BY <2>1, Zenon DEF IInv, Types, Written, Session, Traffic, TypeOK
<1> QED
  BY <1>1, Invariance, WrittenInvariance, PTL

(* tftp_receive_data never writes a block it has not erased since it was   *)
(* last written, whatever the sector size, also after transfers that       *)
(* failed, were repeated or were cut off.                                  *)
THEOREM NeverWritesOverData == Spec => []NeverSpoilt
<1>1. Written => NeverSpoilt
  BY DEF Written, Flash, NeverSpoilt
<1> QED
  BY <1>1, WrittenInvariance, PTL
-----------------------------------------------------------------------------
(* What a transfer leaves in the slot it has written.                      *)

(* Cell k of the slot the task writes has a block k of an image.           *)
InPlace(k) == \E i \in Images : slot[to][k] = <<i, k>>

Complete(len) ==
  rboot_verify_image(slot[to], len) /\ \A k \in 1 .. len : InPlace(k)

(* The blocks before the one awaited are all there, each in its place: it  *)
(* is the number of the next block that tells which one to write, and it   *)
(* grows only with a block written.                                        *)
Received ==
  /\ task \in {"receive", "store"} => \A k \in Blocks : k < block => InPlace(k)
  /\ task = "verify" => block \in Blocks /\ \A k \in 1 .. block : InPlace(k)
  /\ task \in {"switch", "write"} => \E len \in Blocks : Complete(len)

(* The blocks stay while neither the slot nor the place in the transfer    *)
(* changes.                                                                *)
LEMMA ReceivedUnchanged ==
  ASSUME Received, UNCHANGED <<slot, to, task, block>>
  PROVE  Received'
<1>1. \A k : InPlace(k)' <=> InPlace(k)
  BY DEF InPlace
<1>2. \A len : Complete(len) => Complete(len)'
  BY <1>1 DEF Complete, rboot_verify_image, Headers, ChecksumRight
<1>3. Blocks' = Blocks
  BY DEF Blocks
<1> QED
  BY <1>1, <1>2, <1>3 DEF Received

(* There is nothing to show for a task that waits.                         *)
LEMMA ReceivedIdle ==
  ASSUME task' = "wait"
  PROVE  Received'
BY DEF Received

(* Every step of a transfer keeps the blocks in place.                     *)
LEMMA DownloadReceived ==
  ASSUME IInv, Written, Received, Download
  PROVE  Received'
<1>0. /\ Flash /\ Ready /\ to \in Roms /\ block \in Nat \ {0}
      /\ MaxBlocks \in Nat /\ SectorBlocks \in Nat \ {0}
  BY ConstantsAssumption DEF Written, Session, IInv, Types
<1>1. CASE tftp_task_wrq \/ ota_tftp_download
  <2>1. CASE task' = "receive" /\ block' = 1
    <3>1. \A k \in Blocks : ~(k < 1)
      BY <1>0 DEF Blocks
    <3> QED
      BY <2>1, <3>1 DEF Received
  <2>2. CASE UNCHANGED <<slot, to, task, block>>
    BY <2>2, ReceivedUnchanged
  <2> QED
    BY <1>1, <2>1, <2>2 DEF tftp_task_wrq, ota_tftp_download
<1>2. CASE receive_timeout \/ receive_error \/ receive_other
  <2>1. CASE task' = "wait"
    BY <2>1, ReceivedIdle
  <2>2. CASE UNCHANGED <<slot, to, task, block>>
    BY <2>2, ReceivedUnchanged
  <2> QED
    BY <1>2, <2>1, <2>2
    DEF receive_timeout, receive_error, receive_other, Return
<1>3. CASE receive_block
  <2>1. CASE task' = "wait"
    BY <2>1, ReceivedIdle
  <2>2. CASE task' = "store" /\ UNCHANGED <<to, block>>
    <3>1. task = "receive" /\ slot' = [slot EXCEPT ![to] = Erase(slot[to], block)]
      BY <1>3 DEF receive_block
    <3>2. slot'[to] = Erase(slot[to], block)
      BY <1>0, <3>1 DEF Flash
    <3>3. ASSUME NEW k \in Blocks, k < block
          PROVE  slot'[to][k] = slot[to][k]
      BY <1>0, <3>2, <3>3 DEF Erase, Blocks
    <3>4. ASSUME NEW k \in Blocks, k < block
          PROVE  InPlace(k)'
      BY <2>2, <3>1, <3>3, <3>4 DEF Received, InPlace
    <3> QED
      BY <2>2, <3>4 DEF Received
  <2> QED
    BY <1>3, <2>1, <2>2 DEF receive_block, Return
<1>4. CASE store_block
  <2>1. /\ task = "store" /\ pkt \in Packet /\ pkt.blk = block /\ Clear
        /\ block \in Blocks /\ pkt.img \in Images
        /\ slot' = [slot EXCEPT ![to] =
                      Write(slot[to], block, <<pkt.img, pkt.blk>>)]
    BY <1>0, <1>4 DEF store_block, Ready, Packet
  <2>2. slot[to][block] = Erased
    <3>1. Offset \in 0 .. SectorBlocks - 1
      BY <1>0 DEF Offset
    <3>2. block \in Ahead
      BY <1>0, <3>1 DEF Ahead
    <3> QED
      BY <2>1, <3>2 DEF Clear
  <2>3. /\ slot'[to][block] = <<pkt.img, block>>
        /\ \A k \in Blocks : k # block => slot'[to][k] = slot[to][k]
    <3>1. slot'[to] = Write(slot[to], block, <<pkt.img, pkt.blk>>)
      BY <1>0, <2>1 DEF Flash
    <3>2. slot[to] \in [Blocks -> Cells \ {Spoilt}]
      BY <1>0 DEF Flash
    <3> QED
      BY <2>1, <2>2, <3>1, <3>2 DEF Write
  <2>4. CASE task' = "wait"
    BY <2>4, ReceivedIdle
  <2>5. ASSUME to' = to, NEW k \in Blocks, k <= block
        PROVE  InPlace(k)'
    <3>1. CASE k = block
      BY <2>1, <2>3, <2>5, <3>1 DEF InPlace
    <3>2. CASE k # block
      <4>1. InPlace(k)
        BY <1>0, <2>1, <2>5, <3>2 DEF Received, Blocks
      <4> QED
        BY <2>3, <2>5, <3>2, <4>1 DEF InPlace
    <3> QED
      BY <3>1, <3>2
  <2>6. CASE task' = "receive" /\ block' = block + 1 /\ to' = to
    <3>1. ASSUME NEW k \in Blocks, k < block' PROVE InPlace(k)'
      <4>1. k <= block
        BY <1>0, <2>6, <3>1 DEF Blocks
      <4> QED
        BY <2>5, <2>6, <4>1
    <3> QED
      BY <2>6, <3>1 DEF Received
  <2>7. CASE task' = "verify" /\ block' = block /\ to' = to
    <3>1. ASSUME NEW k \in 1 .. block PROVE InPlace(k)'
      <4>1. k \in Blocks /\ k <= block
        BY <1>0, <2>1 DEF Blocks
      <4> QED
        BY <2>5, <2>7, <4>1
    <3> QED
      BY <2>1, <2>7, <3>1 DEF Received
  <2> QED
    BY <1>4, <2>4, <2>6, <2>7 DEF store_block, Return
<1>5. CASE verify_image
  <2>1. CASE task' = "wait"
    BY <2>1, ReceivedIdle
  <2>2. CASE task' = "switch" /\ to' = to /\ rboot_verify_image(slot[to], block)
    <3>1. task = "verify" /\ UNCHANGED slot
      BY <1>5 DEF verify_image
    <3>2. block \in Blocks /\ Complete(block)
      BY <2>2, <3>1 DEF Received, Complete
    <3>3. \E len \in Blocks : Complete(len)'
      BY <2>2, <3>1, <3>2
      DEF Complete, InPlace, rboot_verify_image, Headers, ChecksumRight
    <3> QED
      BY <2>2, <3>3 DEF Received
  <2> QED
    BY <1>5, <2>1, <2>2 DEF verify_image, Return
<1>6. CASE rboot_set_config_erase
  <2>1. CASE task' = "wait"
    BY <2>1, ReceivedIdle
  <2>2. CASE task' = "write" /\ to' = to
    <3>1. task = "switch" /\ UNCHANGED slot
      BY <1>6 DEF rboot_set_config_erase
    <3>2. PICK len \in Blocks : Complete(len)
      BY <3>1 DEF Received
    <3>3. Complete(len)'
      BY <2>2, <3>1, <3>2
      DEF Complete, InPlace, rboot_verify_image, Headers, ChecksumRight
    <3> QED
      BY <2>2, <3>3 DEF Received
  <2> QED
    BY <1>6, <2>1, <2>2 DEF rboot_set_config_erase, Reboot
<1>7. CASE rboot_set_config_write
  BY <1>7, ReceivedIdle DEF rboot_set_config_write, Reboot
<1> QED
  BY <1>1, <1>2, <1>3, <1>4, <1>5, <1>6, <1>7 DEF Download, Progress

(* Every step does.                                                        *)
LEMMA StepReceived ==
  ASSUME IInv, Written, Received, [Next]_vars
  PROVE  Received'
<1>1. CASE Loader
  <2>1. UNCHANGED <<slot, to, task, block>> \/ task' = "wait"
    BY <1>1 DEF Loader, default_config, halt_temp, find_image, rewrite_config,
                Start, taskVars
  <2> QED
    BY <2>1, ReceivedUnchanged, ReceivedIdle
<1>2. CASE Download
  BY <1>2, DownloadReceived
<1>3. CASE rboot_set_temp_rom \/ Reset \/ PowerCut
  BY <1>3, ReceivedIdle DEF rboot_set_temp_rom, Reset, PowerCut, Reboot
<1>4. CASE Network
  BY <1>4, ReceivedUnchanged
  DEF Network, PeerOffers, PeerRepeats, PeerGivesUp, recv_udp, Lose, taskVars
<1>5. CASE UNCHANGED vars
  BY <1>5, ReceivedUnchanged DEF vars, taskVars
<1> QED
  BY <1>1, <1>2, <1>3, <1>4, <1>5 DEF Next

(* The blocks of a transfer are in place, for all time.                    *)
LEMMA ReceivedInvariance == Spec => []Received
<1>1. Init => Received
  BY DEF Init, Received
<1> QED
  BY <1>1, StepReceived, Invariance, WrittenInvariance, PTL DEF Spec

(* rboot_set_current_rom is only ever given a slot that was verified and   *)
(* received without a gap, whatever the sizes of slots, sectors, mailbox   *)
(* and images, and however their blocks were lost, repeated or mixed.      *)
THEOREM SwitchOnlyToCompleteImage == Spec => SwitchesToCompleteImage
<1>1. ASSUME IInv, Received, [Next]_vars
      PROVE  [Running /\ conf' # conf /\ conf' # Erased =>
                \E len \in Blocks :
                  /\ rboot_verify_image(slot[conf'], len)
                  /\ \A k \in 1 .. len :
                       \E i \in Images : slot[conf'][k] = <<i, k>>]_vars
  <2> SUFFICES ASSUME Next, pc = "run", conf' # conf, conf' # Erased
               PROVE  \E len \in Blocks :
                        /\ rboot_verify_image(slot[conf'], len)
                        /\ \A k \in 1 .. len :
                             \E i \in Images : slot[conf'][k] = <<i, k>>
    BY <1>1 DEF Running
  <2>1. ~Loader
    BY DEF Loader, default_config, halt_temp, find_image, rewrite_config
  <2>2. ~(rboot_set_temp_rom \/ Reset \/ PowerCut \/ Network)
    BY DEF rboot_set_temp_rom, Reset, PowerCut, Network, PeerOffers,
           PeerRepeats, PeerGivesUp, recv_udp, Lose, confVars
  <2>3. task \in {"switch", "write"} /\ conf' = to
    BY <2>1, <2>2
    DEF Next, Download, Progress, tftp_task_wrq, ota_tftp_download, receive_timeout,
        receive_error, receive_other, receive_block, store_block, verify_image,
        rboot_set_config_erase, rboot_set_config_write, confVars
  <2>4. PICK len \in Blocks : Complete(len)
    BY <1>1, <2>3 DEF Received
  <2> QED
    BY <2>3, <2>4 DEF Complete, InPlace
<1> QED
  BY <1>1, Invariance, ReceivedInvariance, PTL DEF Spec, SwitchesToCompleteImage
=============================================================================
