------------------------------- MODULE Update -------------------------------
(***************************************************************************)
(* Over-the-air update: the boot loader (bootloader/rboot/rboot.c), the    *)
(* configuration calls of the application (extras/rboot-ota/rboot-api.c),  *)
(* the TFTP server and client that write a new image into the spare ROM    *)
(* slot (extras/rboot-ota/ota-tftp.c), and the client task of              *)
(* examples/ota_basic.  Power may fail and the chip may reset at any step. *)
(*                                                                         *)
(* A ROM slot is a row of 512-byte blocks; a block holds one block of one  *)
(* image, is erased, or is spoilt by a write over other data.  Of the      *)
(* 8-bit checksum over the sections one bit is kept, the parity of the     *)
(* blocks summed: it tells the images of an instance apart as the whole    *)
(* byte would, and lets more mixtures of images pass.  The configuration   *)
(* sector is current_rom, or Erased when its magic, version or checksum is *)
(* wrong; the layout is the two slots of default_config.                   *)
(* An application runs either the server or the client: ota_basic, which   *)
(* starts both, says of itself "choose either client or server".           *)
(*                                                                         *)
(* The peer and the network are external: a TFTP sender that repeats its   *)
(* last packet, and packets that may be lost, delayed and reordered.  An   *)
(* acknowledgement reaches the peer at once or not at all.                 *)
(***************************************************************************)
EXTENDS Integers, Sequences, FiniteSets

CONSTANTS
  Erased, Spoilt,  \* block contents that belong to no image
  None,            \* no ROM, no connection, no peer
  Images,
  Size,            \* the number of blocks of each image
  Irom,            \* how many of them, from the first, hold .irom0.text
  Odd,             \* the blocks whose bytes, the stored checksum with them,
                   \* change the checksum
  Firmware1,       \* the image with the SHA-256 ota_basic asks for
  MaxBlocks,       \* MAX_IMAGE_SIZE in blocks: the length of a slot
  SectorBlocks,    \* SECTOR_SIZE in blocks
  Retransmits,     \* TFTP_TIMEOUT_RETRANSMITS
  MboxSize,        \* DEFAULT_UDP_RECVMBOX_SIZE
  Tids,            \* the ports peers send from
  MaxTries,        \* how often a peer repeats a packet
  MaxNet           \* a peer repeats a packet with fewer in flight, and one
                   \* begins with no more than these of earlier ones

(* default_config: count = 2.                                              *)
RomCount == 2
Roms == 0 .. RomCount - 1
Blocks == 1 .. MaxBlocks

ASSUME ConstantsAssumption ==
  /\ MaxBlocks \in Nat \ {0} /\ SectorBlocks \in Nat \ {0}
  /\ Retransmits \in Nat /\ MboxSize \in Nat /\ MaxTries \in Nat
  /\ MaxNet \in Nat
  /\ Size \in [Images -> Nat \ {0}]
  /\ Irom \in [Images -> Nat] /\ \A i \in Images : Irom[i] < Size[i]
  /\ Firmware1 \in Images
  /\ Erased \notin Images \X Nat /\ Spoilt \notin Images \X Nat
  /\ Erased # Spoilt /\ Erased \notin Nat /\ None \notin Nat \cup Tids

VARIABLES
  conf,      \* the configuration sector: current_rom, or Erased
  rtc,       \* temp_rom when next_mode is MODE_TEMP_ROM, else None
  slot,      \* the ROM slots
  pc,        \* "boot", "rewrite" (find_image), "run", or "halt"
  rom,       \* romToBoot; then the ROM that runs
  temp,      \* temp_boot; also set when the temporary ROM is no ROM
  role,      \* the application is the TFTP "server" or "client"
  task,      \* where the downloading task is
  to,        \* the slot it writes
  file1,     \* the client downloads firmware1.bin, not firmware2.bin
  block, retries,
  conn,      \* the port the socket is connected to
  mbox,      \* the socket's recvmbox
  pkt,       \* the block being written
  net,       \* packets on their way to the device
  peer       \* the sender

confVars == <<conf, rtc>>
bootVars == <<pc, rom, temp>>
taskVars == <<role, task, to, file1, block, retries, conn, mbox, pkt>>
vars == <<confVars, slot, bootVars, taskVars, net, peer>>

Cells == {Erased, Spoilt} \cup { <<i, k>> : i \in Images, k \in Blocks }

Packet ==
  [op : {"WRQ"}, tid : Tids, img : Images, blk : {0}]
    \cup [op : {"DATA"}, tid : Tids, img : Images, blk : Nat]

(* The image that starts a slot is whole.                                  *)
Holds(s, i) ==
  Size[i] <= MaxBlocks /\ \A k \in 1 .. Size[i] : s[k] = <<i, k>>

(* The headers of a slot: the first one, in block 1 of image i, gives the  *)
(* length of .irom0.text; the block behind it, of image j, has the second  *)
(* one, with the lengths of the other sections.                            *)
Headers(s, i, j) ==
  /\ s[1] = <<i, 1>> /\ Irom[i] = Irom[j]
  /\ Size[j] <= MaxBlocks /\ s[Irom[j] + 1] = <<j, Irom[j] + 1>>

ChecksumRight(s, first, last) ==
  Cardinality({k \in first .. last : s[k] \in Odd}) % 2 = 0

(* The sections, .irom0.text included, have the checksum stored behind     *)
(* them.                                                                   *)
check_image(s) ==
  \E i, j \in Images : Headers(s, i, j) /\ ChecksumRight(s, 1, Size[j])

(* The sections behind .irom0.text have.                                   *)
rboot_verify_image(s, len) ==
  \E i, j \in Images : /\ Headers(s, i, j) /\ Size[j] = len
                       /\ ChecksumRight(s, Irom[j] + 1, Size[j])

TypeOK ==
  /\ conf \in 0 .. RomCount \cup {Erased}
  /\ rtc \in 0 .. RomCount \cup {None}
  /\ slot \in [Roms -> [Blocks -> Cells]]
  /\ pc \in {"boot", "rewrite", "run", "halt"}
  /\ rom \in Roms /\ temp \in BOOLEAN
  /\ role \in {"server", "client"}
  /\ task \in {"wait", "receive", "store", "verify", "switch", "write"}
  /\ to \in Roms /\ file1 \in BOOLEAN
  /\ block \in Nat \ {0} /\ retries \in 0 .. Retransmits
  /\ conn \in Tids \cup {None}
  /\ mbox \in Seq(Packet) /\ net \subseteq Packet
  /\ pkt \in Packet \cup {None}
  /\ \/ peer = None
     \/ peer \in [tid : Tids, img : Images, blk : Nat, tries : 0 .. MaxTries]

(* A chip as it is flashed over the serial line: a bootable ROM 0, any     *)
(* configuration, perhaps an older image in the other slot.                *)
Init ==
  /\ conf \in 0 .. RomCount \cup {Erased}
  /\ rtc = None
  /\ \E i \in Images, j \in Images \cup {Erased} :
       /\ Size[i] <= MaxBlocks
       /\ slot = [r \in Roms |-> [k \in Blocks |->
                    IF r = 0 /\ k <= Size[i] THEN <<i, k>>
                    ELSE IF r # 0 /\ j # Erased /\ k <= Size[j] THEN <<j, k>>
                    ELSE Erased]]
  /\ check_image(slot[0])
  /\ pc = "boot" /\ rom = 0 /\ temp = FALSE
  /\ role = "server" /\ task = "wait" /\ to = 0 /\ file1 = TRUE
  /\ block = 1 /\ retries = 0 /\ conn = None /\ mbox = <<>> /\ pkt = None
  /\ net = {} /\ peer = None
-----------------------------------------------------------------------------
(* find_image.                                                             *)

(* No valid configuration: the default one is written.                     *)
default_config ==
  /\ pc = "boot" /\ conf = Erased
  /\ conf' = 0
  /\ UNCHANGED <<rtc, slot, bootVars, taskVars, net, peer>>

TempBoot == rtc # None
ValidCurrent == conf < RomCount
CurrentRom == IF ValidCurrent THEN conf ELSE 0
FirstChoice == IF TempBoot /\ ValidCurrent THEN rtc ELSE CurrentRom

(* The k-th ROM before r, counting down and round.                         *)
Before(r, k) == (r - k) % RomCount

(* The first good ROM of the fallback loop, or None.                       *)
Fallback(r) ==
  LET good == { k \in 1 .. RomCount - 1 : check_image(slot[Before(r, k)]) }
  IN  IF good = {} THEN None
      ELSE Before(r, CHOOSE k \in good : \A j \in good : k <= j)

(* The loader hands over to a ROM, whose tasks start.                      *)
Start(r, t) ==
  /\ pc' = "run" /\ rom' = r /\ temp' = t /\ rtc' = None
  /\ role' \in {"server", "client"}
  /\ task' = "wait" /\ to' = 0 /\ file1' = TRUE
  /\ block' = 1 /\ retries' = 0 /\ conn' = None /\ mbox' = <<>> /\ pkt' = None

halt_temp ==
  /\ pc = "boot" /\ conf # Erased /\ TempBoot
  /\ \/ rtc >= RomCount /\ UNCHANGED rtc
     \/ rtc < RomCount /\ ~check_image(slot[FirstChoice]) /\ rtc' = None
  /\ pc' = "halt" /\ temp' = TRUE
  /\ UNCHANGED <<conf, slot, rom, taskVars, net, peer>>

(* Mutant: the ROM fallen back to is booted, the configuration left.       *)
find_image_no_rewrite ==
  /\ pc = "boot" /\ conf # Erased
  /\ TempBoot => rtc < RomCount
  /\ LET good == check_image(slot[FirstChoice])
         r    == IF good THEN FirstChoice ELSE Fallback(CurrentRom)
     IN  /\ TempBoot => good
         /\ IF r = None
              THEN pc' = "halt" /\ temp' = TempBoot /\ UNCHANGED <<rtc, rom, taskVars>>
              ELSE Start(r, TempBoot)
  /\ UNCHANGED <<conf, slot, net, peer>>

find_image ==
  /\ pc = "boot" /\ conf # Erased
  /\ TempBoot => rtc < RomCount
  /\ LET good == check_image(slot[FirstChoice])
         r    == IF good THEN FirstChoice ELSE Fallback(CurrentRom)
     IN  /\ TempBoot => good
         /\ \/ /\ good /\ ValidCurrent
               /\ Start(r, TempBoot)
               /\ UNCHANGED conf
            \/ /\ ~(good /\ ValidCurrent)
               /\ temp' = TempBoot
               /\ IF r = None
                    THEN pc' = "halt" /\ UNCHANGED <<conf, rom>>
                    ELSE pc' = "rewrite" /\ conf' = Erased /\ rom' = r
               /\ UNCHANGED <<rtc, taskVars>>
  /\ UNCHANGED <<slot, net, peer>>

rewrite_config ==
  /\ pc = "rewrite"
  /\ conf' = rom
  /\ Start(rom, temp)
  /\ UNCHANGED <<slot, net, peer>>
-----------------------------------------------------------------------------
(* The peer and the network.                                               *)

Last(p) == p.op = "DATA" /\ p.blk >= Size[p.img]

PacketOf(p) ==
  [op |-> IF p.blk = 0 THEN "WRQ" ELSE "DATA",
   tid |-> p.tid, img |-> p.img, blk |-> p.blk]

FreeTid(t) ==
  /\ conn # t /\ (peer # None => peer.tid # t)
  /\ \A p \in net : p.tid # t
  /\ \A k \in DOMAIN mbox : mbox[k].tid # t

(* The peer starts a transfer: with a write request, or with the first     *)
(* block of the file that was asked for.                                   *)
Begin(first) ==
  \E t \in Tids, i \in Images :
    /\ FreeTid(t)
    /\ peer' = [tid |-> t, img |-> i, blk |-> first, tries |-> MaxTries]
    /\ net' = net \cup {PacketOf(peer')}

PeerOffers ==
  /\ pc = "run" /\ role = "server" /\ peer = None /\ Cardinality(net) <= MaxNet
  /\ Begin(0)
  /\ UNCHANGED <<confVars, slot, bootVars, taskVars>>

PeerRepeats ==
  /\ peer # None /\ peer.tries > 0 /\ Cardinality(net) < MaxNet
  /\ net' = net \cup {PacketOf(peer)}
  /\ peer' = [peer EXCEPT !.tries = @ - 1]
  /\ UNCHANGED <<confVars, slot, bootVars, taskVars>>

PeerGivesUp ==
  /\ peer # None /\ peer.tries = 0
  /\ peer' = None
  /\ UNCHANGED <<confVars, slot, bootVars, taskVars, net>>

(* tftp_send_ack(nc, k), connected to t: lost, or not the one the peer     *)
(* waits for, or answered with the next block.                             *)
tftp_send_ack(t, k) ==
  \/ UNCHANGED <<net, peer>>
  \/ /\ peer # None /\ peer.tid = t /\ peer.blk = k
     /\ IF Last(PacketOf(peer))
          THEN peer' = None /\ UNCHANGED net
          ELSE /\ peer' = [peer EXCEPT !.blk = k + 1, !.tries = MaxTries]
               /\ net' = net \cup {PacketOf(peer')}

(* udp_input and recv_udp: a packet for a socket that is open, connected   *)
(* to nobody or to its sender, and whose mailbox has room.                 *)
Listening == pc = "run" /\ (role = "server" \/ task # "wait")
recv_udp ==
  \E p \in net :
    /\ net' = net \ {p}
    /\ mbox' = IF Listening /\ conn \in {None, p.tid} /\ Len(mbox) < MboxSize
               THEN Append(mbox, p) ELSE mbox
    /\ UNCHANGED <<confVars, slot, bootVars, role, task, to, file1, block,
                   retries, conn, pkt, peer>>

Lose ==
  \E p \in net :
    /\ net' = net \ {p}
    /\ UNCHANGED <<confVars, slot, bootVars, taskVars, peer>>
-----------------------------------------------------------------------------
(* The application.                                                        *)

Running == pc = "run"

(* Mutant: the slot is the current one.                                    *)
NextSlot_current == conf % RomCount

(* The slot after the current one.                                         *)
NextSlot == (conf + 1) % RomCount

(* tftp_task, waiting for a write request.  A valid one connects the       *)
(* socket and is acknowledged; if that fails, and after any other packet,  *)
(* the task waits on.                                                      *)
tftp_task_wrq ==
  /\ Running /\ role = "server" /\ task = "wait" /\ mbox # <<>>
  /\ LET p == Head(mbox) IN
     \/ /\ p.op = "WRQ"
        /\ conn' = p.tid /\ to' = NextSlot
        /\ task' = "receive" /\ block' = 1 /\ retries' = Retransmits
        /\ tftp_send_ack(p.tid, 0)
     \/ UNCHANGED <<conn, to, task, block, retries, net, peer>>
  /\ mbox' = Tail(mbox)
  /\ UNCHANGED <<confVars, slot, bootVars, role, file1, pkt>>

(* ota_tftp_download, called by tftp_client_task: a fresh socket and a     *)
(* read request, which the peer may never see.  The socket is connected    *)
(* when the first packet comes.                                            *)
ota_tftp_download ==
  /\ Running /\ role = "client" /\ task = "wait"
  /\ to' = NextSlot /\ conf # NextSlot
  /\ task' = "receive" /\ block' = 1 /\ retries' = Retransmits
  /\ \/ UNCHANGED <<net, peer>>
     \/ Begin(1)
  /\ UNCHANGED <<confVars, slot, bootVars, role, file1, conn, mbox,
                 pkt>>

(* tftp_receive_data returns, with these packets left in the mailbox.  The *)
(* server disconnects and waits for the next request; the client closes    *)
(* its socket and goes on to the other file, unless it has the image it    *)
(* wants.                                                                  *)
Return(next, rest) ==
  /\ task' = next /\ conn' = None /\ pkt' = None
  /\ mbox' = IF role = "client" THEN <<>> ELSE rest
  /\ file1' = IF role = "client" /\ next = "wait" THEN ~file1 ELSE file1
  /\ to' = IF next = "wait" THEN 0 ELSE to
  /\ block' = 1 /\ retries' = 0
  /\ UNCHANGED role

(* Mutant: the last retransmission is one too many.                        *)
receive_timeout_one_more ==
  /\ Running /\ task = "receive" /\ mbox = <<>>
  /\ \/ /\ retries >= 0 /\ block > 1
        /\ retries' = retries - 1
        /\ tftp_send_ack(conn, block - 1)
        /\ UNCHANGED <<role, task, to, file1, block, conn, mbox, pkt>>
     \/ /\ ~(retries >= 0 /\ block > 1)
        /\ Return("wait", mbox)
        /\ UNCHANGED <<net, peer>>
  /\ UNCHANGED <<confVars, slot, bootVars>>

(* Mutant: the retransmissions are not counted.                            *)
receive_timeout_uncounted ==
  /\ Running /\ task = "receive" /\ mbox = <<>>
  /\ \/ /\ block > 1
        /\ tftp_send_ack(conn, block - 1)
        /\ UNCHANGED taskVars
     \/ /\ block <= 1
        /\ Return("wait", mbox)
        /\ UNCHANGED <<net, peer>>
  /\ UNCHANGED <<confVars, slot, bootVars>>

(* netconn_recv runs out of time: the last acknowledgement again, or the   *)
(* end.                                                                    *)
receive_timeout ==
  /\ Running /\ task = "receive" /\ mbox = <<>>
  /\ \/ /\ retries > 0 /\ block > 1
        /\ retries' = retries - 1
        /\ tftp_send_ack(conn, block - 1)
        /\ UNCHANGED <<role, task, to, file1, block, conn, mbox, pkt>>
     \/ /\ ~(retries > 0 /\ block > 1)
        /\ Return("wait", mbox)
        /\ UNCHANGED <<net, peer>>
  /\ UNCHANGED <<confVars, slot, bootVars>>

(* Any other error of netconn_recv.                                        *)
receive_error ==
  /\ Running /\ task = "receive"
  /\ Return("wait", mbox)
  /\ UNCHANGED <<confVars, slot, bootVars, net, peer>>

(* The client connects to the sender of the first packet.                  *)
Connected(p) == IF conn = None THEN p.tid ELSE conn

(* A packet that is not the block the task waits for: the one before is    *)
(* acknowledged again, anything else ends the transfer.                    *)
receive_other ==
  /\ Running /\ task = "receive" /\ mbox # <<>>
  /\ LET p == Head(mbox) IN
     \/ /\ p.op = "DATA" /\ p.blk = block - 1
        /\ mbox' = Tail(mbox) /\ conn' = Connected(p)
        /\ tftp_send_ack(Connected(p), p.blk)
        /\ UNCHANGED <<role, task, to, file1, block, retries, pkt>>
     \/ /\ p.op # "DATA" \/ p.blk \notin {block - 1, block}
        /\ Return("wait", Tail(mbox))
        /\ UNCHANGED <<net, peer>>
  /\ UNCHANGED <<confVars, slot, bootVars>>

(* Mutant: a block is erased, not a sector.                                *)
Erase_block(s, k) ==
  IF (k - 1) % SectorBlocks = 0
  THEN [j \in Blocks |-> IF j = k THEN Erased ELSE s[j]]
  ELSE s

(* The first block of a sector erases the sector.                          *)
Erase(s, k) ==
  IF (k - 1) % SectorBlocks = 0
  THEN [j \in Blocks |-> IF j \in k .. k + SectorBlocks - 1
                         THEN Erased ELSE s[j]]
  ELSE s

(* A full block and its header must end before the limit.                  *)
TooLarge(p) == p.blk > MaxBlocks \/ (p.blk = MaxBlocks /\ ~Last(p))

(* The block the task waits for.                                           *)
receive_block ==
  /\ Running /\ task = "receive" /\ mbox # <<>>
  /\ LET p == Head(mbox) IN
     /\ p.op = "DATA" /\ p.blk = block
     /\ slot' = [slot EXCEPT ![to] = Erase(@, block)]
     /\ \/ /\ TooLarge(p)
           /\ Return("wait", Tail(mbox))
        \/ /\ ~TooLarge(p)
           /\ task' = "store" /\ pkt' = p
           /\ mbox' = Tail(mbox) /\ conn' = Connected(p)
           /\ retries' = Retransmits
           /\ UNCHANGED <<role, to, file1, block>>
  /\ UNCHANGED <<confVars, bootVars, net, peer>>

(* sdk_spi_flash_write: bits are only cleared.                             *)
Write(s, k, data) ==
  [s EXCEPT ![k] = IF @ \in {Erased, data} THEN data ELSE Spoilt]

(* The block is written; unless it is the last, it is acknowledged.  An    *)
(* acknowledgement that cannot be sent ends the transfer.                  *)
store_block ==
  /\ Running /\ task = "store"
  /\ slot' = [slot EXCEPT ![to] = Write(@, block, <<pkt.img, pkt.blk>>)]
  /\ \/ /\ Last(pkt)
        /\ task' = "verify"
        /\ UNCHANGED <<role, to, file1, block, retries, conn, mbox, pkt,
                       net, peer>>
     \/ /\ ~Last(pkt)
        /\ task' = "receive" /\ block' = block + 1 /\ pkt' = None
        /\ tftp_send_ack(conn, block)
        /\ UNCHANGED <<role, to, file1, retries, conn, mbox>>
     \/ /\ ~Last(pkt)
        /\ Return("wait", mbox)
        /\ UNCHANGED <<net, peer>>
  /\ UNCHANGED <<confVars, bootVars>>

(* Mutant: the image is not verified.                                      *)
verify_image_unverified ==
  /\ Running /\ task = "verify"
  /\ LET wants == role = "client" => file1 /\ Holds(slot[to], Firmware1)
     IN  /\ Return(IF wants THEN "switch" ELSE "wait", mbox)
         /\ tftp_send_ack(conn, block)
  /\ UNCHANGED <<confVars, slot, bootVars>>

(* The image is verified and the last block acknowledged.  The server, and *)
(* the client with the SHA-256 it expects, go on to switch.                *)
verify_image ==
  /\ Running /\ task = "verify"
  /\ LET valid == rboot_verify_image(slot[to], block)
         wants == role = "client" => file1 /\ Holds(slot[to], Firmware1)
     IN  \/ /\ valid
            /\ Return(IF wants THEN "switch" ELSE "wait", mbox)
            /\ tftp_send_ack(conn, block)
         \/ Return("wait", mbox) /\ UNCHANGED <<net, peer>>
  /\ UNCHANGED <<confVars, slot, bootVars>>

(* The chip starts again: what only the application knew is gone, and so   *)
(* are, by the time it listens again, the peer and its packets.            *)
Reboot ==
  /\ pc' = "boot" /\ rom' = 0 /\ temp' = FALSE
  /\ role' = "server" /\ task' = "wait" /\ to' = 0 /\ file1' = TRUE
  /\ block' = 1 /\ retries' = 0 /\ conn' = None /\ mbox' = <<>> /\ pkt' = None
  /\ net' = {} /\ peer' = None

(* rboot_set_current_rom: the sector is erased, then written, and the      *)
(* chip restarted.  Without memory for the buffer it is only restarted.    *)
rboot_set_config_erase ==
  /\ Running /\ task = "switch"
  /\ \/ /\ conf' = Erased /\ task' = "write"
        /\ UNCHANGED <<bootVars, role, to, file1, block, retries, conn, mbox,
                       pkt, net, peer>>
     \/ Reboot /\ UNCHANGED conf
  /\ UNCHANGED <<rtc, slot>>

rboot_set_config_write ==
  /\ Running /\ task = "write"
  /\ conf' = to
  /\ Reboot
  /\ UNCHANGED <<rtc, slot>>

(* rboot_set_temp_rom, which checks nothing, and a restart.                *)
rboot_set_temp_rom ==
  /\ Running /\ task = "wait"
  /\ rtc' \in 0 .. RomCount
  /\ Reboot
  /\ UNCHANGED <<conf, slot>>
-----------------------------------------------------------------------------
(* A reset keeps the RTC memory; a power failure does not.                 *)
Reset ==
  /\ pc # "boot"
  /\ Reboot
  /\ UNCHANGED <<confVars, slot>>

PowerCut ==
  /\ rtc' = None
  /\ Reboot
  /\ UNCHANGED <<conf, slot>>

Loader == default_config \/ halt_temp \/ find_image \/ rewrite_config

Progress ==
  \/ tftp_task_wrq \/ ota_tftp_download
  \/ receive_timeout \/ receive_other \/ receive_block \/ store_block
  \/ verify_image \/ rboot_set_config_erase \/ rboot_set_config_write

Download == Progress \/ receive_error

Network == PeerOffers \/ PeerRepeats \/ PeerGivesUp \/ recv_udp \/ Lose

Next == Loader \/ Download \/ rboot_set_temp_rom \/ Reset \/ PowerCut \/ Network

Spec == Init /\ [][Next]_vars

(* The downloading task runs when it can, and netconn_recv times out.      *)
FairSpec == Spec /\ WF_vars(Progress)
-----------------------------------------------------------------------------
(* Whatever happened to the power, the network or an update, some slot     *)
(* holds an image that find_image accepts, and find_image gives up only    *)
(* because of a temporary ROM.                                             *)
AlwaysBootable ==
  /\ \E r \in Roms : check_image(slot[r])
  /\ pc = "halt" => temp

(* tftp_receive_data never writes over data: every block is erased before  *)
(* it is written, also when a transfer replaces an aborted one.            *)
NeverSpoilt == \A r \in Roms, k \in Blocks : slot[r][k] # Spoilt

(* An application booted from the configuration keeps the flash it runs    *)
(* from: no transfer writes the slot find_image started.                   *)
RunningIntact == Running /\ ~temp => check_image(slot[rom])

(* rboot_set_current_rom is reached only with a slot that passes           *)
(* rboot_verify_image, and in which every block of the length its headers  *)
(* give is one that was sent for that place: none is missing, misplaced or *)
(* spoilt, however blocks were repeated, reordered or taken from an        *)
(* earlier sender.  That all are of one image the code does not ensure.    *)
SwitchesToCompleteImage ==
  [][Running /\ conf' # conf /\ conf' # Erased =>
       \E len \in Blocks :
         /\ rboot_verify_image(slot[conf'], len)
         /\ \A k \in 1 .. len : \E i \in Images : slot[conf'][k] = <<i, k>>]_vars

(* The flash is written only in the slot the configuration does not name,  *)
(* and only while the configuration is there.                              *)
CurrentUntouched ==
  [][\A r \in Roms : slot'[r] # slot[r] => conf \in Roms \ {r}]_vars

(* No transfer goes on for ever: again and again the task waits for the    *)
(* next one, because tftp_receive_data returned or the chip restarted, or  *)
(* is about to switch.                                                     *)
TransferEnds == []<>(task \in {"wait", "switch"})

(* An image that the loader accepts, received to its last block, is one    *)
(* that rboot_verify_image accepts.                                        *)
ValidImageVerifies ==
  task = "verify" /\ check_image(slot[to])
    => rboot_verify_image(slot[to], block)
=============================================================================
