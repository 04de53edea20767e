------------------------------ MODULE OneWire -------------------------------
(***************************************************************************)
(* The temperature sensor of examples/cpe439: the 1-Wire driver            *)
(* (extras/onewire/onewire.c with the sequences of maxim28.h), the         *)
(* hardware timer it runs on (extras/hw_timer/hw_timer.c), and the two     *)
(* tasks that use them, OW_init_seq_task and tempTask (cpe439.c).          *)
(*                                                                         *)
(* While the timer runs, an interrupt every 10 us makes one call of        *)
(* OW_doit: one step of the model.  Between the interrupts the kernel tick *)
(* passes and tasks run.  OW_init_seq_task polls seq_state, waits, and     *)
(* starts the next sequence; the callback at the end of a sequence stops   *)
(* the timer and says which sequence comes next; tempTask asks for a       *)
(* temperature at every second wake-up.                                    *)
(*                                                                         *)
(* The sensor is external.  It is modelled as the data sheet and the       *)
(* comment at the head of maxim28.h describe it: it measures how long the  *)
(* line is held low and answers with the bits of its ROM or scratchpad.    *)
(*                                                                         *)
(* The state starts when OW_init has returned.  From then on ow_state is   *)
(* OW_STATE_READY for ever (nothing assigns OW_STATE_IN_PROGRESS), so its  *)
(* test in OW_request_new_temp always succeeds.  seq_arr, arg_arr, seq_len *)
(* and callback are always assigned together and are one variable, seq;    *)
(* error is set and cleared within one interrupt.  The read and the write  *)
(* machine each have a bitMask (here the number of its bit) and a data,    *)
(* assigned at their start: one pair stands for both.                      *)
(***************************************************************************)
EXTENDS Crc8

CONSTANTS
  None,
  TickMs,        \* portTICK_PERIOD_MS
  TempMs,        \* the delay of tempTask between wake-ups
  ConvTicks,     \* kernel ticks after which a conversion is surely over
  Rom,           \* the eight bytes of the sensor's ROM
  Readings,      \* scratchpads a conversion may give
  PowerOn,       \* the scratchpad before the first conversion
  Faults,        \* what may go wrong on the bus
  MaxFaults      \* how often, in one behaviour

(* DS_SEQ_T: the sequences of maxim28.h.                                   *)
Seqs == {"UUID_T", "CONV_T", "READ_T"}

(* vTaskDelayMs(ms) is vTaskDelay((ms) / portTICK_PERIOD_MS).              *)
Ticks(ms) == ms \div TickMs

ASSUME ConstantsAssumption ==
  /\ TickMs \in Nat \ {0} /\ TempMs \in Nat
  /\ ConvTicks \in Nat /\ MaxFaults \in Nat
  /\ Faults \subseteq {"absent", "deaf", "noise"}
  /\ Rom \in [1 .. 8 -> Byte]
  /\ PowerOn \in [1 .. 9 -> Byte] /\ Readings \subseteq [1 .. 9 -> Byte]

ASSUME NoneAssumption == None \notin Seqs

(* tempTask sleeps longer than three sequences can take: for each, the     *)
(* time until OW_init_seq_task polls, its delay, and the tick that may     *)
(* pass during the interrupts.                                             *)
ASSUME TimingAssumption ==
  Ticks(TempMs) > 3 * (Ticks(25) + Ticks(1) + 1) + Ticks(15) + Ticks(750)

VARIABLES
  seq,           \* the sequence loaded: seq_arr, arg_arr, seq_len, callback
  seq_state, seq_pos, op_type, cur_op, delay_count,
  ow_task_arg,
  bitMask, data, readsLeft, readCount, spad_buf,
  UUID, have_uuid,
  prev_temp,     \* the last temperature handed to the publisher's queue
  timer,         \* FRC1 runs and interrupts are on
  hw_timer_state,
  ow_wait,       \* ticks until OW_init_seq_task runs again
  starting,      \* the sequence it will start then
  tt_wait,       \* ticks until tempTask runs again
  stagger,       \* tempTask's count is odd
  low,           \* interrupts for which the line has been held low, or 0
  dev,           \* the sensor's side of the conversation
  conv,          \* ticks left of a conversion
  spad,          \* the sensor's scratchpad
  late,          \* a kernel tick has passed since the timer was started
  converted,     \* the sensor was told to convert since the last request
  faults

drvVars  == <<seq, seq_pos, op_type, ow_task_arg>>
opVars   == <<seq_state, cur_op, delay_count>>
bitVars  == <<bitMask, data>>
readVars == <<readsLeft, readCount, spad_buf>>
outVars  == <<UUID, have_uuid, prev_temp>>
hwVars   == <<timer, hw_timer_state>>
taskVars == <<ow_wait, starting, tt_wait, stagger>>
senVars  == <<dev, conv, spad, converted>>
vars == <<drvVars, opVars, bitVars, readVars, outVars, hwVars, taskVars,
          low, senVars, late, faults>>

ds_seqs ==
  [UUID_T |-> <<"RESET", "WRITE", "WRITE", "READ", "END">>,
   CONV_T |-> <<"RESET", "WRITE", "WRITE", "END">>,
   READ_T |-> <<"RESET", "WRITE", "WRITE", "READ", "END">>]

DS_SKIPROM   == 204
DS_READROM   == 51
DS_CONVERT_T == 68
DS_READ_SPAD == 190
DS_FAMILY_CODE == 40

ds_seq_args ==
  [UUID_T |-> <<0, DS_READROM, DS_READ_SPAD, 9, 0>>,
   CONV_T |-> <<0, DS_SKIPROM, DS_CONVERT_T, 0>>,
   READ_T |-> <<0, DS_SKIPROM, DS_READ_SPAD, 9, 0>>]

Arg == ds_seq_args[seq][seq_pos]

(* A temperature, from the first two bytes of a scratchpad.                *)
Temperature(s) ==
  LET reading == s[2] * 256 + s[1]
      minus   == reading >= 32768
      abs     == IF minus THEN 65536 - reading ELSE reading
  IN  [sign |-> IF minus THEN "-" ELSE "+",
       val |-> abs \div 16, fract |-> ((abs % 16) * 100) \div 16]

TypeOK ==
  /\ seq \in Seqs \cup {None}
  /\ seq_state \in {"NONE", "INIT", "STARTED", "TRANSITION", "DONE"}
  /\ seq_pos \in 1 .. 5
  /\ op_type \in {"NONE", "RESET", "WRITE", "READ", "END"}
  /\ cur_op \in {"NONE", "WAIT_480_LOW", "WAIT_60_RESP", "WAIT_480", "DONE",
                 "SAMPLE", "WAIT_50", "LINE_LOW", "WRITE_FIRST", "WAIT_FIRST",
                 "FINALLY"}
  /\ delay_count \in 0 .. 48
  /\ ow_task_arg \in Seqs \cup {"INVALID", "NEXT_READ_T"}
  /\ bitMask \in 0 .. 8 /\ data \in Byte
  /\ readsLeft \in 0 .. 9 /\ readCount \in 0 .. 9
  /\ spad_buf \in [1 .. 9 -> Byte] /\ UUID \in [1 .. 8 -> Byte]
  /\ have_uuid \in BOOLEAN /\ timer \in BOOLEAN /\ late \in BOOLEAN
  /\ hw_timer_state \in {"READY", "ACTIVE"}
  /\ stagger \in BOOLEAN /\ converted \in BOOLEAN
  /\ ow_wait \in Nat /\ tt_wait \in 0 .. Ticks(TempMs)
  /\ starting \in Seqs \cup {None}
  /\ low \in 0 .. 48 /\ conv \in 0 .. ConvTicks
  /\ dev \in [mode : {"off", "deaf", "romcmd", "funccmd", "idle", "rom", "spad"},
              n : 0 .. 80, byte : Byte, out : {0, 1}]
  /\ spad \in [1 .. 9 -> Byte]
  /\ faults \in 0 .. MaxFaults

Zeros == [i \in 1 .. 9 |-> 0]

Init ==
  /\ seq = None /\ seq_state = "NONE" /\ seq_pos = 1 /\ op_type = "NONE"
  /\ cur_op = "NONE" /\ delay_count = 0 /\ ow_task_arg = "INVALID"
  /\ bitMask = 0 /\ data = 0 /\ readsLeft = 0 /\ readCount = 0
  /\ spad_buf = Zeros /\ UUID = [i \in 1 .. 8 |-> 0] /\ have_uuid = FALSE
  /\ prev_temp = None /\ timer = FALSE /\ hw_timer_state = "READY"
  /\ ow_wait = 0 /\ starting = None /\ tt_wait = 0 /\ stagger = FALSE
  /\ low = 0 /\ conv = 0 /\ spad = PowerOn
  /\ dev = [mode |-> "off", n |-> 0, byte |-> 0, out |-> 1]
  /\ late = FALSE /\ converted = FALSE /\ faults = 0

-----------------------------------------------------------------------------
(* The sensor.                                                             *)

May(kind) == kind \in Faults /\ faults < MaxFaults /\ faults' = faults + 1

(* The bit it takes a slot for: up to 15 us low is a one, from 60 us a     *)
(* zero, and it may see either in between.                                 *)
SlotBit(t) == IF t <= 1 THEN {1} ELSE IF t >= 6 THEN {0} ELSE {0, 1}

(* The bit it sends next: ones once everything is sent.                    *)
OutBit ==
  LET bytes == IF dev.mode = "rom" THEN Rom ELSE spad
  IN  IF dev.n < 8 * Len(bytes) THEN Bit(bytes[dev.n \div 8 + 1], dev.n % 8) ELSE 1

(* What it does next, having received a whole command.                     *)
AfterCommand(byte) ==
  CASE dev.mode = "romcmd" /\ byte = DS_READROM -> "rom"
    [] dev.mode = "romcmd" /\ byte = DS_SKIPROM -> "funccmd"
    [] dev.mode = "funccmd" /\ byte = DS_READ_SPAD -> "spad"
    [] OTHER -> "idle"

(* A slot it takes for bit b: a bit of a command to receive, or a bit of   *)
(* its answer to send.                                                     *)
Slot(b) ==
  LET byte == dev.byte + b * 2^dev.n
      mode == AfterCommand(byte)
  IN  IF dev.mode \in {"romcmd", "funccmd"}
      THEN /\ dev' = IF dev.n < 7 THEN [dev EXCEPT !.n = @ + 1, !.byte = byte]
                     ELSE [mode |-> mode, n |-> 0, byte |-> 0, out |-> 1]
           /\ IF dev.n = 7 /\ dev.mode = "funccmd" /\ byte = DS_CONVERT_T
              THEN conv' = ConvTicks /\ converted' = TRUE
              ELSE UNCHANGED <<conv, converted>>
      ELSE /\ dev' = IF dev.mode \in {"rom", "spad"}
                     THEN [dev EXCEPT !.n = @ + 1, !.out = OutBit]
                     ELSE dev
           /\ UNCHANGED <<conv, converted>>

(* The line is released after t interrupts.  480 us low is a reset, which  *)
(* the sensor answers unless it is not there; it may answer and then miss  *)
(* the commands.                                                           *)
Released(t) ==
  LET reset(mode) == dev' = [mode |-> mode, n |-> 0, byte |-> 0, out |-> 1]
  IN  /\ \/ /\ t >= 48
            /\ \/ reset("romcmd") /\ UNCHANGED faults
               \/ reset("off") /\ May("absent")
               \/ reset("deaf") /\ May("deaf")
            /\ UNCHANGED <<conv, converted>>
         \/ /\ t < 48
            /\ \E b \in SlotBit(t) : Slot(b)
            /\ UNCHANGED faults
      /\ UNCHANGED spad

-----------------------------------------------------------------------------
(* The hardware timer.  hw_timer_stop leaves hw_timer_state ACTIVE, in     *)
(* which hw_timer_start does nothing.                                      *)
hw_timer_stop == timer' = FALSE /\ UNCHANGED hw_timer_state

(* The state is left as it was.                                            *)
hw_timer_init_missing == hw_timer_state

(* The state that hw_timer_init leaves to hw_timer_start, which follows.   *)
hw_timer_init == "READY"

hw_timer_start(state) ==
  IF state = "ACTIVE" THEN UNCHANGED <<hwVars, late>>
  ELSE timer' = TRUE /\ hw_timer_state' = "ACTIVE" /\ late' = FALSE

-----------------------------------------------------------------------------
(* OW_doit, called by frc1_interrupt_handler: one step per interrupt.      *)

(* The interrupt meets operation op of type t; the first one of an         *)
(* operation starts it.                                                    *)
At(t, op) ==
  /\ timer /\ op_type = t
  /\ op = IF seq_state = "TRANSITION" THEN "INIT" ELSE cur_op

(* The operation goes on with step op.                                     *)
Continue(op, count) ==
  /\ cur_op' = op /\ delay_count' = count /\ seq_state' = "STARTED"
  /\ UNCHANGED <<drvVars, outVars, hwVars, taskVars, late>>

(* The operation is done: on to the next of the sequence.  Sequences end   *)
(* with OW_OP_END, so seq_pos stays below seq_len here.                    *)
OpDone ==
  /\ seq_pos' = seq_pos + 1
  /\ op_type' = ds_seqs[seq][seq_pos + 1]
  /\ cur_op' = "NONE" /\ seq_state' = "TRANSITION" /\ delay_count' = 0
  /\ UNCHANGED <<seq, ow_task_arg, outVars, hwVars, taskVars, late>>

(* The driver leaves the line as it is, pulls it low, releases it, or does *)
(* both within an interrupt.                                               *)
Hold    == low' = (IF low = 0 THEN 0 ELSE low + 1) /\ UNCHANGED <<senVars, faults>>
Pull    == low' = 1 /\ UNCHANGED <<senVars, faults>>
Release == low' = 0 /\ Released(low)
Pulse   == low' = 0 /\ Released(0)

(* One interrupt fewer than the reset needs.                               *)
reset_init_short ==
  /\ At("RESET", "INIT")
  /\ Continue("WAIT_480_LOW", 47)
  /\ Pull
  /\ UNCHANGED <<bitVars, readVars>>

reset_init ==
  /\ At("RESET", "INIT")
  /\ Continue("WAIT_480_LOW", 48)
  /\ Pull
  /\ UNCHANGED <<bitVars, readVars>>

reset_low ==
  /\ At("RESET", "WAIT_480_LOW")
  /\ IF delay_count > 1
     THEN Continue("WAIT_480_LOW", delay_count - 1) /\ Hold
     ELSE Continue("WAIT_60_RESP", 6) /\ Release
  /\ UNCHANGED <<bitVars, readVars>>

(* The presence pulse comes within 60 us, if the sensor is there.          *)
reset_resp ==
  /\ At("RESET", "WAIT_60_RESP")
  /\ dev.mode # "off"
  /\ \/ Continue("WAIT_480", 47)
     \/ delay_count > 1 /\ Continue("WAIT_60_RESP", delay_count - 1)
  /\ Hold
  /\ UNCHANGED <<bitVars, readVars>>

reset_no_resp ==
  /\ At("RESET", "WAIT_60_RESP")
  /\ dev.mode = "off" /\ delay_count > 1
  /\ Continue("WAIT_60_RESP", delay_count - 1)
  /\ Hold
  /\ UNCHANGED <<bitVars, readVars>>

(* The timeout leaves the timer on.                                        *)
reset_timeout_keeps_timer ==
  /\ At("RESET", "WAIT_60_RESP")
  /\ dev.mode = "off" /\ delay_count = 1
  /\ delay_count' = 0 /\ seq_state' = "DONE"
  /\ Hold
  /\ UNCHANGED <<drvVars, cur_op, outVars, taskVars, late, bitVars, readVars, hwVars>>

(* OW_ERROR_RESET_RESP_TIMEOUT: every callback ends in OW_handle_error.    *)
reset_timeout ==
  /\ At("RESET", "WAIT_60_RESP")
  /\ dev.mode = "off" /\ delay_count = 1
  /\ delay_count' = 0 /\ seq_state' = "DONE"
  /\ hw_timer_stop
  /\ Hold
  /\ UNCHANGED <<drvVars, cur_op, outVars, taskVars, late, bitVars, readVars>>

reset_wait ==
  /\ At("RESET", "WAIT_480")
  /\ IF delay_count > 1 THEN Continue("WAIT_480", delay_count - 1)
     ELSE Continue("DONE", 0)
  /\ Hold
  /\ UNCHANGED <<bitVars, readVars>>

reset_done ==
  /\ At("RESET", "DONE")
  /\ OpDone
  /\ Hold
  /\ UNCHANGED <<bitVars, readVars>>

OW_doit_reset ==
  \/ reset_init \/ reset_low \/ reset_resp \/ reset_no_resp \/ reset_timeout
  \/ reset_wait \/ reset_done

(* A read slot: the line is low for 2 us and sampled at the next interrupt.*)
read_init ==
  /\ At("READ", "INIT")
  /\ bitMask' = 0 /\ data' = 0 /\ readCount' = 0 /\ readsLeft' = Arg
  /\ Continue("SAMPLE", delay_count)
  /\ Pulse
  /\ UNCHANGED spad_buf

read_sample ==
  /\ At("READ", "SAMPLE")
  /\ \E sample \in {0, 1} :
       /\ data' = data + sample * 2^bitMask
       /\ IF sample = dev.out THEN UNCHANGED faults ELSE May("noise")
  /\ bitMask' = bitMask + 1
  /\ Continue("WAIT_50", 4)
  /\ UNCHANGED <<readVars, low, senVars>>

read_wait ==
  /\ At("READ", "WAIT_50")
  /\ delay_count > 1
  /\ Continue("WAIT_50", delay_count - 1)
  /\ Hold
  /\ UNCHANGED <<bitVars, readVars>>

read_next_bit ==
  /\ At("READ", "WAIT_50")
  /\ delay_count = 1 /\ bitMask < 8
  /\ Continue("SAMPLE", 0)
  /\ Pulse
  /\ UNCHANGED <<bitVars, readVars>>

(* Mutant: the last byte asked for is not the last one read.               *)
read_next_byte_one_more ==
  /\ At("READ", "WAIT_50")
  /\ delay_count = 1 /\ bitMask = 8
  /\ spad_buf' = [spad_buf EXCEPT ![readCount + 1] = data]
  /\ readCount' = readCount + 1 /\ readsLeft' = readsLeft - 1
  /\ bitMask' = 0 /\ data' = 0
  /\ IF readsLeft = 0 THEN OpDone /\ Hold ELSE Continue("SAMPLE", 0) /\ Pulse

read_next_byte ==
  /\ At("READ", "WAIT_50")
  /\ delay_count = 1 /\ bitMask = 8
  /\ spad_buf' = [spad_buf EXCEPT ![readCount + 1] = data]
  /\ readCount' = readCount + 1 /\ readsLeft' = readsLeft - 1
  /\ bitMask' = 0 /\ data' = 0
  /\ IF readsLeft = 1 THEN OpDone /\ Hold ELSE Continue("SAMPLE", 0) /\ Pulse

OW_doit_read ==
  read_init \/ read_sample \/ read_wait \/ read_next_bit \/ read_next_byte

write_init ==
  /\ At("WRITE", "INIT")
  /\ data' = Arg /\ bitMask' = 0
  /\ Continue("LINE_LOW", delay_count)
  /\ Hold
  /\ UNCHANGED readVars

(* The line goes low; a one is released at the next interrupt, a zero      *)
(* after six.                                                              *)
LineLow(mask) ==
  /\ Continue(IF Bit(data, mask) = 1 THEN "WRITE_FIRST" ELSE "WAIT_FIRST", 6)
  /\ Pull

write_line_low ==
  /\ At("WRITE", "LINE_LOW")
  /\ LineLow(bitMask)
  /\ UNCHANGED <<bitVars, readVars>>

write_first ==
  /\ At("WRITE", "WRITE_FIRST")
  /\ IF delay_count = 6 THEN Release ELSE Hold
  /\ Continue(IF delay_count = 1 THEN "FINALLY" ELSE "WRITE_FIRST", delay_count - 1)
  /\ UNCHANGED <<bitVars, readVars>>

wait_first ==
  /\ At("WRITE", "WAIT_FIRST")
  /\ IF delay_count > 1 THEN Continue("WAIT_FIRST", delay_count - 1) /\ Hold
     ELSE Continue("FINALLY", 0) /\ Release
  /\ UNCHANGED <<bitVars, readVars>>

(* The byte ends one bit early.                                            *)
write_finally_early ==
  /\ At("WRITE", "FINALLY")
  /\ bitMask' = bitMask + 1
  /\ IF bitMask' = 7 THEN OpDone /\ Hold ELSE LineLow(bitMask')
  /\ UNCHANGED <<data, readVars>>

write_finally ==
  /\ At("WRITE", "FINALLY")
  /\ bitMask' = bitMask + 1
  /\ IF bitMask' = 8 THEN OpDone /\ Hold ELSE LineLow(bitMask')
  /\ UNCHANGED <<data, readVars>>

OW_doit_write ==
  write_init \/ write_line_low \/ write_first \/ wait_first \/ write_finally

(* The last operation of a sequence: its callback stops the timer and      *)
(* says what comes next.                                                   *)
AtEnd(s) ==
  /\ timer /\ op_type = "END" /\ seq = s
  /\ hw_timer_stop
  /\ UNCHANGED <<seq, seq_pos, op_type, cur_op, delay_count, bitVars,
                 taskVars, low, senVars, late, faults>>

(* The first byte of the answer is taken for the first of the UUID.        *)
read_uuid_done_cb_shifted ==
  /\ AtEnd("UUID_T")
  /\ ow_task_arg' = "CONV_T" /\ seq_state' = "INIT"
  /\ UUID' = [i \in 1 .. 8 |-> spad_buf[i]]
  /\ have_uuid' = (\E i \in 2 .. 8 : UUID'[i] \notin {0, 255})
  /\ UNCHANGED <<prev_temp, readVars>>

(* The sensor sends its family code while the driver still writes the      *)
(* second command; seven bytes of the answer are left to read.             *)
read_uuid_done_cb ==
  /\ AtEnd("UUID_T")
  /\ ow_task_arg' = "CONV_T" /\ seq_state' = "INIT"
  /\ UUID' = [i \in 1 .. 8 |-> IF i = 1 THEN DS_FAMILY_CODE ELSE spad_buf[i - 1]]
  /\ have_uuid' = (\E i \in 2 .. 8 : UUID'[i] \notin {0, 255})
  /\ UNCHANGED <<prev_temp, readVars>>

conv_t_done_cb ==
  /\ AtEnd("CONV_T")
  /\ ow_task_arg' = "READ_T" /\ seq_state' = "INIT"
  /\ UNCHANGED <<outVars, readVars>>

(* OW_queue_temperature: a temperature other than the last one is sent.    *)
(* prev_temp keeps it even when the queue is full.                         *)
OW_queue_temperature(latest_temp) == prev_temp' = latest_temp

(* The checksum is not looked at.                                          *)
read_temp_done_cb_unchecked ==
  /\ AtEnd("READ_T")
  /\ OW_queue_temperature(Temperature(spad_buf))
  /\ spad_buf' = Zeros
  /\ ow_task_arg' = "NEXT_READ_T" /\ seq_state' = "DONE"
  /\ UNCHANGED <<readsLeft, readCount, UUID, have_uuid>>

(* Like the other callbacks, it asks for the next sequence.                *)
read_temp_done_cb_restarts ==
  /\ AtEnd("READ_T")
  /\ OW_queue_temperature(Temperature(spad_buf))
  /\ spad_buf' = Zeros
  /\ ow_task_arg' = "NEXT_READ_T" /\ seq_state' = "INIT"
  /\ UNCHANGED <<readsLeft, readCount, UUID, have_uuid>>

read_temp_done_cb ==
  /\ AtEnd("READ_T")
  /\ IF onewire_crc8(SubSeq(spad_buf, 1, 8)) = spad_buf[9]
     THEN OW_queue_temperature(Temperature(spad_buf))
     ELSE UNCHANGED prev_temp
  /\ spad_buf' = Zeros
  /\ ow_task_arg' = "NEXT_READ_T" /\ seq_state' = "DONE"
  /\ UNCHANGED <<readsLeft, readCount, UUID, have_uuid>>

OW_doit ==
  \/ OW_doit_reset \/ OW_doit_read \/ OW_doit_write
  \/ read_uuid_done_cb \/ conv_t_done_cb \/ read_temp_done_cb

-----------------------------------------------------------------------------
(* The tasks.  tempTask has the higher priority (settings.example.mk).     *)

OwTaskRuns == ow_wait = 0 /\ tt_wait > 0

(* Three seconds for the conversion.                                       *)
StartDelay_long ==
  [UUID_T |-> 0, CONV_T |-> Ticks(15), READ_T |-> Ticks(3000)]

(* The delay of OW_init_seq_task before it starts a sequence.              *)
StartDelay ==
  [UUID_T |-> 0, CONV_T |-> Ticks(15), READ_T |-> Ticks(750)]

(* OW_init_seq_task finds a sequence to start.  (DS_SEQ_NEXT_READ_T and    *)
(* the default case need seq_state INIT with another ow_task_arg: see      *)
(* StartsSequence.)                                                        *)
ow_task_init ==
  /\ OwTaskRuns /\ starting = None /\ seq_state = "INIT"
  /\ ow_task_arg \in Seqs
  /\ op_type' = ds_seqs[seq][1] /\ cur_op' = "NONE" /\ seq_pos' = 1
  /\ starting' = ow_task_arg
  /\ ow_wait' = StartDelay[ow_task_arg]
  /\ UNCHANGED <<seq, seq_state, delay_count, ow_task_arg, bitVars, readVars,
                 outVars, hwVars, tt_wait, stagger, low, senVars, late, faults>>

(* It finds none.                                                          *)
ow_task_poll ==
  /\ OwTaskRuns /\ starting = None /\ seq_state # "INIT"
  /\ ow_wait' = Ticks(25)
  /\ UNCHANGED <<drvVars, opVars, bitVars, readVars, outVars, hwVars, starting,
                 tt_wait, stagger, low, senVars, late, faults>>

(* OW_init_seq, after the delay.                                           *)
(* vTaskDelayMs(1) is vTaskDelay(0): the task may poll again at once.      *)
OW_init_seq ==
  /\ OwTaskRuns /\ starting # None
  /\ seq' = starting /\ ow_task_arg' = starting /\ seq_state' = "TRANSITION"
  /\ hw_timer_start(hw_timer_init)
  /\ starting' = None /\ ow_wait' = Ticks(1)
  /\ UNCHANGED <<seq_pos, op_type, cur_op, delay_count, bitVars, readVars,
                 outVars, tt_wait, stagger, low, senVars, faults>>

(* memset clears sizeof(OW_SPAD_SIZE) bytes, the size of an int.           *)
OW_request_new_temp ==
  LET first == IF have_uuid THEN "CONV_T" ELSE "UUID_T"
  IN  /\ spad_buf' = [i \in 1 .. 9 |-> IF i <= 4 THEN 0 ELSE spad_buf[i]]
      /\ seq' = first /\ ow_task_arg' = first /\ seq_state' = "INIT"
      /\ converted' = FALSE

(* tempTask asks at every second wake-up.  (It asks once more before its   *)
(* loop: the same request, before any other task runs.)                    *)
tempTask ==
  /\ tt_wait = 0
  /\ stagger' = ~stagger
  /\ tt_wait' = Ticks(TempMs)
  /\ IF stagger' THEN OW_request_new_temp
     ELSE UNCHANGED <<spad_buf, seq, ow_task_arg, seq_state, converted>>
  /\ UNCHANGED <<seq_pos, op_type, cur_op, delay_count, bitVars, readsLeft,
                 readCount, outVars, hwVars, ow_wait, starting, low, dev, conv,
                 spad, late, faults>>

(* A kernel tick.  Both tasks are ready before everything else and run     *)
(* before the next one; a sequence takes less than a tick of interrupts    *)
(* (at most 600 of 10 us), so at most one tick falls into it.              *)
Tick ==
  /\ tt_wait > 0 /\ ow_wait > 0
  /\ ~(timer /\ late)
  /\ tt_wait' = tt_wait - 1 /\ ow_wait' = ow_wait - 1
  /\ late' = timer
  /\ conv' = IF conv = 0 THEN 0 ELSE conv - 1
  /\ IF conv = 1 THEN spad' \in Readings ELSE UNCHANGED spad
  /\ UNCHANGED <<drvVars, opVars, bitVars, readVars, outVars, hwVars, starting,
                 stagger, low, dev, converted, faults>>

Tasks == ow_task_init \/ ow_task_poll \/ OW_init_seq \/ tempTask

Next == OW_doit \/ Tasks \/ Tick

Spec == Init /\ [][Next]_vars

(* Interrupts are taken, ready tasks of these priorities run, time passes. *)
FairSpec == Spec /\ WF_vars(Next)

-----------------------------------------------------------------------------

(* tempTask never meets a sequence that is under way: when it wakes, the   *)
(* last request has been served or has failed, the timer is off and        *)
(* OW_init_seq_task is only polling.  Nothing in OW_request_new_temp keeps *)
(* a request from overwriting a sequence in progress, and it shares all    *)
(* its variables with the interrupt; only the delays do.                   *)
RequestFindsIdle ==
  tt_wait = 0 => ~timer /\ starting = None /\ seq_state \in {"NONE", "DONE"}

(* The interrupts run only while a sequence is under way, and the          *)
(* operation they perform is the one at seq_pos: seq_pos never leaves the  *)
(* sequence.                                                               *)
InSequence ==
  timer => /\ seq_state \in {"STARTED", "TRANSITION"} /\ starting = None
           /\ seq_pos <= Len(ds_seqs[seq]) /\ op_type = ds_seqs[seq][seq_pos]

(* A sequence to start is one of the three: the other cases of             *)
(* OW_init_seq_task's switch are never taken.                              *)
StartsSequence ==
  seq_state = "INIT" => ow_task_arg \in Seqs /\ seq \in Seqs

(* When the driver starts to read, the sensor, if it listens at all, has   *)
(* understood the commands and is about to send what the driver will take  *)
(* the answer for: the second byte of its ROM, or the first of its         *)
(* scratchpad; and it is converting when a conversion sequence ends.       *)
SensorInStep ==
  timer /\ dev.mode \notin {"off", "deaf"} =>
    /\ op_type = "READ" /\ seq_state = "TRANSITION" =>
         IF seq = "UUID_T" THEN dev.mode = "rom" /\ dev.n = 8
         ELSE dev.mode = "spad" /\ dev.n = 0
    /\ op_type = "END" /\ seq = "CONV_T" => converted /\ conv >= ConvTicks - 1

(* A temperature is handed to the publisher only if it is what the sensor  *)
(* measured in a conversion of this request that is over: not a value from *)
(* before, not one garbled on the bus.                                     *)
PublishedFresh ==
  [][prev_temp' # prev_temp =>
       /\ converted /\ conv = 0
       /\ prev_temp' = Temperature(spad)]_vars

(* An accepted UUID is the sensor's, as long as no bit of it is garbled    *)
(* (read_uuid_done_cb does not look at its checksum): the seven bytes read *)
(* and the family code filled in are the eight bytes of the ROM.           *)
UuidIsRom == have_uuid => UUID = Rom

(* The table of crc.c is the table of the Dallas polynomial: when the      *)
(* checksum of a scratchpad is taken, a round of onewire_crc8 on any of    *)
(* its bytes does what the register of the data sheet does, whatever the   *)
(* register holds.                                                         *)
TableIsPolynomial ==
  (timer /\ op_type = "END" /\ seq = "READ_T") =>
    \A i \in 1 .. 8, crc \in Byte :
      crc_round(crc, spad_buf[i]) = Shift8[Xor(crc, spad_buf[i])]

(* Readings go on for ever, whatever bounded number of faults there was:   *)
(* no fault leaves the driver stuck.                                       *)
ReadingsGoOn == []<>(ow_task_arg = "NEXT_READ_T")
=============================================================================
