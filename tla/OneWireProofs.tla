--------------------------- MODULE OneWireProofs ----------------------------
(***************************************************************************)
(* The 1-Wire driver, for every length of a kernel tick, every period of   *)
(* tempTask long enough (TimingAssumption), every ROM and every reading.   *)
(*                                                                         *)
(* Requests never overlap (Control, Deadlines).  Driver and sensor are     *)
(* always at the same bit of the same command or answer (Bus), so that no  *)
(* variable leaves its type and a sensor that listens follows.  Without    *)
(* noise the bytes received are the bytes sent (Present, Receiving,        *)
(* Received), so an accepted UUID is the ROM, and, with time for the       *)
(* conversion (Fresh), a published temperature is the one measured.        *)
(***************************************************************************)
EXTENDS OneWire, TLAPS

(* Leaves are for Zenon, unless they say SMT.                              *)
USE ZenonT(30)

(* The longest OW_init_seq_task sleeps between two looks at seq_state.     *)
Poll == Ticks(25) + Ticks(1)

(* Ticks since tempTask last woke.                                         *)
Elapsed == Ticks(TempMs) - tt_wait

(* When OW_init_seq_task has noticed, at the latest, that sequence s is    *)
(* to be started, and when it starts it.                                   *)
NoticedBy(s) ==
  CASE s = "UUID_T" -> Poll
    [] s = "CONV_T" -> 2 * Poll + 1
    [] s = "READ_T" -> 3 * Poll + Ticks(15) + 2

StartedBy(s) == NoticedBy(s) + StartDelay[s]

(* The inductive invariant.  A sequence is waiting to be noticed, waiting  *)
(* to be started, or running, and each has its deadline.                   *)
Control ==
  /\ timer \in BOOLEAN /\ late \in BOOLEAN
  /\ seq_state \in {"NONE", "INIT", "STARTED", "TRANSITION", "DONE"}
  /\ timer <=> seq_state \in {"STARTED", "TRANSITION"}
  /\ seq_state = "INIT" => ow_task_arg \in Seqs /\ seq \in Seqs
  /\ starting # None => seq_state = "INIT" /\ starting = ow_task_arg
  /\ starting # None => seq_pos = 1 /\ op_type = "RESET"
  /\ timer => /\ seq \in Seqs
              /\ seq_pos \in 1 .. Len(ds_seqs[seq]) /\ op_type = ds_seqs[seq][seq_pos]

Deadlines ==
  /\ ow_wait \in Nat /\ tt_wait \in 0 .. Ticks(TempMs)
  /\ starting = None => ow_wait <= Poll
  /\ seq_state = "INIT" /\ starting = None =>
       Elapsed + ow_wait <= NoticedBy(ow_task_arg)
  /\ starting # None => Elapsed + ow_wait <= StartedBy(starting)
  /\ timer => Elapsed <= StartedBy(seq) + (IF late THEN 1 ELSE 0)

(* vTaskDelayMs gives a number of ticks.                                   *)
LEMMA TicksType == \A ms \in Nat : Ticks(ms) \in Nat
  BY ConstantsAssumption, SMTT(20) DEF Ticks

(* The deadlines are numbers, each sequence is noticed after the one       *)
(* before it has run, and the last one is over before tempTask wakes.      *)
LEMMA DeadlineOrder ==
  /\ Poll \in Nat
  /\ \A s \in Seqs : /\ NoticedBy(s) \in Nat /\ StartDelay[s] \in Nat
                     /\ StartedBy(s) \in Nat
                     /\ StartedBy(s) = NoticedBy(s) + StartDelay[s]
                     /\ NoticedBy(s) >= Poll
                     /\ StartedBy(s) + 1 < Ticks(TempMs)
  /\ StartedBy("UUID_T") + 1 + Poll <= NoticedBy("CONV_T")
  /\ StartedBy("CONV_T") + 1 + Poll <= NoticedBy("READ_T")
<1>1. /\ Ticks(25) \in Nat /\ Ticks(1) \in Nat /\ Ticks(15) \in Nat
      /\ Ticks(750) \in Nat /\ Ticks(TempMs) \in Nat
  BY TicksType, ConstantsAssumption, SMTT(20)
<1>2. StartDelay["UUID_T"] = 0 /\ StartDelay["CONV_T"] = Ticks(15)
      /\ StartDelay["READ_T"] = Ticks(750)
  BY DEF StartDelay
<1> QED
  BY <1>1, <1>2, TimingAssumption, SMTT(20) DEF Poll, NoticedBy, StartedBy, Seqs

(* A step of an operation, and the end of one.                             *)
GoesOn ==
  /\ timer /\ seq_state' = "STARTED"
  /\ UNCHANGED <<drvVars, timer, taskVars, late>>

MovesOn ==
  /\ timer /\ op_type \in {"RESET", "READ", "WRITE"}
  /\ OpDone

(* An interrupt goes on with an operation, ends one, meets the timeout, or *)
(* runs the callback of a sequence.                                        *)
LEMMA InterruptCases ==
  ASSUME OW_doit
  PROVE  \/ GoesOn \/ MovesOn \/ reset_timeout
         \/ read_uuid_done_cb \/ conv_t_done_cb \/ read_temp_done_cb
<1>1. CASE OW_doit_reset
  BY <1>1 DEF OW_doit_reset, reset_init, reset_low, reset_resp, reset_no_resp,
    reset_wait, reset_done, At, Continue, hwVars, GoesOn, MovesOn
<1>2. CASE OW_doit_read
  BY <1>2 DEF OW_doit_read, read_init, read_sample, read_wait, read_next_bit,
    read_next_byte, At, Continue, hwVars, GoesOn, MovesOn
<1>3. CASE OW_doit_write
  BY <1>3 DEF OW_doit_write, write_init, write_line_low, LineLow, write_first,
    wait_first, write_finally, At, Continue, hwVars, GoesOn, MovesOn
<1> QED
  BY <1>1, <1>2, <1>3 DEF OW_doit

(* The next position of a sequence, after an operation other than its last.*)
LEMMA NextPosition ==
  ASSUME NEW s \in Seqs, NEW i \in 1 .. Len(ds_seqs[s]), ds_seqs[s][i] # "END"
  PROVE  i + 1 \in 1 .. Len(ds_seqs[s])
<1>1. CASE s = "CONV_T"
  BY <1>1, SMTT(20) DEF ds_seqs
<1>2. CASE s = "UUID_T"
  BY <1>2, SMTT(20) DEF ds_seqs
<1>3. CASE s = "READ_T"
  BY <1>3, SMTT(20) DEF ds_seqs
<1> QED
  BY <1>1, <1>2, <1>3 DEF Seqs

(* All sequences begin with a reset.                                       *)
LEMMA FirstIsReset ==
  ASSUME NEW s \in Seqs
  PROVE  ds_seqs[s][1] = "RESET" /\ 1 \in 1 .. Len(ds_seqs[s])
<1>1. CASE s = "CONV_T"
  BY <1>1, SMTT(20) DEF ds_seqs
<1>2. CASE s \in {"UUID_T", "READ_T"}
  BY <1>2, SMTT(20) DEF ds_seqs
<1> QED
  BY <1>1, <1>2 DEF Seqs

(* The deadlines make tempTask find the driver idle.                       *)
LEMMA IdleInTime ==
  ASSUME Control, Deadlines
  PROVE  RequestFindsIdle
<1> SUFFICES ASSUME tt_wait = 0
             PROVE  ~timer /\ starting = None /\ seq_state \in {"NONE", "DONE"}
  BY DEF RequestFindsIdle
<1>1. Elapsed = Ticks(TempMs) /\ Ticks(TempMs) \in Nat
  BY TicksType, ConstantsAssumption, SMTT(20) DEF Elapsed
<1>2. \A s \in Seqs : StartedBy(s) + 1 < Elapsed /\ NoticedBy(s) < Elapsed
  BY <1>1, DeadlineOrder, SMTT(20)
<1>3. ~timer
  BY <1>1, <1>2, DeadlineOrder, SMTT(20) DEF Control, Deadlines
<1>4. starting = None
  BY <1>1, <1>2, DeadlineOrder, SMTT(20) DEF Control, Deadlines
<1>5. seq_state # "INIT"
  BY <1>1, <1>2, <1>4, DeadlineOrder, SMTT(20) DEF Control, Deadlines
<1> QED
  BY <1>3, <1>4, <1>5 DEF Control

(* Of the last sequence to run, even if a tick fell into it.               *)
LEMMA LastTick ==
  ASSUME Control, Deadlines, timer
  PROVE  Elapsed \in Int /\ StartedBy(seq) \in Nat /\ Elapsed <= StartedBy(seq) + 1
<1>1. seq \in Seqs /\ tt_wait \in 0 .. Ticks(TempMs) /\ Ticks(TempMs) \in Nat
  BY TicksType, ConstantsAssumption DEF Control, Deadlines
<1>2. Elapsed \in Int
  BY <1>1, SMTT(20) DEF Elapsed
<1>3. StartedBy(seq) \in Nat
  BY <1>1, DeadlineOrder
<1> QED
  BY <1>2, <1>3, SMTT(20) DEF Deadlines

(* Every step keeps the invariant.                                         *)
LEMMA DeadlinesStep ==
  ASSUME Control, Deadlines, [Next]_vars
  PROVE  Control' /\ Deadlines'
<1>0. Ticks(TempMs) \in Nat /\ Ticks(25) \in Nat /\ Ticks(1) \in Nat
  BY TicksType, ConstantsAssumption
<1>1. CASE GoesOn
  BY <1>1 DEF GoesOn, drvVars, taskVars, Control, Deadlines, Elapsed
<1>2. CASE MovesOn
  <2>1. seq_pos + 1 \in 1 .. Len(ds_seqs[seq])
    BY <1>2, NextPosition DEF MovesOn, Control
  <2> QED
    BY <1>2, <2>1 DEF MovesOn, OpDone, taskVars, hwVars, Control, Deadlines, Elapsed
<1>3. CASE reset_timeout \/ read_temp_done_cb
  BY <1>3 DEF reset_timeout, read_temp_done_cb, AtEnd, hw_timer_stop, At, drvVars, taskVars,
    Control, Deadlines, Elapsed
<1>4. CASE read_uuid_done_cb
  <2>1. /\ timer /\ seq = "UUID_T" /\ ~timer' /\ seq_state' = "INIT"
        /\ ow_task_arg' = "CONV_T" /\ seq' = seq /\ UNCHANGED taskVars /\ late' = late
    BY <1>4 DEF read_uuid_done_cb, AtEnd, hw_timer_stop
  <2>2. starting = None /\ starting' = None
    BY <2>1 DEF Control, taskVars
  <2>3. Elapsed + ow_wait <= NoticedBy("CONV_T")
    <3>1. ow_wait \in Nat /\ ow_wait <= Poll
      BY <2>2 DEF Deadlines
    <3>2. /\ Elapsed \in Int /\ StartedBy("UUID_T") \in Nat
          /\ Elapsed <= StartedBy("UUID_T") + 1
      BY <2>1, LastTick
    <3>3. Poll \in Nat /\ NoticedBy("CONV_T") \in Nat
      BY DeadlineOrder DEF Seqs
    <3> QED
      BY <3>1, <3>2, <3>3, DeadlineOrder, SMTT(20)
  <2>4. Control'
    <3>1. "UUID_T" \in Seqs /\ "CONV_T" \in Seqs /\ late \in BOOLEAN /\ timer' \in BOOLEAN
      BY <1>4 DEF Seqs, Control, read_uuid_done_cb, AtEnd, hw_timer_stop
    <3> QED
      BY <2>1, <2>2, <3>1 DEF Control
  <2> QED
    BY <2>1, <2>2, <2>3, <2>4 DEF taskVars, Deadlines, Elapsed
<1>5. CASE conv_t_done_cb
  <2>1. /\ timer /\ seq = "CONV_T" /\ ~timer' /\ seq_state' = "INIT"
        /\ ow_task_arg' = "READ_T" /\ seq' = seq /\ UNCHANGED taskVars /\ late' = late
    BY <1>5 DEF conv_t_done_cb, AtEnd, hw_timer_stop
  <2>2. starting = None /\ starting' = None
    BY <2>1 DEF Control, taskVars
  <2>3. Elapsed + ow_wait <= NoticedBy("READ_T")
    <3>1. ow_wait \in Nat /\ ow_wait <= Poll
      BY <2>2 DEF Deadlines
    <3>2. /\ Elapsed \in Int /\ StartedBy("CONV_T") \in Nat
          /\ Elapsed <= StartedBy("CONV_T") + 1
      BY <2>1, LastTick
    <3>3. Poll \in Nat /\ NoticedBy("READ_T") \in Nat
      BY DeadlineOrder DEF Seqs
    <3> QED
      BY <3>1, <3>2, <3>3, DeadlineOrder, SMTT(20)
  <2>4. Control'
    <3>1. "CONV_T" \in Seqs /\ "READ_T" \in Seqs /\ late \in BOOLEAN /\ timer' \in BOOLEAN
      BY <1>5 DEF Seqs, Control, conv_t_done_cb, AtEnd, hw_timer_stop
    <3> QED
      BY <2>1, <2>2, <3>1 DEF Control
  <2> QED
    BY <2>1, <2>2, <2>3, <2>4 DEF taskVars, Deadlines, Elapsed
<1>6. CASE ow_task_init
  <2>1. op_type' = "RESET"
    BY <1>6, FirstIsReset DEF ow_task_init, Control
  <2>2. Elapsed + StartDelay[ow_task_arg] <= StartedBy(ow_task_arg)
        /\ StartDelay[ow_task_arg] \in Nat
    BY <1>6, <1>0, DeadlineOrder, SMTT(20) DEF ow_task_init, hwVars, OwTaskRuns, Deadlines, Elapsed
  <2>3. /\ ow_task_arg \in Seqs /\ starting' = ow_task_arg /\ starting' # None
        /\ seq_state = "INIT" /\ seq_pos' = 1 /\ ow_wait' = StartDelay[ow_task_arg]
        /\ UNCHANGED <<seq, seq_state, ow_task_arg, timer, tt_wait, late>>
    BY <1>6, NoneAssumption DEF ow_task_init, hwVars
  <2>4. Control'
    BY <2>1, <2>3 DEF Control
  <2>5. ~timer
    BY <2>3 DEF Control
  <2> QED
    BY <2>2, <2>3, <2>4, <2>5 DEF Deadlines, Elapsed
<1>7. CASE ow_task_poll
  BY <1>7, <1>0, SMTT(20) DEF ow_task_poll, hwVars, OwTaskRuns, drvVars, opVars, Control, Deadlines,
    Elapsed, Poll
<1>8. CASE OW_init_seq
  <2>1. starting \in Seqs /\ seq_pos = 1 /\ op_type = "RESET"
    BY <1>8 DEF OW_init_seq, Control
  <2>2. Elapsed <= StartedBy(starting)
    BY <1>8, <1>0, SMTT(20) DEF OW_init_seq, OwTaskRuns, Deadlines, Elapsed
  <2>3. Ticks(1) <= Poll
    BY <1>0, SMTT(20) DEF Poll
  <2>4. Control'
    BY <1>8, <2>1, FirstIsReset DEF OW_init_seq, hw_timer_start, hw_timer_init, Control
  <2>5. Elapsed' = Elapsed /\ Elapsed \in Int /\ StartedBy(starting) \in Nat
    BY <1>8, <1>0, <2>1, DeadlineOrder, SMTT(20) DEF OW_init_seq, Deadlines, Elapsed
  <2>6. /\ seq' = starting /\ starting' = None /\ ow_wait' = Ticks(1)
        /\ tt_wait' = tt_wait /\ seq_state' = "TRANSITION" /\ late' = FALSE
    BY <1>8 DEF OW_init_seq, hw_timer_start, hw_timer_init
  <2> QED
    BY <1>0, <2>2, <2>3, <2>4, <2>5, <2>6, SMTT(20) DEF Deadlines
<1>9. CASE tempTask
  <2>1. ~timer /\ starting = None /\ seq_state \in {"NONE", "DONE"}
    BY <1>9, IdleInTime DEF tempTask, RequestFindsIdle
  <2>2. Elapsed' = 0 /\ ow_wait' = ow_wait /\ tt_wait' = Ticks(TempMs)
    BY <1>9, <1>0, SMTT(20) DEF tempTask, Elapsed
  <2>3. \A s \in Seqs : ow_wait <= NoticedBy(s)
    BY <2>1, DeadlineOrder, SMTT(20) DEF Deadlines
  <2>4. UNCHANGED <<seq_pos, op_type, ow_wait, starting, late, timer>>
    BY <1>9 DEF tempTask, hwVars
  <2>5. ow_wait \in Nat /\ ow_wait <= Poll /\ Ticks(TempMs) \in 0 .. Ticks(TempMs)
    BY <1>0, <2>1, SMTT(20) DEF Deadlines
  <2>6. CASE stagger'
    <3>1. /\ seq' = ow_task_arg' /\ seq_state' = "INIT"
          /\ ow_task_arg' \in {"UUID_T", "CONV_T"}
      BY <1>9, <2>6 DEF tempTask, OW_request_new_temp
    <3>2. Control'
      BY <2>1, <2>4, <3>1 DEF Control, Seqs
    <3>3. 0 + ow_wait <= NoticedBy(ow_task_arg')
      BY <2>3, <2>5, <3>1, SMTT(20) DEF Seqs
    <3> QED
      BY <2>1, <2>2, <2>4, <2>5, <3>2, <3>3 DEF Deadlines
  <2>7. CASE ~stagger'
    <3>1. UNCHANGED <<seq, ow_task_arg, seq_state>>
      BY <1>9, <2>7 DEF tempTask
    <3>2. Control'
      BY <2>1, <2>4, <3>1 DEF Control
    <3> QED
      BY <2>1, <2>2, <2>4, <2>5, <3>1, <3>2 DEF Deadlines
  <2> QED
    BY <2>6, <2>7
<1>10. CASE Tick
  <2>1. Elapsed' = Elapsed + 1 /\ ow_wait' = ow_wait - 1
    BY <1>10, <1>0, SMTT(20) DEF Tick, Elapsed, Deadlines
  <2>2. Control'
    BY <1>10 DEF Tick, hwVars, drvVars, opVars, Control
  <2>3. /\ seq' = seq /\ starting' = starting /\ seq_state' = seq_state
        /\ ow_task_arg' = ow_task_arg /\ timer' = timer /\ tt_wait' = tt_wait - 1
        /\ ow_wait \in Nat /\ ow_wait > 0 /\ tt_wait > 0
        /\ tt_wait \in 0 .. Ticks(TempMs) /\ Elapsed \in Int /\ Poll \in Nat
    BY <1>10, <1>0, DeadlineOrder, SMTT(20) DEF Tick, hwVars, drvVars, opVars, Deadlines, Elapsed
  <2>4. ASSUME timer
        PROVE  Elapsed' <= StartedBy(seq') + (IF late' THEN 1 ELSE 0)
    <3>1. ~late /\ late' = TRUE
      BY <1>10, <2>4 DEF Tick, hwVars, Control
    <3>2. Elapsed <= StartedBy(seq) /\ StartedBy(seq) \in Nat
      BY <2>4, <3>1, LastTick, SMTT(20) DEF Deadlines
    <3> QED BY <2>1, <2>3, <3>1, <3>2, SMTT(20)
  <2>5. Elapsed' + ow_wait' = Elapsed + ow_wait
    BY <2>1, <2>3, SMTT(20)
  <2>6. ow_wait' \in Nat /\ tt_wait' \in 0 .. Ticks(TempMs)
        /\ (ow_wait <= Poll => ow_wait' <= Poll)
    BY <1>0, <2>1, <2>3, SMTT(20)
  <2> QED
    BY <2>2, <2>3, <2>4, <2>5, <2>6 DEF Deadlines
<1>11. CASE UNCHANGED vars
  BY <1>11 DEF vars, hwVars, drvVars, opVars, taskVars, Control, Deadlines, Elapsed
<1> QED
  BY <1>1, <1>2, <1>3, <1>4, <1>5, <1>6, <1>7, <1>8, <1>9, <1>10, <1>11,
     InterruptCases DEF Next, Tasks

(* Control and Deadlines hold in every state.                              *)
LEMMA InTime == Spec => [](Control /\ Deadlines)
<1>1. Init => Control /\ Deadlines
  <2> SUFFICES ASSUME Init PROVE Control /\ Deadlines
    OBVIOUS
  <2>1. Ticks(TempMs) \in Nat /\ Poll \in Nat
    BY TicksType, ConstantsAssumption, DeadlineOrder
  <2>2. Control
    BY DEF Init, Control
  <2> QED BY <2>1, <2>2, SMTT(20) DEF Init, Deadlines
<1> QED
  BY <1>1, DeadlinesStep, PTL DEF Spec

(* No request of tempTask ever meets a sequence under way, whatever the    *)
(* sensor does and however long a tick is: the delays are enough.          *)
THEOREM RequestsNeverOverlap == Spec => []RequestFindsIdle
  BY InTime, IdleInTime, PTL

(* The interrupts always perform the operation at seq_pos of a sequence    *)
(* under way and never run past its end.                                   *)
THEOREM InterruptsInSequence == Spec => []InSequence
<1>1. Control => InSequence
  BY SMTT(20) DEF Control, InSequence
<1> QED
  BY <1>1, InTime, PTL

(* OW_init_seq_task only ever starts one of the three sequences.           *)
THEOREM OnlySequencesStarted == Spec => []StartsSequence
<1>1. Control => StartsSequence
  BY DEF Control, StartsSequence
<1> QED
  BY <1>1, InTime, PTL

-----------------------------------------------------------------------------
(* Bits, commands and the sensor.                                          *)

(* What the position in a sequence says of the operation and its argument. *)
LEMMA SequenceAt ==
  ASSUME NEW s \in Seqs, NEW i \in 1 .. Len(ds_seqs[s])
  PROVE  /\ i \in 1 .. 5
         /\ ds_seqs[s][i] = "RESET" <=> i = 1
         /\ ds_seqs[s][i] = "WRITE" <=> i \in {2, 3}
         /\ ds_seqs[s][i] = "READ" <=> i = 4 /\ s # "CONV_T"
         /\ ds_seqs[s][i] = "END" <=> i = 5 \/ (i = 4 /\ s = "CONV_T")
         /\ ds_seqs[s][i] \in {"RESET", "WRITE", "READ", "END"}
<1>1. CASE s = "CONV_T"
  BY <1>1, SMTT(20) DEF ds_seqs
<1>2. CASE s = "UUID_T"
  BY <1>2, SMTT(20) DEF ds_seqs
<1>3. CASE s = "READ_T"
  BY <1>3, SMTT(20) DEF ds_seqs
<1> QED
  BY <1>1, <1>2, <1>3 DEF Seqs

(* The commands of maxim28.h, and how much there is to read.               *)
LEMMA ArgumentAt ==
  /\ ds_seq_args["UUID_T"][2] = 51 /\ ds_seq_args["UUID_T"][3] = 190
  /\ ds_seq_args["UUID_T"][4] = 9
  /\ ds_seq_args["CONV_T"][2] = 204 /\ ds_seq_args["CONV_T"][3] = 68
  /\ ds_seq_args["READ_T"][2] = 204 /\ ds_seq_args["READ_T"][3] = 190
  /\ ds_seq_args["READ_T"][4] = 9
BY DEF ds_seq_args, DS_READROM, DS_READ_SPAD, DS_SKIPROM, DS_CONVERT_T

(* Bit n of a byte, and the bits below it, make the bits up to it.         *)
LEMMA BitByBit ==
  ASSUME NEW x \in Byte, NEW n \in 0 .. 7
  PROVE  /\ (x % 2^n) + Bit(x, n) * 2^n = x % 2^(n + 1)
         /\ Bit(x, n) \in {0, 1}
         /\ 2^n \in 1 .. 128 /\ 2^(n + 1) = 2 * 2^n
<1>0. x \in 0 .. 255
  BY DEF Byte
<1>1. CASE n = 0
  <2>1. 2^n = 1 /\ 2^(n + 1) = 2
    BY <1>1, SMTT(20)
  <2> QED BY <1>0, <2>1, SMTT(20) DEF Bit
<1>2. CASE n = 1
  <2>1. 2^n = 2 /\ 2^(n + 1) = 4
    BY <1>2, SMTT(20)
  <2> QED BY <1>0, <2>1, SMTT(20) DEF Bit
<1>3. CASE n = 2
  <2>1. 2^n = 4 /\ 2^(n + 1) = 8
    BY <1>3, SMTT(20)
  <2> QED BY <1>0, <2>1, SMTT(20) DEF Bit
<1>4. CASE n = 3
  <2>1. 2^n = 8 /\ 2^(n + 1) = 16
    BY <1>4, SMTT(20)
  <2> QED BY <1>0, <2>1, SMTT(20) DEF Bit
<1>5. CASE n = 4
  <2>1. 2^n = 16 /\ 2^(n + 1) = 32
    BY <1>5, SMTT(20)
  <2> QED BY <1>0, <2>1, SMTT(20) DEF Bit
<1>6. CASE n = 5
  <2>1. 2^n = 32 /\ 2^(n + 1) = 64
    BY <1>6, SMTT(20)
  <2> QED BY <1>0, <2>1, SMTT(20) DEF Bit
<1>7. CASE n = 6
  <2>1. 2^n = 64 /\ 2^(n + 1) = 128
    BY <1>7, SMTT(20)
  <2> QED BY <1>0, <2>1, SMTT(20) DEF Bit
<1>8. CASE n = 7
  <2>1. 2^n = 128 /\ 2^(n + 1) = 256
    BY <1>8, SMTT(20)
  <2> QED BY <1>0, <2>1, SMTT(20) DEF Bit
<1>9. \/ n = 0 \/ n = 1 \/ n = 2 \/ n = 3 \/ n = 4 \/ n = 5 \/ n = 6 \/ n = 7
  BY SMTT(20)
<1> QED
  BY <1>1, <1>2, <1>3, <1>4, <1>5, <1>6, <1>7, <1>8, <1>9

(* None of the bits, and all of them.                                      *)
LEMMA NoBitAllBits ==
  ASSUME NEW x \in Byte
  PROVE  x % 2^0 = 0 /\ x % 2^8 = x /\ 2^0 = 1 /\ 2^8 = 256 /\ 255 \in Byte /\ 0 \in Byte
<1>1. 2^0 = 1 /\ 2^8 = 256 /\ x \in 0 .. 255
  BY SMTT(20) DEF Byte
<1> QED
  BY <1>1, SMTT(20) DEF Byte

(* Some bits of a byte are a byte.                                         *)
LEMMA SomeBits ==
  ASSUME NEW x \in Byte, NEW n \in 0 .. 7
  PROVE  x % 2^(n + 1) \in Byte
<1>0. x \in 0 .. 255
  BY DEF Byte
<1>1. 2^n \in 1 .. 128 /\ 2^(n + 1) = 2 * 2^n
  BY BitByBit
<1> DEFINE p == 2^(n + 1)
<1>2. p \in 1 .. 256
  BY <1>1, SMTT(20)
<1> HIDE DEF p
<1>3. x % p \in 0 .. 255
  BY <1>0, <1>2, SMTT(20)
<1> QED
  BY <1>3 DEF p, Byte

Modes == {"off", "deaf", "romcmd", "funccmd", "idle", "rom", "spad"}
Device == [mode : Modes, n : 0 .. 80, byte : Byte, out : {0, 1}]

(* The types, in groups.                                                   *)
DriverTypes ==
  /\ seq \in Seqs \cup {None} /\ seq_pos \in 1 .. 5
  /\ op_type \in {"NONE", "RESET", "WRITE", "READ", "END"}
  /\ cur_op \in {"NONE", "WAIT_480_LOW", "WAIT_60_RESP", "WAIT_480", "DONE",
                 "SAMPLE", "WAIT_50", "LINE_LOW", "WRITE_FIRST", "WAIT_FIRST",
                 "FINALLY"}
  /\ delay_count \in 0 .. 48
  /\ ow_task_arg \in Seqs \cup {"INVALID", "NEXT_READ_T"}
  /\ hw_timer_state \in {"READY", "ACTIVE"}
  /\ starting \in Seqs \cup {None} /\ stagger \in BOOLEAN

DataTypes ==
  /\ bitMask \in 0 .. 8 /\ data \in Byte
  /\ readsLeft \in 0 .. 9 /\ readCount \in 0 .. 9
  /\ spad_buf \in [1 .. 9 -> Byte] /\ UUID \in [1 .. 8 -> Byte]
  /\ have_uuid \in BOOLEAN

SensorTypes ==
  /\ dev \in Device /\ conv \in 0 .. ConvTicks /\ spad \in [1 .. 9 -> Byte]
  /\ converted \in BOOLEAN /\ faults \in 0 .. MaxFaults

Types == DriverTypes /\ DataTypes /\ SensorTypes

(* The sensor listens.                                                     *)
Awake == dev.mode \notin {"off", "deaf"}

(* Releasing the line, by how long it was low.                             *)
LEMMA ReleasedAfter ==
  ASSUME NEW t, Released(t)
  PROVE  /\ UNCHANGED spad
         /\ t \in {0, 1} => Slot(1) /\ UNCHANGED faults
         /\ t = 6 => Slot(0) /\ UNCHANGED faults
         /\ t = 48 => /\ \E m \in {"romcmd", "off", "deaf"} :
                           dev' = [mode |-> m, n |-> 0, byte |-> 0, out |-> 1]
                      /\ dev'.mode = "romcmd" \/ May("absent") \/ May("deaf")
                      /\ dev'.mode = "deaf" => "deaf" \in Faults
                      /\ faults' = faults \/ (faults < MaxFaults /\ faults' = faults + 1)
                      /\ UNCHANGED <<conv, converted>>
<1>1. UNCHANGED spad
  BY DEF Released
<1>2. ASSUME t \in {0, 1} PROVE Slot(1) /\ UNCHANGED faults
  BY <1>2, SMTT(20) DEF Released, SlotBit
<1>3. ASSUME t = 6 PROVE Slot(0) /\ UNCHANGED faults
  BY <1>3, SMTT(20) DEF Released, SlotBit
<1>4. ASSUME t = 48
      PROVE  /\ \E m \in {"romcmd", "off", "deaf"} :
                  dev' = [mode |-> m, n |-> 0, byte |-> 0, out |-> 1]
             /\ dev'.mode = "romcmd" \/ May("absent") \/ May("deaf")
             /\ dev'.mode = "deaf" => "deaf" \in Faults
             /\ faults' = faults \/ (faults < MaxFaults /\ faults' = faults + 1)
             /\ UNCHANGED <<conv, converted>>
  BY <1>4, SMTT(20) DEF Released, May
<1> QED
  BY <1>1, <1>2, <1>3, <1>4

(* The sensor takes bit n of a command.                                    *)
LEMMA HearsBit ==
  ASSUME dev \in Device, dev.mode \in {"romcmd", "funccmd"}, NEW c \in Byte,
         dev.n \in 0 .. 7, dev.byte = c % 2^dev.n, Slot(Bit(c, dev.n))
  PROVE  /\ dev.n < 7 => /\ dev'.mode = dev.mode /\ dev'.n = dev.n + 1
                         /\ dev'.byte = c % 2^(dev.n + 1) /\ dev'.out = dev.out
                         /\ dev' = [dev EXCEPT !.n = @ + 1, !.byte = c % 2^(dev.n + 1)]
                         /\ UNCHANGED <<conv, converted>>
         /\ dev.n = 7 =>
              /\ dev' = [mode |-> AfterCommand(c), n |-> 0, byte |-> 0, out |-> 1]
              /\ IF dev.mode = "funccmd" /\ c = 68
                 THEN conv' = ConvTicks /\ converted' = TRUE
                 ELSE UNCHANGED <<conv, converted>>
<1> DEFINE b == Bit(c, dev.n)
           byte == dev.byte + b * 2^dev.n
<1>1. byte = c % 2^(dev.n + 1)
  BY BitByBit
<1>2. dev.n = 7 => byte = c
  <2>1. ASSUME dev.n = 7 PROVE 2^(dev.n + 1) = 256
    BY <2>1, SMTT(20)
  <2>2. c \in 0 .. 255
    BY DEF Byte
  <2> QED
    BY <1>1, <2>1, <2>2, SMTT(20)
<1>3. /\ dev' = IF dev.n < 7 THEN [dev EXCEPT !.n = @ + 1, !.byte = byte]
                ELSE [mode |-> AfterCommand(byte), n |-> 0, byte |-> 0, out |-> 1]
      /\ IF dev.n = 7 /\ dev.mode = "funccmd" /\ byte = DS_CONVERT_T
         THEN conv' = ConvTicks /\ converted' = TRUE
         ELSE UNCHANGED <<conv, converted>>
  BY DEF Slot
<1> HIDE DEF byte, b
<1>4. ASSUME dev.n < 7
      PROVE  /\ dev'.mode = dev.mode /\ dev'.n = dev.n + 1
             /\ dev'.byte = c % 2^(dev.n + 1) /\ dev'.out = dev.out
             /\ dev' = [dev EXCEPT !.n = @ + 1, !.byte = c % 2^(dev.n + 1)]
             /\ UNCHANGED <<conv, converted>>
  <2>1. dev' = [dev EXCEPT !.n = @ + 1, !.byte = byte] /\ UNCHANGED <<conv, converted>>
    BY <1>3, <1>4, SMTT(20)
  <2> QED
    BY <1>1, <2>1 DEF Device
<1>5. ASSUME dev.n = 7
      PROVE  /\ dev' = [mode |-> AfterCommand(c), n |-> 0, byte |-> 0, out |-> 1]
             /\ IF dev.mode = "funccmd" /\ c = 68
                THEN conv' = ConvTicks /\ converted' = TRUE
                ELSE UNCHANGED <<conv, converted>>
  BY <1>2, <1>3, <1>5, SMTT(20) DEF DS_CONVERT_T
<1> QED
  BY <1>4, <1>5

(* A sensor that sends sends the next bit; one that is idle or does not    *)
(* listen does nothing.                                                    *)
LEMMA SendsBit ==
  ASSUME dev \in Device, dev.mode \notin {"romcmd", "funccmd"}, NEW b, Slot(b)
  PROVE  /\ UNCHANGED <<conv, converted>>
         /\ dev.mode \in {"rom", "spad"} =>
              /\ dev'.mode = dev.mode /\ dev'.n = dev.n + 1
              /\ dev'.byte = dev.byte /\ dev'.out = OutBit
              /\ dev' = [dev EXCEPT !.n = @ + 1, !.out = OutBit]
         /\ dev.mode \notin {"rom", "spad"} => dev' = dev
<1>1. /\ dev' = IF dev.mode \in {"rom", "spad"}
                THEN [dev EXCEPT !.n = @ + 1, !.out = OutBit] ELSE dev
      /\ UNCHANGED <<conv, converted>>
  BY DEF Slot
<1> QED
  BY <1>1 DEF Device

(* Bytes of the sensor have their length.                                  *)
LEMMA BytesType ==
  /\ Len(Rom) = 8 /\ \A k \in 1 .. 8 : Rom[k] \in Byte
  /\ \A s \in [1 .. 9 -> Byte] : Len(s) = 9
<1>1. Rom \in [1 .. 8 -> Byte]
  BY ConstantsAssumption
<1> QED
  BY <1>1, SMTT(20)

(* The byte and the bit a bit is in.                                       *)
LEMMA Eighths ==
  ASSUME NEW n \in 0 .. 80
  PROVE  /\ n % 8 \in 0 .. 7 /\ n \div 8 \in 0 .. 10
         /\ \A m \in {8, 9} : n < 8 * m => n \div 8 + 1 \in 1 .. m
BY SMTT(20)

(* A bit is a bit.                                                         *)
LEMMA OutBitType ==
  ASSUME SensorTypes, dev.mode \in {"rom", "spad"}
  PROVE  OutBit \in {0, 1}
<1> DEFINE bytes == IF dev.mode = "rom" THEN Rom ELSE spad
<1>1. dev.n \in 0 .. 80
  BY DEF SensorTypes, Device
<1>2. OutBit = IF dev.n < 8 * Len(bytes) THEN Bit(bytes[dev.n \div 8 + 1], dev.n % 8) ELSE 1
  BY DEF OutBit
<1>3. /\ dev.n % 8 \in 0 .. 7
      /\ \A m \in {8, 9} : dev.n < 8 * m => dev.n \div 8 + 1 \in 1 .. m
  BY <1>1, Eighths
<1>4. Len(bytes) \in {8, 9} /\ \A k \in 1 .. Len(bytes) : bytes[k] \in Byte
  BY BytesType DEF SensorTypes
<1> HIDE DEF bytes
<1>5. ASSUME dev.n < 8 * Len(bytes) PROVE dev.n \div 8 + 1 \in 1 .. Len(bytes)
  BY <1>3, <1>4, <1>5
<1>6. ASSUME dev.n < 8 * Len(bytes)
      PROVE  Bit(bytes[dev.n \div 8 + 1], dev.n % 8) \in {0, 1}
  BY <1>3, <1>4, <1>5, <1>6, BitByBit
<1> QED
  BY <1>2, <1>6

-----------------------------------------------------------------------------
(* The inductive invariant of the bus.                                     *)

(* An operation has begun.                                                 *)
Busy == timer /\ seq_state = "STARTED"

(* For how many interrupts the driver has held the line low.               *)
Line ==
  low = IF Busy /\ op_type = "RESET" /\ cur_op = "WAIT_480_LOW" THEN 49 - delay_count
        ELSE IF Busy /\ op_type = "WRITE" /\ cur_op = "WRITE_FIRST" /\ delay_count = 6 THEN 1
        ELSE IF Busy /\ op_type = "WRITE" /\ cur_op = "WAIT_FIRST" THEN 7 - delay_count
        ELSE 0

ResetOp ==
  \/ cur_op = "WAIT_480_LOW" /\ delay_count \in 1 .. 48
  \/ cur_op = "WAIT_60_RESP" /\ delay_count \in 1 .. 6
  \/ cur_op = "WAIT_480" /\ delay_count \in 1 .. 47
  \/ cur_op = "DONE"

(* The bit that is written is bit bitMask of the command.                  *)
WriteOp ==
  /\ data = Arg /\ bitMask \in 0 .. 7
  /\ \/ cur_op = "LINE_LOW" /\ bitMask = 0
     \/ cur_op = "WRITE_FIRST" /\ delay_count \in 1 .. 6 /\ Bit(data, bitMask) = 1
     \/ cur_op = "WAIT_FIRST" /\ delay_count \in 1 .. 6 /\ Bit(data, bitMask) = 0
     \/ cur_op = "FINALLY"

(* data holds the bits below bitMask.                                      *)
ReadOp ==
  /\ readCount \in 0 .. 8 /\ readsLeft = 9 - readCount
  /\ data \in 0 .. 2^bitMask - 1
  /\ \/ cur_op = "SAMPLE" /\ bitMask \in 0 .. 7
     \/ cur_op = "WAIT_50" /\ delay_count \in 1 .. 4 /\ bitMask \in 1 .. 8

Operation ==
  Busy => \/ op_type = "RESET" /\ ResetOp
          \/ op_type = "WRITE" /\ WriteOp
          \/ op_type = "READ" /\ ReadOp

(* The slots of this operation that have passed on the line.               *)
Sent ==
  IF ~Busy \/ cur_op = "LINE_LOW" THEN 0
  ELSE IF cur_op = "FINALLY" \/ (cur_op = "WRITE_FIRST" /\ delay_count < 6) THEN bitMask + 1
  ELSE bitMask

Slots == IF ~Busy THEN 0 ELSE 8 * readCount + bitMask + (IF cur_op = "SAMPLE" THEN 1 ELSE 0)

(* The sensor has heard as much of the command as has been sent, and is    *)
(* about to do what is next when it has heard it all.                      *)
Hears(mode, next) ==
  IF Sent < 8 THEN dev.mode = mode /\ dev.n = Sent /\ dev.byte = Arg % 2^Sent
  ELSE dev.mode = next /\ dev.n = 0 /\ dev.byte = 0

Converts == converted /\ conv >= ConvTicks - (IF late THEN 1 ELSE 0)

(* The sensor's side of the conversation, at each position of a sequence.  *)
AtReset ==
  Busy /\ cur_op # "WAIT_480_LOW" => dev.mode = "romcmd" /\ dev.n = 0 /\ dev.byte = 0

AtRomCommand == Hears("romcmd", IF seq = "UUID_T" THEN "rom" ELSE "funccmd")

AtCommand ==
  /\ seq = "UUID_T" => dev.mode = "rom" /\ dev.n = Sent
  /\ seq = "CONV_T" => Hears("funccmd", "idle") /\ (Sent >= 8 => Converts)
  /\ seq = "READ_T" => Hears("funccmd", "spad")

AtRead ==
  /\ seq = "CONV_T" => Converts
  /\ seq = "UUID_T" => dev.mode = "rom" /\ dev.n = 8 + Slots
  /\ seq = "READ_T" => dev.mode = "spad" /\ dev.n = Slots

InStep ==
  timer /\ Awake =>
    /\ seq_pos = 1 => AtReset
    /\ seq_pos = 2 => AtRomCommand
    /\ seq_pos = 3 => AtCommand
    /\ seq_pos = 4 => AtRead

Bus == Types /\ Line /\ Operation /\ InStep

Steps == {"WAIT_480_LOW", "WAIT_60_RESP", "WAIT_480", "DONE", "SAMPLE", "WAIT_50",
          "LINE_LOW", "WRITE_FIRST", "WAIT_FIRST", "FINALLY"}

(* Where an interrupt finds the driver.                                    *)
LEMMA FoundAt ==
  ASSUME Control, DriverTypes, NEW t, NEW op, At(t, op)
  PROVE  /\ timer /\ op_type = t /\ seq \in Seqs /\ seq_pos \in 1 .. 5
         /\ op = "INIT" => seq_state = "TRANSITION" /\ ~Busy
         /\ op # "INIT" => seq_state = "STARTED" /\ Busy /\ cur_op = op
         /\ t = "RESET" => seq_pos = 1
         /\ t = "WRITE" => seq_pos \in {2, 3}
         /\ t = "READ" => seq_pos = 4 /\ seq # "CONV_T"
<1>1. timer /\ op_type = t /\ op = IF seq_state = "TRANSITION" THEN "INIT" ELSE cur_op
  BY DEF At
<1>2. /\ seq \in Seqs /\ seq_pos \in 1 .. Len(ds_seqs[seq]) /\ t = ds_seqs[seq][seq_pos]
      /\ seq_state \in {"STARTED", "TRANSITION"}
  BY <1>1 DEF Control
<1>3. cur_op # "INIT"
  BY DEF DriverTypes
<1>4. /\ op = "INIT" => seq_state = "TRANSITION" /\ ~Busy
      /\ op # "INIT" => seq_state = "STARTED" /\ Busy /\ cur_op = op
  BY <1>1, <1>2, <1>3 DEF Busy
<1> QED
  BY <1>1, <1>2, <1>4, SequenceAt

(* What an interrupt does that goes on with an operation.                  *)
LEMMA ContinueIs ==
  ASSUME DriverTypes, timer, NEW op \in Steps, NEW count \in 0 .. 48, Continue(op, count)
  PROVE  /\ DriverTypes' /\ Busy' /\ cur_op' = op /\ delay_count' = count
         /\ UNCHANGED <<seq, seq_pos, op_type, timer, late, UUID, have_uuid>>
<1>1. /\ cur_op' = op /\ delay_count' = count /\ seq_state' = "STARTED"
      /\ UNCHANGED <<seq, seq_pos, op_type, ow_task_arg, timer, hw_timer_state, late, starting,
                     stagger, UUID, have_uuid>>
  BY DEF Continue, drvVars, outVars, hwVars, taskVars
<1> QED
  BY <1>1, SMTT(20) DEF DriverTypes, Busy, Steps

(* What one does that ends an operation.                                   *)
LEMMA OpDoneIs ==
  ASSUME Control, DriverTypes, timer, op_type # "END", OpDone
  PROVE  /\ DriverTypes' /\ timer' /\ ~Busy' /\ seq_pos' = seq_pos + 1 /\ seq' = seq
         /\ seq \in Seqs /\ UNCHANGED <<timer, late, UUID, have_uuid>>
<1>1. /\ cur_op' = "NONE" /\ delay_count' = 0 /\ seq_state' = "TRANSITION"
      /\ seq_pos' = seq_pos + 1 /\ op_type' = ds_seqs[seq][seq_pos + 1]
      /\ UNCHANGED <<seq, ow_task_arg, timer, hw_timer_state, late, starting, stagger, UUID,
                     have_uuid>>
  BY DEF OpDone, outVars, hwVars, taskVars
<1>2. /\ seq \in Seqs /\ seq_pos \in 1 .. Len(ds_seqs[seq])
      /\ ds_seqs[seq][seq_pos] # "END"
  BY DEF Control
<1>3. seq_pos + 1 \in 1 .. Len(ds_seqs[seq])
  BY <1>2, NextPosition
<1>4. seq_pos + 1 \in 1 .. 5 /\ ds_seqs[seq][seq_pos + 1] \in {"RESET", "WRITE", "READ", "END"}
  BY <1>2, <1>3, SequenceAt
<1>5. DriverTypes'
  BY <1>1, <1>4, SMTT(20) DEF DriverTypes
<1> QED
  BY <1>1, <1>2, <1>5 DEF Busy

(* The data of an operation that is left alone.                            *)
LEMMA DataKept ==
  ASSUME DataTypes, UNCHANGED <<bitVars, readVars, UUID, have_uuid>>
  PROVE  DataTypes'
BY DEF DataTypes, bitVars, readVars

(* So is the sensor.                                                       *)
LEMMA SensorKept ==
  ASSUME SensorTypes, UNCHANGED <<senVars, faults>>
  PROVE  SensorTypes' /\ UNCHANGED <<dev, conv, spad, converted>>
BY DEF SensorTypes, senVars

-----------------------------------------------------------------------------
(* Resets.                                                                 *)

(* A step of a reset: nothing but the line and the sensor's answer to it.  *)
LEMMA ResetGoesOn ==
  ASSUME Control, Bus, NEW op, At("RESET", op), UNCHANGED <<bitVars, readVars>>,
         NEW next \in Steps, NEW count \in 0 .. 48, Continue(next, count),
         \/ next = "WAIT_480_LOW" /\ count \in 1 .. 48 /\ low' = 49 - count
         \/ next = "WAIT_60_RESP" /\ count \in 1 .. 6 /\ low' = 0
         \/ next = "WAIT_480" /\ count \in 1 .. 47 /\ low' = 0
         \/ next = "DONE" /\ low' = 0,
         SensorTypes',
         next # "WAIT_480_LOW" /\ dev'.mode \notin {"off", "deaf"} =>
           dev'.mode = "romcmd" /\ dev'.n = 0 /\ dev'.byte = 0
  PROVE  Bus'
<1> USE DEF Bus, Types
<1>1. timer /\ op_type = "RESET" /\ seq_pos = 1
  BY FoundAt
<1>2. /\ DriverTypes' /\ Busy' /\ cur_op' = next /\ delay_count' = count
      /\ UNCHANGED <<seq, seq_pos, op_type, timer, late, UUID, have_uuid>>
  BY <1>1, ContinueIs
<1>3. DataTypes'
  BY <1>2, DataKept
<1>4. Line'
  BY <1>1, <1>2 DEF Line
<1>5. Operation'
  BY <1>1, <1>2 DEF Operation, ResetOp
<1>6. InStep'
  BY <1>1, <1>2, SMTT(20) DEF InStep, AtReset, Awake
<1> QED
  BY <1>2, <1>3, <1>4, <1>5, <1>6

(* A reset takes 480 us, and a sensor that listens then waits for a        *)
(* command.                                                                *)
LEMMA ResetBus ==
  ASSUME Control, Bus, OW_doit_reset
  PROVE  Bus'
<1> USE DEF Bus, Types
<1>1. CASE reset_init
  <2>1. /\ At("RESET", "INIT") /\ Continue("WAIT_480_LOW", 48) /\ low' = 1
        /\ UNCHANGED <<senVars, faults, bitVars, readVars>>
    BY <1>1 DEF reset_init, Pull
  <2> QED
    BY <2>1, SensorKept, ResetGoesOn, SMTT(20) DEF Steps
<1>2. CASE reset_low /\ delay_count > 1
  <2>1. /\ At("RESET", "WAIT_480_LOW") /\ Continue("WAIT_480_LOW", delay_count - 1) /\ Hold
        /\ UNCHANGED <<bitVars, readVars>>
    BY <1>2 DEF reset_low
  <2>2. Busy /\ op_type = "RESET" /\ cur_op = "WAIT_480_LOW"
    BY <2>1, FoundAt, SMTT(20)
  <2>3. delay_count \in 2 .. 48 /\ low = 49 - delay_count
    BY <1>2, <2>2, SMTT(20) DEF Operation, ResetOp, Line
  <2>4. low' = 49 - (delay_count - 1) /\ UNCHANGED <<senVars, faults>>
    BY <2>1, <2>3, SMTT(20) DEF Hold
  <2>5. SensorTypes' /\ delay_count - 1 \in 1 .. 48 /\ delay_count - 1 \in 0 .. 48
    BY <2>3, <2>4, SensorKept, SMTT(20)
  <2> QED
    BY <2>1, <2>4, <2>5, ResetGoesOn DEF Steps
<1>3. CASE reset_low /\ ~(delay_count > 1)
  <2>1. /\ At("RESET", "WAIT_480_LOW") /\ Continue("WAIT_60_RESP", 6) /\ Release
        /\ UNCHANGED <<bitVars, readVars>>
    BY <1>3 DEF reset_low
  <2>2. Busy /\ op_type = "RESET" /\ cur_op = "WAIT_480_LOW"
    BY <2>1, FoundAt, SMTT(20)
  <2>3. low = 48
    BY <1>3, <2>2, SMTT(20) DEF Operation, ResetOp, Line
  <2>4. /\ low' = 0 /\ UNCHANGED <<spad, conv, converted>>
        /\ \E m \in {"romcmd", "off", "deaf"} :
             dev' = [mode |-> m, n |-> 0, byte |-> 0, out |-> 1]
        /\ faults' = faults \/ (faults < MaxFaults /\ faults' = faults + 1)
    BY <2>1, <2>3, ReleasedAfter DEF Release
  <2>5. faults' \in 0 .. MaxFaults
    BY <2>4, ConstantsAssumption, SMTT(20) DEF SensorTypes
  <2>6. dev' \in Device
    BY <2>4, SMTT(20) DEF Device, Modes, Byte
  <2>7. SensorTypes'
    BY <2>4, <2>5, <2>6 DEF SensorTypes
  <2> QED
    BY <2>1, <2>4, <2>7, ResetGoesOn, SMTT(20) DEF Steps
<1>4. CASE reset_resp \/ reset_no_resp \/ reset_wait
  <2>1. PICK op \in {"WAIT_60_RESP", "WAIT_480"} :
          At("RESET", op) /\ Hold /\ UNCHANGED <<bitVars, readVars>>
    BY <1>4 DEF reset_resp, reset_no_resp, reset_wait
  <2>2. Busy /\ op_type = "RESET" /\ cur_op = op /\ timer /\ seq_pos = 1
    BY <2>1, FoundAt
  <2>3. /\ delay_count \in 1 .. 47 /\ low = 0 /\ (op = "WAIT_60_RESP" => delay_count \in 1 .. 6)
        /\ (dev.mode \notin {"off", "deaf"} => dev.mode = "romcmd" /\ dev.n = 0 /\ dev.byte = 0)
    BY <2>2, SMTT(20) DEF Operation, ResetOp, Line, InStep, AtReset, Awake
  <2>4. low' = 0 /\ SensorTypes' /\ UNCHANGED dev
    BY <2>1, <2>3, SensorKept DEF Hold
  <2>5. \/ Continue("WAIT_480", 47)
        \/ op = "WAIT_60_RESP" /\ delay_count > 1 /\ Continue("WAIT_60_RESP", delay_count - 1)
        \/ delay_count > 1 /\ Continue("WAIT_480", delay_count - 1)
        \/ Continue("DONE", 0)
    BY <1>4, <2>2 DEF reset_resp, reset_no_resp, reset_wait, At
  <2>6. delay_count > 1 => /\ delay_count - 1 \in 1 .. 47 /\ delay_count - 1 \in 0 .. 48
                           /\ op = "WAIT_60_RESP" => delay_count - 1 \in 1 .. 6
    BY <2>3, SMTT(20)
  <2>7. CASE Continue("WAIT_480", 47)
    BY <2>1, <2>3, <2>4, <2>7, ResetGoesOn, SMTT(20) DEF Steps
  <2>8. CASE op = "WAIT_60_RESP" /\ delay_count > 1 /\ Continue("WAIT_60_RESP", delay_count - 1)
    <3>1. delay_count - 1 \in 1 .. 6 /\ delay_count - 1 \in 0 .. 48
      BY <2>6, <2>8
    <3> QED
      BY <2>1, <2>3, <2>4, <2>8, <3>1, ResetGoesOn DEF Steps
  <2>9. CASE delay_count > 1 /\ Continue("WAIT_480", delay_count - 1)
    BY <2>1, <2>3, <2>4, <2>6, <2>9, ResetGoesOn DEF Steps
  <2>10. CASE Continue("DONE", 0)
    BY <2>1, <2>3, <2>4, <2>10, ResetGoesOn, SMTT(20) DEF Steps
  <2> QED
    BY <2>5, <2>7, <2>8, <2>9, <2>10
<1>5. CASE reset_timeout
  <2>1. /\ At("RESET", "WAIT_60_RESP") /\ Hold /\ timer' = FALSE /\ delay_count' = 0
        /\ UNCHANGED <<hw_timer_state, drvVars, cur_op, outVars, taskVars, bitVars, readVars>>
    BY <1>5 DEF reset_timeout, hw_timer_stop
  <2>2. Busy /\ op_type = "RESET" /\ cur_op = "WAIT_60_RESP"
    BY <2>1, FoundAt, SMTT(20)
  <2>3. low = 0 /\ low' = 0 /\ UNCHANGED <<senVars, faults>>
    BY <2>1, <2>2 DEF Line, Hold
  <2>4. DriverTypes'
    BY <2>1, SMTT(20) DEF DriverTypes, drvVars, taskVars
  <2>5. DataTypes' /\ SensorTypes'
    BY <2>1, <2>3, DataKept, SensorKept DEF outVars
  <2> QED
    BY <2>1, <2>3, <2>4, <2>5 DEF Line, Operation, InStep, Busy
<1>6. CASE reset_done
  <2>1. At("RESET", "DONE") /\ OpDone /\ Hold /\ UNCHANGED <<bitVars, readVars>>
    BY <1>6 DEF reset_done
  <2>2. Busy /\ op_type = "RESET" /\ cur_op = "DONE" /\ timer /\ seq_pos = 1
    BY <2>1, FoundAt, SMTT(20)
  <2>3. low = 0 /\ low' = 0 /\ UNCHANGED <<senVars, faults>>
    BY <2>1, <2>2 DEF Line, Hold
  <2>4. /\ DriverTypes' /\ ~Busy' /\ seq_pos' = 2 /\ seq' = seq /\ seq \in Seqs
        /\ UNCHANGED <<UUID, have_uuid>>
    BY <2>1, <2>2, OpDoneIs, SMTT(20)
  <2>5. DataTypes' /\ SensorTypes' /\ UNCHANGED dev
    BY <2>1, <2>3, <2>4, DataKept, SensorKept
  <2>6. ds_seq_args[seq][2] \in Byte
    BY <2>4, ArgumentAt, SMTT(20) DEF Byte, Seqs
  <2>7. Sent' = 0 /\ Arg' = ds_seq_args[seq][2] /\ Arg' % 2^0 = 0
    BY <2>4, <2>6, NoBitAllBits DEF Sent, Arg
  <2>8. Awake' => dev'.mode = "romcmd" /\ dev'.n = 0 /\ dev'.byte = 0
    BY <2>2, <2>5 DEF InStep, AtReset, Awake
  <2>9. InStep'
    BY <2>4, <2>7, <2>8, SMTT(20) DEF InStep, AtRomCommand, Hears
  <2> QED
    BY <2>3, <2>4, <2>5, <2>9 DEF Line, Operation
<1> QED
  BY <1>1, <1>2, <1>3, <1>4, <1>5, <1>6 DEF OW_doit_reset

-----------------------------------------------------------------------------
(* Writes.                                                                 *)

(* The command that is being written.                                      *)
LEMMA CommandIs ==
  ASSUME seq \in Seqs, seq_pos \in {2, 3}
  PROVE  /\ Arg \in Byte
         /\ seq_pos = 2 /\ seq = "UUID_T" => Arg = 51
         /\ seq_pos = 2 /\ seq # "UUID_T" => Arg = 204
         /\ seq_pos = 3 /\ seq = "CONV_T" => Arg = 68
         /\ seq_pos = 3 /\ seq # "CONV_T" => Arg = 190
BY ArgumentAt, SMTT(20) DEF Arg, Seqs, Byte

(* Between two slots the sensor waits.                                     *)
LEMMA WriteWaits ==
  ASSUME InStep, timer, seq_pos \in {2, 3}, Sent' = Sent,
         UNCHANGED <<timer, seq, seq_pos, dev, conv, converted, late>>
  PROVE  InStep'
<1>1. Arg' = Arg /\ Awake' = Awake /\ Converts' = Converts
  BY DEF Arg, Awake, Converts
<1>2. AtRomCommand' = AtRomCommand /\ AtCommand' = AtCommand
  BY <1>1 DEF AtRomCommand, AtCommand, Hears
<1> QED
  BY <1>1, <1>2, SMTT(20) DEF InStep

(* A slot carries the next bit of the command.                             *)
LEMMA WriteBit ==
  ASSUME InStep, SensorTypes, timer, seq \in Seqs, seq_pos \in {2, 3},
         Sent \in 0 .. 7, Sent' = Sent + 1, Slot(Bit(Arg, Sent)), late \in BOOLEAN,
         UNCHANGED <<timer, seq, seq_pos, late, spad, faults>>
  PROVE  InStep' /\ SensorTypes'
<1> DEFINE c == Arg
<1>1. c \in Byte /\ Arg' = c /\ dev \in Device
  BY CommandIs DEF Arg, SensorTypes
<1>2. CASE ~Awake
  <2>1. dev' = dev /\ UNCHANGED <<conv, converted>>
    BY <1>1, <1>2, SendsBit DEF Awake
  <2> QED
    BY <1>2, <2>1 DEF Awake, InStep, SensorTypes
<1>3. CASE Awake /\ seq_pos = 3 /\ seq = "UUID_T"
  <2>1. dev.mode = "rom" /\ dev.n = Sent
    BY <1>3 DEF InStep, AtCommand
  <2>2. /\ dev'.mode = dev.mode /\ dev'.n = dev.n + 1
        /\ dev' = [dev EXCEPT !.n = @ + 1, !.out = OutBit] /\ UNCHANGED <<conv, converted>>
    BY <1>1, <2>1, SendsBit
  <2>3. dev' \in Device
    <3>1. OutBit \in {0, 1}
      BY <2>1, OutBitType
    <3>2. dev.n + 1 \in 0 .. 80
      BY <2>1, SMTT(20)
    <3> QED
      BY <1>1, <2>2, <3>1, <3>2 DEF Device
  <2>4. SensorTypes'
    BY <2>2, <2>3 DEF SensorTypes
  <2>5. AtCommand'
    BY <1>3, <2>1, <2>2 DEF AtCommand
  <2> QED
    BY <1>3, <2>4, <2>5, SMTT(20) DEF InStep
<1>4. CASE Awake /\ ~(seq_pos = 3 /\ seq = "UUID_T")
  <2> DEFINE mode == IF seq_pos = 2 THEN "romcmd" ELSE "funccmd"
             next == IF seq_pos = 2 THEN IF seq = "UUID_T" THEN "rom" ELSE "funccmd"
                     ELSE IF seq = "CONV_T" THEN "idle" ELSE "spad"
  <2>1. Hears(mode, next)
    BY <1>4 DEF InStep, AtRomCommand, AtCommand, Seqs
  <2>2. /\ dev.mode = mode /\ dev.mode \in {"romcmd", "funccmd"} /\ dev.n = Sent
        /\ dev.byte = c % 2^dev.n
    BY <2>1, SMTT(20) DEF Hears
  <2>3. /\ Sent < 7 => /\ dev'.mode = mode /\ dev'.n = Sent + 1
                       /\ dev'.byte = c % 2^(Sent + 1) /\ dev'.out = dev.out
                       /\ UNCHANGED <<conv, converted>>
        /\ Sent < 7 => dev' = [dev EXCEPT !.n = @ + 1, !.byte = c % 2^(Sent + 1)]
        /\ Sent = 7 => /\ dev' = [mode |-> AfterCommand(c), n |-> 0, byte |-> 0, out |-> 1]
                       /\ IF dev.mode = "funccmd" /\ c = 68
                          THEN conv' = ConvTicks /\ converted' = TRUE
                          ELSE UNCHANGED <<conv, converted>>
    BY <1>1, <2>2, HearsBit
  <2>4. AfterCommand(c) = next
    BY <1>4, <2>2, CommandIs, SMTT(20) DEF AfterCommand, DS_READROM, DS_SKIPROM, DS_READ_SPAD, Seqs
  <2>5. Hears(mode, next)'
    <3>1. CASE Sent < 7
      BY <1>1, <2>3, <3>1, SMTT(20) DEF Hears
    <3>2. CASE Sent = 7
      BY <2>3, <2>4, <3>2, SMTT(20) DEF Hears
    <3> QED
      BY <3>1, <3>2, SMTT(20)
  <2>6. seq = "CONV_T" /\ seq_pos = 3 /\ Sent' >= 8 => Converts'
    <3> SUFFICES ASSUME seq = "CONV_T", seq_pos = 3, Sent' >= 8 PROVE Converts'
      OBVIOUS
    <3>1. Sent = 7 /\ c = 68 /\ dev.mode = "funccmd"
      BY <2>2, CommandIs, SMTT(20)
    <3>2. conv' = ConvTicks /\ converted' /\ ConvTicks \in Nat
      BY <2>3, <3>1, ConstantsAssumption
    <3> QED
      BY <3>2, SMTT(20) DEF Converts
  <2>7. InStep'
    <3>1. CASE seq_pos = 2
      BY <2>5, <3>1, SMTT(20) DEF InStep, AtRomCommand
    <3>2. CASE seq_pos = 3
      BY <1>4, <2>5, <2>6, <3>2, SMTT(20) DEF InStep, AtCommand
    <3> QED
      BY <3>1, <3>2
  <2>8. conv' \in 0 .. ConvTicks /\ converted' \in BOOLEAN
    <3>1. ConvTicks \in 0 .. ConvTicks /\ TRUE \in BOOLEAN
      BY ConstantsAssumption, SMTT(20)
    <3>2. UNCHANGED <<conv, converted>> \/ (conv' = ConvTicks /\ converted' = TRUE)
      BY <2>3, SMTT(20)
    <3> QED
      BY <3>1, <3>2 DEF SensorTypes
  <2>9. dev' \in Device
    <3>1. CASE Sent = 7
      BY <2>3, <2>4, <3>1, SMTT(20) DEF Device, Modes, Byte
    <3>2. CASE Sent < 7
      <4>1. dev' = [dev EXCEPT !.n = @ + 1, !.byte = c % 2^(Sent + 1)]
        BY <2>3, <3>2
      <4>2. c % 2^(Sent + 1) \in Byte
        BY <1>1, SomeBits
      <4>3. dev.n + 1 \in 0 .. 80
        BY <2>2, SMTT(20)
      <4> HIDE DEF c
      <4> QED
        BY <1>1, <4>1, <4>2, <4>3 DEF Device
    <3> QED
      BY <3>1, <3>2, SMTT(20)
  <2> QED
    BY <2>7, <2>8, <2>9 DEF SensorTypes
<1> QED
  BY <1>2, <1>3, <1>4

(* After its eight bits the next operation begins.                         *)
LEMMA WriteEnds ==
  ASSUME InStep, timer, seq \in Seqs, seq_pos \in {2, 3}, Sent = 8, ~Busy', seq_pos' = seq_pos + 1,
         UNCHANGED <<timer, seq, dev, conv, converted, late>>
  PROVE  InStep'
<1>1. Sent' = 0 /\ Slots' = 0 /\ Awake' = Awake
  BY DEF Sent, Slots, Awake
<1>2. CASE Awake /\ seq_pos = 2
  <2>1. seq_pos' = 3 /\ Arg' = ds_seq_args[seq][3]
    BY <1>2, SMTT(20) DEF Arg
  <2>2. Arg' \in Byte /\ Arg' % 2^0 = 0
    BY <2>1, ArgumentAt, NoBitAllBits, SMTT(20) DEF Byte, Seqs
  <2>3. /\ dev.mode = IF seq = "UUID_T" THEN "rom" ELSE "funccmd"
        /\ dev.n = 0 /\ dev.byte = 0
    BY <1>2, SMTT(20) DEF InStep, AtRomCommand, Hears
  <2>4. AtCommand'
    BY <1>1, <2>2, <2>3, SMTT(20) DEF AtCommand, Hears
  <2> QED
    BY <2>1, <2>4, SMTT(20) DEF InStep
<1>3. CASE Awake /\ seq_pos = 3
  <2>1. AtRead'
    BY <1>1, <1>3, SMTT(20) DEF InStep, AtCommand, AtRead, Hears, Converts
  <2> QED
    BY <1>3, <2>1, SMTT(20) DEF InStep
<1> QED
  BY <1>1, <1>2, <1>3 DEF InStep

(* The commands reach the sensor bit by bit.                               *)
LEMMA WriteBus ==
  ASSUME Control, Bus, OW_doit_write
  PROVE  Bus'
<1> USE DEF Bus, Types
<1>0. /\ timer /\ op_type = "WRITE" /\ seq \in Seqs /\ seq_pos \in {2, 3} /\ UNCHANGED readVars
      /\ late \in BOOLEAN
  <2>1. PICK op \in {"INIT", "LINE_LOW", "WRITE_FIRST", "WAIT_FIRST", "FINALLY"} :
          At("WRITE", op) /\ UNCHANGED readVars
    BY DEF OW_doit_write, write_init, write_line_low, write_first, wait_first, write_finally
  <2> QED
    BY <2>1, FoundAt DEF Control
<1>c. Arg \in Byte
  BY <1>0, CommandIs
<1>1. CASE write_init
  <2>1. /\ At("WRITE", "INIT") /\ Continue("LINE_LOW", delay_count) /\ data' = Arg /\ bitMask' = 0
        /\ Hold
    BY <1>1 DEF write_init
  <2>2. ~Busy
    BY <2>1, FoundAt
  <2>3. low = 0 /\ low' = 0 /\ UNCHANGED <<senVars, faults>>
    BY <2>1, <2>2 DEF Line, Hold
  <2>4. /\ DriverTypes' /\ Busy' /\ cur_op' = "LINE_LOW"
        /\ UNCHANGED <<seq, seq_pos, op_type, timer, late, UUID, have_uuid>>
    <3>1. delay_count \in 0 .. 48 /\ "LINE_LOW" \in Steps
      BY DEF DriverTypes, Steps
    <3> QED
      BY <1>0, <2>1, <3>1, ContinueIs
  <2>5. SensorTypes' /\ UNCHANGED <<dev, conv, spad, converted>>
    BY <2>3, SensorKept
  <2>6. Sent = 0 /\ Sent' = 0
    BY <2>2, <2>4 DEF Sent
  <2>7. InStep'
    BY <1>0, <2>4, <2>5, <2>6, WriteWaits
  <2>8. DataTypes'
    BY <1>0, <1>c, <2>1, <2>4, SMTT(20) DEF DataTypes, readVars
  <2>9. Line'
    BY <2>3, <2>4 DEF Line
  <2>10. Operation'
    BY <1>0, <2>1, <2>4, SMTT(20) DEF Operation, WriteOp, Arg
  <2> QED
    BY <2>4, <2>5, <2>7, <2>8, <2>9, <2>10
(* The line goes low for bit m. *)
<1>2. ASSUME Busy, Sent \in 0 .. 7, low = 0, data = Arg, UNCHANGED data, bitMask' = Sent,
             LineLow(bitMask')
      PROVE  Bus'
  <2>1. /\ Continue(IF Bit(data, bitMask') = 1 THEN "WRITE_FIRST" ELSE "WAIT_FIRST", 6)
        /\ low' = 1 /\ UNCHANGED <<senVars, faults>>
    BY <1>2 DEF LineLow, Pull
  <2>2. Bit(data, bitMask') \in {0, 1}
    BY <1>c, <1>2, BitByBit
  <2>3. /\ DriverTypes' /\ Busy' /\ delay_count' = 6
        /\ cur_op' = IF Bit(data, bitMask') = 1 THEN "WRITE_FIRST" ELSE "WAIT_FIRST"
        /\ UNCHANGED <<seq, seq_pos, op_type, timer, late, UUID, have_uuid>>
    <3> DEFINE op == IF Bit(data, bitMask') = 1 THEN "WRITE_FIRST" ELSE "WAIT_FIRST"
    <3>1. op \in Steps /\ 6 \in 0 .. 48 /\ Continue(op, 6)
      BY <2>1, SMTT(20) DEF Steps
    <3> HIDE DEF op
    <3> QED
      BY <1>0, <3>1, ContinueIs DEF op
  <2>4. SensorTypes' /\ UNCHANGED <<dev, conv, spad, converted>>
    BY <2>1, SensorKept
  <2>5. Sent' = Sent
    BY <1>2, <2>3, SMTT(20) DEF Sent
  <2>6. InStep'
    BY <1>0, <2>3, <2>4, <2>5, WriteWaits
  <2>7. DataTypes'
    BY <1>0, <1>2, <2>3, SMTT(20) DEF DataTypes, readVars
  <2>8. Line'
    BY <1>0, <2>1, <2>3, SMTT(20) DEF Line
  <2>9. Arg' = Arg /\ data' = Arg'
    BY <1>2, <2>3 DEF Arg
  <2>10. WriteOp'
    BY <1>2, <2>2, <2>3, <2>9, SMTT(20) DEF WriteOp
  <2> QED
    BY <1>0, <2>3, <2>4, <2>6, <2>7, <2>8, <2>10 DEF Operation
<1>3. CASE write_line_low
  <2>1. At("WRITE", "LINE_LOW") /\ LineLow(bitMask) /\ UNCHANGED bitVars
    BY <1>3 DEF write_line_low
  <2>2. Busy /\ cur_op = "LINE_LOW"
    BY <2>1, FoundAt, SMTT(20)
  <2>3. low = 0 /\ data = Arg /\ bitMask = 0 /\ Sent = 0
    BY <1>0, <2>2 DEF Line, Operation, WriteOp, Sent
  <2> QED
    BY <1>2, <2>1, <2>2, <2>3, SMTT(20) DEF bitVars
(* The line is held, or has been released. *)
<1>4. ASSUME Busy, data = Arg, bitMask \in 0 .. 7, UNCHANGED <<bitVars>>,
             NEW op \in Steps, NEW count \in 0 .. 5, Continue(op, count), SensorTypes', InStep',
             \/ op = "WRITE_FIRST" /\ count > 0 /\ Bit(data, bitMask) = 1 /\ low' = 0
             \/ op = "WAIT_FIRST" /\ count > 0 /\ Bit(data, bitMask) = 0 /\ low' = 7 - count
             \/ op = "FINALLY" /\ low' = 0
      PROVE  Bus'
  <2>1. /\ DriverTypes' /\ Busy' /\ delay_count' = count /\ cur_op' = op
        /\ UNCHANGED <<seq, seq_pos, op_type, timer, late, UUID, have_uuid>>
    <3>1. count \in 0 .. 48
      BY <1>4, SMTT(20)
    <3> QED
      BY <1>0, <1>4, <3>1, ContinueIs
  <2>2. DataTypes'
    BY <1>0, <1>4, <2>1, DataKept
  <2>3. Line'
    BY <1>0, <1>4, <2>1, SMTT(20) DEF Line
  <2>4. Arg' = Arg /\ data' = Arg' /\ bitMask' = bitMask
    BY <1>4, <2>1 DEF Arg, bitVars
  <2>5. WriteOp'
    BY <1>4, <2>1, <2>4, SMTT(20) DEF WriteOp, bitVars
  <2> QED
    BY <1>0, <1>4, <2>1, <2>2, <2>3, <2>5 DEF Operation
<1>5. CASE write_first
  <2>1. /\ At("WRITE", "WRITE_FIRST") /\ UNCHANGED bitVars
        /\ IF delay_count = 6 THEN Release ELSE Hold
        /\ Continue(IF delay_count = 1 THEN "FINALLY" ELSE "WRITE_FIRST", delay_count - 1)
    BY <1>5 DEF write_first
  <2>2. Busy /\ cur_op = "WRITE_FIRST"
    BY <2>1, FoundAt, SMTT(20)
  <2>3. /\ data = Arg /\ bitMask \in 0 .. 7 /\ delay_count \in 1 .. 6 /\ Bit(data, bitMask) = 1
        /\ low = IF delay_count = 6 THEN 1 ELSE 0
    BY <1>0, <2>2 DEF Line, Operation, WriteOp
  <2>4. /\ UNCHANGED <<seq, seq_pos, timer, late>> /\ Busy' /\ delay_count' = delay_count - 1
        /\ cur_op' = IF delay_count = 1 THEN "FINALLY" ELSE "WRITE_FIRST"
    <3>1. delay_count - 1 \in 0 .. 48
      BY <2>3, SMTT(20)
    <3> QED
      BY <1>0, <2>1, <3>1, ContinueIs DEF Steps
  <2>5. Sent' = bitMask + 1 /\ Sent = IF delay_count = 6 THEN bitMask ELSE bitMask + 1
    BY <2>1, <2>2, <2>3, <2>4, SMTT(20) DEF Sent, bitVars
  <2>6. low' = 0 /\ SensorTypes' /\ InStep'
    <3>1. CASE delay_count = 6
      <4>1. low' = 0 /\ Slot(Bit(Arg, Sent)) /\ UNCHANGED <<spad, faults>>
        BY <2>1, <2>3, <2>5, <3>1, ReleasedAfter DEF Release
      <4>2. Sent \in 0 .. 7 /\ Sent' = Sent + 1
        BY <2>3, <2>5, <3>1
      <4> QED
        BY <1>0, <2>4, <4>1, <4>2, WriteBit
    <3>2. CASE delay_count # 6
      <4>1. low' = 0 /\ UNCHANGED <<senVars, faults>> /\ Sent' = Sent
        BY <2>1, <2>3, <2>5, <3>2 DEF Hold
      <4>2. SensorTypes' /\ UNCHANGED <<dev, conv, converted>>
        BY <4>1, SensorKept
      <4> QED
        BY <1>0, <2>4, <4>1, <4>2, WriteWaits
    <3> QED
      BY <3>1, <3>2
  <2>7. delay_count - 1 \in 0 .. 5 /\ (delay_count # 1 => delay_count - 1 > 0)
    BY <2>3, SMTT(20)
  <2>8. CASE delay_count = 1
    BY <1>4, <2>1, <2>2, <2>3, <2>6, <2>7, <2>8 DEF Steps
  <2>9. CASE delay_count # 1
    BY <1>4, <2>1, <2>2, <2>3, <2>6, <2>7, <2>9 DEF Steps
  <2> QED
    BY <2>8, <2>9
<1>6. CASE wait_first
  <2>1. /\ At("WRITE", "WAIT_FIRST") /\ UNCHANGED bitVars
        /\ IF delay_count > 1 THEN Continue("WAIT_FIRST", delay_count - 1) /\ Hold
           ELSE Continue("FINALLY", 0) /\ Release
    BY <1>6 DEF wait_first
  <2>2. Busy /\ cur_op = "WAIT_FIRST"
    BY <2>1, FoundAt, SMTT(20)
  <2>3. /\ data = Arg /\ bitMask \in 0 .. 7 /\ delay_count \in 1 .. 6 /\ Bit(data, bitMask) = 0
        /\ low = 7 - delay_count /\ Sent = bitMask
    BY <1>0, <2>2 DEF Line, Operation, WriteOp, Sent
  <2>4. CASE delay_count > 1
    <3>1. delay_count - 1 \in 1 .. 5 /\ delay_count - 1 \in 0 .. 48 /\ delay_count - 1 \in 0 .. 5
      BY <2>3, <2>4, SMTT(20)
    <3>2. /\ UNCHANGED <<seq, seq_pos, timer, late>> /\ Busy' /\ cur_op' = "WAIT_FIRST"
      BY <1>0, <2>1, <2>4, <3>1, ContinueIs DEF Steps
    <3>3. low' = 7 - (delay_count - 1) /\ UNCHANGED <<senVars, faults>>
      BY <2>1, <2>3, <2>4, SMTT(20) DEF Hold
    <3>4. SensorTypes' /\ UNCHANGED <<dev, conv, converted>>
      BY <3>3, SensorKept
    <3>5. Sent' = Sent
      BY <2>1, <2>3, <3>2 DEF Sent, bitVars
    <3>6. InStep'
      BY <1>0, <3>2, <3>4, <3>5, WriteWaits
    <3> QED
      BY <1>4, <2>1, <2>2, <2>3, <2>4, <3>1, <3>3, <3>4, <3>6, SMTT(20) DEF Steps
  <2>5. CASE ~(delay_count > 1)
    <3>1. low = 6
      BY <2>3, <2>5, SMTT(20)
    <3>2. /\ UNCHANGED <<seq, seq_pos, timer, late>> /\ Busy' /\ cur_op' = "FINALLY"
      BY <1>0, <2>1, <2>5, ContinueIs, SMTT(20) DEF Steps
    <3>3. low' = 0 /\ Slot(Bit(Arg, Sent)) /\ UNCHANGED <<spad, faults>>
      BY <2>1, <2>3, <2>5, <3>1, ReleasedAfter DEF Release
    <3>4. Sent' = Sent + 1 /\ Sent \in 0 .. 7
      BY <2>1, <2>3, <3>2 DEF Sent, bitVars
    <3>5. InStep' /\ SensorTypes'
      BY <1>0, <3>2, <3>3, <3>4, WriteBit
    <3> QED
      BY <1>4, <2>1, <2>2, <2>3, <2>5, <3>3, <3>5, SMTT(20) DEF Steps
  <2> QED
    BY <2>4, <2>5
<1>7. CASE write_finally
  <2>1. /\ At("WRITE", "FINALLY") /\ bitMask' = bitMask + 1 /\ UNCHANGED data
        /\ IF bitMask' = 8 THEN OpDone /\ Hold ELSE LineLow(bitMask')
    BY <1>7 DEF write_finally
  <2>2. Busy /\ cur_op = "FINALLY"
    BY <2>1, FoundAt, SMTT(20)
  <2>3. data = Arg /\ bitMask \in 0 .. 7 /\ low = 0 /\ Sent = bitMask + 1
    BY <1>0, <2>2 DEF Line, Operation, WriteOp, Sent
  <2>4. CASE bitMask' # 8
    <3>1. Sent \in 0 .. 7 /\ bitMask' = Sent
      BY <2>1, <2>3, <2>4, SMTT(20)
    <3> QED
      BY <1>2, <2>1, <2>2, <2>3, <2>4, <3>1
  <2>5. CASE bitMask' = 8
    <3>1. OpDone /\ low' = 0 /\ UNCHANGED <<senVars, faults>>
      BY <2>1, <2>3, <2>5 DEF Hold
    <3>2. /\ DriverTypes' /\ timer' /\ ~Busy' /\ seq_pos' = seq_pos + 1
          /\ UNCHANGED <<seq, timer, late, UUID, have_uuid>>
      BY <1>0, <3>1, OpDoneIs
    <3>3. SensorTypes' /\ UNCHANGED <<dev, conv, converted>>
      BY <3>1, SensorKept
    <3>4. Sent = 8
      BY <2>1, <2>3, <2>5
    <3>5. InStep'
      BY <1>0, <3>2, <3>3, <3>4, WriteEnds
    <3>6. DataTypes'
      BY <1>0, <2>1, <2>5, <3>2, SMTT(20) DEF DataTypes, readVars
    <3> QED
      BY <3>1, <3>2, <3>3, <3>5, <3>6 DEF Line, Operation
  <2> QED
    BY <2>4, <2>5
<1> QED
  BY <1>1, <1>3, <1>5, <1>6, <1>7 DEF OW_doit_write

-----------------------------------------------------------------------------
(* Reads.                                                                  *)

(* Between two slots of an answer the sensor waits.                        *)
LEMMA ReadWaits ==
  ASSUME InStep, timer, seq_pos = 4, seq # "CONV_T", Slots' = Slots,
         UNCHANGED <<timer, seq, seq_pos, dev>>
  PROVE  InStep'
<1>1. AtRead' = AtRead /\ Awake' = Awake
  BY DEF AtRead, Awake
<1> QED
  BY <1>1, SMTT(20) DEF InStep

(* In each slot it sends one bit.                                          *)
LEMMA ReadSlot ==
  ASSUME InStep, SensorTypes, timer, seq \in Seqs, seq_pos = 4, seq # "CONV_T",
         Slots \in 0 .. 71, Slots' = Slots + 1, Slot(1),
         UNCHANGED <<timer, seq, seq_pos, spad, faults>>
  PROVE  InStep' /\ SensorTypes'
<1>1. dev \in Device
  BY DEF SensorTypes
<1>2. CASE ~Awake
  <2>1. dev' = dev /\ UNCHANGED <<conv, converted>>
    BY <1>1, <1>2, SendsBit DEF Awake
  <2> QED
    BY <1>2, <2>1 DEF Awake, InStep, SensorTypes
<1>3. CASE Awake
  <2>1. /\ dev.mode \in {"rom", "spad"} /\ dev.n \in 0 .. 79
        /\ seq = "UUID_T" => dev.mode = "rom" /\ dev.n = 8 + Slots
        /\ seq = "READ_T" => dev.mode = "spad" /\ dev.n = Slots
    BY <1>3, SMTT(20) DEF InStep, AtRead, Seqs
  <2>2. /\ dev'.mode = dev.mode /\ dev'.n = dev.n + 1
        /\ dev' = [dev EXCEPT !.n = @ + 1, !.out = OutBit] /\ UNCHANGED <<conv, converted>>
    BY <1>1, <2>1, SendsBit
  <2>3. dev' \in Device
    <3>1. OutBit \in {0, 1}
      BY <2>1, OutBitType
    <3>2. dev.n + 1 \in 0 .. 80
      BY <2>1, SMTT(20)
    <3> QED
      BY <1>1, <2>2, <3>1, <3>2 DEF Device
  <2>4. SensorTypes'
    BY <2>2, <2>3 DEF SensorTypes
  <2>5. AtRead'
    BY <2>1, <2>2, SMTT(20) DEF AtRead
  <2> QED
    BY <2>4, <2>5, SMTT(20) DEF InStep
<1> QED
  BY <1>2, <1>3

(* A step within a read.                                                   *)
LEMMA ReadGoesOn ==
  ASSUME Control, Bus, timer, op_type = "READ", NEW op \in {"SAMPLE", "WAIT_50"},
         NEW count \in 0 .. 48, Continue(op, count), low' = 0, SensorTypes', InStep',
         bitMask' \in 0 .. 8, data' \in Byte, spad_buf' \in [1 .. 9 -> Byte],
         readCount' \in 0 .. 8, readsLeft' = 9 - readCount', data' \in 0 .. 2^bitMask' - 1,
         \/ op = "SAMPLE" /\ bitMask' \in 0 .. 7
         \/ op = "WAIT_50" /\ count \in 1 .. 4 /\ bitMask' \in 1 .. 8
  PROVE  Bus'
<1> USE DEF Bus, Types
<1>0. op \in Steps
  BY DEF Steps
<1>1. /\ DriverTypes' /\ Busy' /\ cur_op' = op /\ delay_count' = count
      /\ UNCHANGED <<seq, seq_pos, op_type, timer, late, UUID, have_uuid>>
  BY <1>0, ContinueIs
<1>2. DataTypes'
  <2>1. \A n \in 0 .. 8 : n \in 0 .. 9 /\ 9 - n \in 0 .. 9
    BY SMTT(20)
  <2>2. UUID \in [1 .. 8 -> Byte] /\ have_uuid \in BOOLEAN
    BY DEF DataTypes
  <2> QED
    BY <1>1, <2>1, <2>2 DEF DataTypes
<1>3. Line'
  BY <1>1 DEF Line
<1>4. ReadOp'
  BY <1>1 DEF ReadOp
<1> QED
  BY <1>1, <1>2, <1>3, <1>4 DEF Operation

(* The answer is read bit by bit, as it is sent.                           *)
LEMMA ReadBus ==
  ASSUME Control, Bus, OW_doit_read
  PROVE  Bus'
<1> USE DEF Bus, Types
<1>0. timer /\ op_type = "READ" /\ seq \in Seqs /\ seq_pos = 4 /\ seq # "CONV_T" /\ low = 0
  <2>1. PICK op \in {"INIT", "SAMPLE", "WAIT_50"} : At("READ", op)
    BY DEF OW_doit_read, read_init, read_sample, read_wait, read_next_bit, read_next_byte
  <2>2. timer /\ op_type = "READ" /\ seq \in Seqs /\ seq_pos = 4 /\ seq # "CONV_T"
    BY <2>1, FoundAt
  <2> QED
    BY <2>2 DEF Line
<1>d. DataTypes /\ SensorTypes /\ InStep
  OBVIOUS
(* A pulse is a slot for the next bit. *)
<1>1. ASSUME Pulse, Slots \in 0 .. 71, Slots' = Slots + 1, UNCHANGED <<timer, seq, seq_pos>>
      PROVE  low' = 0 /\ SensorTypes' /\ InStep'
  <2>1. low' = 0 /\ Slot(1) /\ UNCHANGED <<spad, faults>>
    BY <1>1, ReleasedAfter DEF Pulse
  <2> QED
    BY <1>0, <1>1, <2>1, ReadSlot
<1>2. CASE read_init
  <2>1. /\ At("READ", "INIT") /\ Continue("SAMPLE", delay_count) /\ Pulse /\ UNCHANGED spad_buf
        /\ bitMask' = 0 /\ data' = 0 /\ readCount' = 0 /\ readsLeft' = Arg
    BY <1>2 DEF read_init
  <2>2. ~Busy /\ delay_count \in 0 .. 48
    BY <2>1, FoundAt DEF DriverTypes
  <2>3. Busy' /\ cur_op' = "SAMPLE" /\ UNCHANGED <<timer, seq, seq_pos>>
    BY <1>0, <2>1, <2>2, ContinueIs DEF Steps
  <2>4. Slots = 0 /\ Slots' = 1
    BY <2>1, <2>2, <2>3, SMTT(20) DEF Slots
  <2>5. low' = 0 /\ SensorTypes' /\ InStep'
    BY <1>1, <2>1, <2>3, <2>4, SMTT(20)
  <2>6. Arg = 9
    BY <1>0, ArgumentAt DEF Arg, Seqs
  <2>7. 2^bitMask' = 1 /\ 0 \in Byte
    BY <2>1, SMTT(20) DEF Byte
  <2> QED
    BY <1>0, <2>1, <2>2, <2>5, <2>6, <2>7, ReadGoesOn, SMTT(20) DEF DataTypes
<1>3. CASE read_sample
  <2>1. /\ At("READ", "SAMPLE") /\ Continue("WAIT_50", 4) /\ bitMask' = bitMask + 1
        /\ UNCHANGED <<readVars, low, senVars>>
        /\ \E sample \in {0, 1} : /\ data' = data + sample * 2^bitMask
                                  /\ faults' = faults \/ May("noise")
    BY <1>3 DEF read_sample
  <2>2. Busy /\ cur_op = "SAMPLE"
    BY <2>1, FoundAt, SMTT(20)
  <2>3. /\ bitMask \in 0 .. 7 /\ data \in 0 .. 2^bitMask - 1
        /\ readCount \in 0 .. 8 /\ readsLeft = 9 - readCount
    BY <1>0, <2>2 DEF Operation, ReadOp
  <2>4. 2^bitMask \in 1 .. 128 /\ 2^(bitMask + 1) = 2 * 2^bitMask
    BY <2>3, BitByBit DEF DataTypes
  <2>5. data' \in 0 .. 2^bitMask' - 1 /\ data' \in 0 .. 255
    <3> DEFINE p == 2^bitMask
    <3>1. p \in 1 .. 128 /\ data \in 0 .. p - 1 /\ 2^bitMask' = 2 * p
      BY <2>1, <2>3, <2>4
    <3>2. data' = data \/ data' = data + p
      BY <2>1, <3>1, SMTT(20)
    <3> HIDE DEF p
    <3> QED
      BY <3>1, <3>2, SMTT(20)
  <2>6. faults' \in 0 .. MaxFaults
    BY <2>1, ConstantsAssumption, SMTT(20) DEF May, SensorTypes
  <2>7. SensorTypes' /\ UNCHANGED dev
    BY <2>1, <2>6 DEF SensorTypes, senVars
  <2>8. Busy' /\ cur_op' = "WAIT_50" /\ UNCHANGED <<timer, seq, seq_pos>>
    BY <1>0, <2>1, ContinueIs, SMTT(20) DEF Steps
  <2>9. Slots' = Slots
    BY <2>1, <2>2, <2>3, <2>8, SMTT(20) DEF Slots, readVars
  <2>10. InStep'
    BY <1>0, <2>7, <2>8, <2>9, ReadWaits
  <2>11. bitMask' \in 1 .. 8 /\ bitMask' \in 0 .. 8 /\ data' \in Byte
    BY <2>1, <2>3, <2>5, SMTT(20) DEF Byte
  <2>12. spad_buf' \in [1 .. 9 -> Byte] /\ readCount' \in 0 .. 8 /\ readsLeft' = 9 - readCount'
    BY <2>1, <2>3 DEF DataTypes, readVars
  <2>13. 4 \in 1 .. 4 /\ 4 \in 0 .. 48 /\ low' = 0
    BY <1>0, <2>1, SMTT(20)
  <2> QED
    BY <1>0, <2>1, <2>5, <2>7, <2>10, <2>11, <2>12, <2>13, ReadGoesOn
<1>4. CASE read_wait \/ read_next_bit \/ read_next_byte
  <2>1. At("READ", "WAIT_50")
    BY <1>4 DEF read_wait, read_next_bit, read_next_byte
  <2>2. Busy /\ cur_op = "WAIT_50"
    BY <2>1, FoundAt, SMTT(20)
  <2>3. /\ bitMask \in 1 .. 8 /\ data \in 0 .. 2^bitMask - 1 /\ delay_count \in 1 .. 4
        /\ readCount \in 0 .. 8 /\ readsLeft = 9 - readCount
    BY <1>0, <2>2 DEF Operation, ReadOp
  <2>4. Slots = 8 * readCount + bitMask
    BY <2>2, <2>3, SMTT(20) DEF Slots
  <2>5. CASE read_wait
    <3>1. /\ Continue("WAIT_50", delay_count - 1) /\ Hold /\ UNCHANGED <<bitVars, readVars>>
          /\ delay_count > 1
      BY <2>5 DEF read_wait
    <3>2. delay_count - 1 \in 1 .. 4 /\ delay_count - 1 \in 0 .. 48
      BY <2>3, <3>1, SMTT(20)
    <3>3. Busy' /\ cur_op' = "WAIT_50" /\ UNCHANGED <<timer, seq, seq_pos>>
      BY <1>0, <3>1, <3>2, ContinueIs DEF Steps
    <3>4. low' = 0 /\ SensorTypes' /\ UNCHANGED dev
      BY <1>0, <3>1, SensorKept DEF Hold
    <3>5. Slots' = Slots
      BY <2>3, <2>4, <3>1, <3>3, SMTT(20) DEF Slots, bitVars, readVars
    <3>6. InStep'
      BY <1>0, <3>3, <3>4, <3>5, ReadWaits
    <3> QED
      BY <1>0, <2>3, <3>1, <3>2, <3>4, <3>6, ReadGoesOn DEF DataTypes, bitVars, readVars
  <2>6. CASE read_next_bit
    <3>1. /\ Continue("SAMPLE", 0) /\ Pulse /\ UNCHANGED <<bitVars, readVars>> /\ bitMask < 8
      BY <2>6 DEF read_next_bit
    <3>2. Busy' /\ cur_op' = "SAMPLE" /\ UNCHANGED <<timer, seq, seq_pos>>
      BY <1>0, <3>1, ContinueIs, SMTT(20) DEF Steps
    <3>3. Slots \in 0 .. 71 /\ Slots' = Slots + 1
      BY <2>3, <2>4, <3>1, <3>2, SMTT(20) DEF Slots, bitVars, readVars
    <3>4. low' = 0 /\ SensorTypes' /\ InStep'
      BY <1>1, <3>1, <3>2, <3>3
    <3>5. bitMask' \in 0 .. 7 /\ bitMask' = bitMask
      BY <2>3, <3>1, SMTT(20) DEF bitVars
    <3>6. /\ bitMask' \in 0 .. 8 /\ data' \in Byte /\ data' \in 0 .. 2^bitMask' - 1
          /\ spad_buf' \in [1 .. 9 -> Byte] /\ readCount' \in 0 .. 8
          /\ readsLeft' = 9 - readCount' /\ 0 \in 0 .. 48
      BY <2>3, <3>1, <3>5, SMTT(20) DEF DataTypes, bitVars, readVars
    <3> QED
      BY <1>0, <3>1, <3>4, <3>5, <3>6, ReadGoesOn
  <2>7. CASE read_next_byte
    <3>1. /\ bitMask = 8 /\ spad_buf' = [spad_buf EXCEPT ![readCount + 1] = data]
          /\ readCount' = readCount + 1 /\ readsLeft' = readsLeft - 1
          /\ bitMask' = 0 /\ data' = 0
          /\ IF readsLeft = 1 THEN OpDone /\ Hold ELSE Continue("SAMPLE", 0) /\ Pulse
      BY <2>7 DEF read_next_byte
    <3>2. spad_buf' \in [1 .. 9 -> Byte] /\ 0 \in Byte
      BY <2>3, <3>1, NoBitAllBits DEF DataTypes
    <3>3. CASE readsLeft = 1
      <4>1. OpDone /\ low' = 0 /\ UNCHANGED <<senVars, faults>>
        BY <1>0, <3>1, <3>3 DEF Hold
      <4>2. /\ DriverTypes' /\ ~Busy' /\ seq_pos' = 5 /\ UNCHANGED <<UUID, have_uuid>>
        BY <1>0, <4>1, OpDoneIs, SMTT(20)
      <4>3. SensorTypes'
        BY <4>1, SensorKept
      <4>4. readCount' \in 0 .. 9 /\ readsLeft' \in 0 .. 9
        BY <2>3, <3>1, <3>3, SMTT(20)
      <4>5. DataTypes'
        BY <3>1, <3>2, <4>2, <4>4, SMTT(20) DEF DataTypes
      <4>6. InStep'
        <5>1. ~(5 = 1 \/ 5 = 2 \/ 5 = 3 \/ 5 = 4)
          BY SMTT(20)
        <5> QED
          BY <4>2, <5>1 DEF InStep
      <4> QED
        BY <4>1, <4>2, <4>3, <4>5, <4>6 DEF Line, Operation
    <3>4. CASE readsLeft # 1
      <4>1. Continue("SAMPLE", 0) /\ Pulse
        BY <3>1, <3>4
      <4>2. Busy' /\ cur_op' = "SAMPLE" /\ UNCHANGED <<timer, seq, seq_pos>>
        BY <1>0, <4>1, ContinueIs, SMTT(20) DEF Steps
      <4>3. readCount \in 0 .. 7 /\ readCount' \in 0 .. 8 /\ readsLeft' = 9 - readCount'
        BY <2>3, <3>1, <3>4, SMTT(20)
      <4>4. Slots \in 0 .. 71 /\ Slots' = Slots + 1
        BY <2>4, <3>1, <4>2, <4>3, SMTT(20) DEF Slots
      <4>5. low' = 0 /\ SensorTypes' /\ InStep'
        BY <1>1, <4>1, <4>2, <4>4
      <4>6. 2^bitMask' = 1
        BY <3>1, SMTT(20)
      <4> QED
        BY <1>0, <3>1, <3>2, <4>1, <4>3, <4>5, <4>6, ReadGoesOn, SMTT(20)
    <3> QED
      BY <3>3, <3>4
  <2> QED
    BY <1>4, <2>5, <2>6, <2>7
<1> QED
  BY <1>2, <1>3, <1>4 DEF OW_doit_read

-----------------------------------------------------------------------------
(* The bus, for all time.                                                  *)

(* The callbacks stop the timer.                                           *)
LEMMA EndBus ==
  ASSUME Control, Bus, read_uuid_done_cb \/ conv_t_done_cb \/ read_temp_done_cb
  PROVE  Bus'
<1> USE DEF Bus, Types
<1>1. /\ op_type = "END" /\ timer' = FALSE
      /\ UNCHANGED <<hw_timer_state, seq, seq_pos, op_type, cur_op, delay_count, bitVars,
                     taskVars, low, senVars, faults, readsLeft, readCount>>
      /\ ow_task_arg' \in {"CONV_T", "READ_T", "NEXT_READ_T"}
  BY DEF read_uuid_done_cb, conv_t_done_cb, read_temp_done_cb, AtEnd, hw_timer_stop, outVars,
    readVars
<1>2. low' = 0 /\ ~Busy'
  BY <1>1 DEF Line, Busy
<1>3. SensorTypes'
  BY <1>1, SensorKept
<1>4. DriverTypes'
  BY <1>1 DEF DriverTypes, taskVars, Seqs
<1>5. spad_buf' \in [1 .. 9 -> Byte] /\ UUID' \in [1 .. 8 -> Byte] /\ have_uuid' \in BOOLEAN
  <2>1. CASE read_uuid_done_cb
    <3>1. /\ UUID' = [i \in 1 .. 8 |-> IF i = 1 THEN DS_FAMILY_CODE ELSE spad_buf[i - 1]]
          /\ have_uuid' = (\E i \in 2 .. 8 : UUID'[i] \notin {0, 255})
          /\ UNCHANGED spad_buf
      BY <2>1 DEF read_uuid_done_cb, readVars
    <3>2. have_uuid' \in BOOLEAN
      BY <3>1
    <3>3. \A i \in 1 .. 8 : (IF i = 1 THEN DS_FAMILY_CODE ELSE spad_buf[i - 1]) \in Byte
      <4>1. 40 \in Byte
        BY SMTT(20) DEF Byte
      <4> QED
        BY <4>1, SMTT(20) DEF DataTypes, DS_FAMILY_CODE
    <3>4. UUID' \in [1 .. 8 -> Byte]
      BY <3>1, <3>3
    <3> QED
      BY <3>1, <3>2, <3>4 DEF DataTypes
  <2>2. CASE conv_t_done_cb
    BY <2>2 DEF conv_t_done_cb, outVars, readVars, DataTypes
  <2>3. CASE read_temp_done_cb
    <3>1. spad_buf' = Zeros /\ UNCHANGED <<UUID, have_uuid>>
      BY <2>3 DEF read_temp_done_cb
    <3>2. 0 \in Byte
      BY SMTT(20) DEF Byte
    <3> QED
      BY <3>1, <3>2 DEF DataTypes, Zeros
  <2> QED
    BY <2>1, <2>2, <2>3
<1>6. DataTypes'
  BY <1>1, <1>5 DEF DataTypes, bitVars
<1>7. Line' /\ Operation' /\ InStep'
  BY <1>1, <1>2 DEF Line, Operation, InStep
<1> QED
  BY <1>3, <1>4, <1>6, <1>7

(* The tasks run between sequences, or leave the driver alone.             *)
LEMMA TasksBus ==
  ASSUME Control, Deadlines, Bus, Tasks
  PROVE  Bus'
<1> USE DEF Bus, Types
<1>1. CASE ow_task_init
  <2>1. /\ seq_state = "INIT" /\ ow_task_arg \in Seqs /\ op_type' = ds_seqs[seq][1]
        /\ cur_op' = "NONE" /\ seq_pos' = 1 /\ starting' = ow_task_arg
        /\ UNCHANGED <<seq, seq_state, delay_count, ow_task_arg, bitVars, readVars, outVars,
                       hwVars, stagger, low, senVars, faults>>
    BY <1>1 DEF ow_task_init
  <2>2. ~timer /\ ~timer' /\ seq \in Seqs
    BY <2>1 DEF Control, hwVars
  <2>3. op_type' = "RESET"
    BY <2>1, <2>2, FirstIsReset
  <2>4. DriverTypes'
    BY <2>1, <2>3, SMTT(20) DEF DriverTypes, hwVars
  <2>5. DataTypes' /\ SensorTypes'
    BY <2>1, DataKept, SensorKept DEF outVars
  <2> QED
    BY <2>1, <2>2, <2>4, <2>5 DEF Line, Operation, InStep, Busy
<1>2. CASE ow_task_poll
  <2>1. UNCHANGED <<drvVars, opVars, bitVars, readVars, outVars, hwVars, starting, stagger, low,
                    senVars, late, faults>>
    BY <1>2 DEF ow_task_poll
  <2>2. DriverTypes'
    BY <2>1 DEF DriverTypes, drvVars, opVars, hwVars
  <2>3. DataTypes' /\ SensorTypes' /\ UNCHANGED <<dev, conv, converted>>
    BY <2>1, DataKept, SensorKept DEF outVars
  <2>4. Line' /\ Operation'
    BY <2>1 DEF Line, Operation, ResetOp, WriteOp, ReadOp, Busy, Arg, drvVars, opVars, hwVars,
      bitVars, readVars
  <2>5. InStep'
    BY <2>1, <2>3 DEF InStep, AtReset, AtRomCommand, AtCommand, AtRead, Hears, Sent, Slots, Awake,
      Converts, Busy, Arg, drvVars, opVars, hwVars, bitVars, readVars
  <2> QED
    BY <2>2, <2>3, <2>4, <2>5
<1>3. CASE OW_init_seq
  <2>1. /\ starting # None /\ seq' = starting /\ ow_task_arg' = starting
        /\ seq_state' = "TRANSITION" /\ starting' = None /\ hw_timer_state' = "ACTIVE"
        /\ UNCHANGED <<seq_pos, op_type, cur_op, delay_count, bitVars, readVars, outVars, stagger,
                       low, senVars, faults>>
    BY <1>3 DEF OW_init_seq, hw_timer_start, hw_timer_init
  <2>2. ~timer /\ seq_pos = 1 /\ starting \in Seqs
    BY <2>1 DEF Control
  <2>3. DriverTypes'
    BY <2>1, <2>2 DEF DriverTypes
  <2>4. DataTypes' /\ SensorTypes'
    BY <2>1, DataKept, SensorKept DEF outVars
  <2> QED
    BY <2>1, <2>2, <2>3, <2>4, SMTT(20) DEF Line, Operation, InStep, AtReset, Busy
<1>4. CASE tempTask
  <2>1. ~timer
    BY <1>4, IdleInTime DEF tempTask, RequestFindsIdle
  <2>2. /\ stagger' = ~stagger
        /\ UNCHANGED <<seq_pos, op_type, cur_op, delay_count, bitVars, readsLeft, readCount,
                       outVars, hwVars, starting, low, dev, conv, spad, faults>>
    BY <1>4 DEF tempTask
  <2>3. /\ seq' \in Seqs \cup {None} /\ ow_task_arg' \in Seqs \cup {"INVALID", "NEXT_READ_T"}
        /\ converted' \in BOOLEAN /\ spad_buf' \in [1 .. 9 -> Byte]
    <3>1. CASE stagger'
      <4>1. /\ spad_buf' = [i \in 1 .. 9 |-> IF i <= 4 THEN 0 ELSE spad_buf[i]]
            /\ seq' \in {"CONV_T", "UUID_T"} /\ ow_task_arg' = seq' /\ converted' = FALSE
        BY <1>4, <3>1 DEF tempTask, OW_request_new_temp
      <4>2. \A i \in 1 .. 9 : (IF i <= 4 THEN 0 ELSE spad_buf[i]) \in Byte
        <5>1. 0 \in Byte
          BY SMTT(20) DEF Byte
        <5> QED
          BY <5>1 DEF DataTypes
      <4> QED
        BY <4>1, <4>2 DEF Seqs
    <3>2. CASE ~stagger'
      BY <1>4, <3>2 DEF tempTask, DriverTypes, DataTypes, SensorTypes
    <3> QED
      BY <3>1, <3>2
  <2>4. stagger' \in BOOLEAN
    BY <2>2 DEF DriverTypes
  <2>5. DriverTypes'
    BY <2>2, <2>3, <2>4 DEF DriverTypes, hwVars
  <2>6. DataTypes'
    BY <2>2, <2>3 DEF DataTypes, bitVars, outVars
  <2>7. SensorTypes'
    BY <2>2, <2>3 DEF SensorTypes
  <2> QED
    BY <2>1, <2>2, <2>5, <2>6, <2>7 DEF Line, Operation, InStep, Busy, hwVars
<1> QED
  BY <1>1, <1>2, <1>3, <1>4 DEF Tasks

(* A tick may fall into a sequence, but only one.                          *)
LEMMA TickBus ==
  ASSUME Control, Bus, Tick
  PROVE  Bus'
<1> USE DEF Bus, Types
<1>1. /\ ~(timer /\ late) /\ late' = timer
      /\ conv' = IF conv = 0 THEN 0 ELSE conv - 1
      /\ IF conv = 1 THEN spad' \in Readings ELSE UNCHANGED spad
      /\ UNCHANGED <<drvVars, opVars, bitVars, readVars, outVars, hwVars, starting, stagger, low,
                     dev, converted, faults>>
  BY DEF Tick
<1>2. DriverTypes'
  BY <1>1 DEF DriverTypes, drvVars, opVars, hwVars
<1>3. DataTypes'
  BY <1>1, DataKept DEF outVars
<1>4. conv' \in 0 .. ConvTicks /\ conv' >= conv - 1 /\ conv \in 0 .. ConvTicks
  BY <1>1, ConstantsAssumption, SMTT(20) DEF SensorTypes
<1>5. spad' \in [1 .. 9 -> Byte]
  BY <1>1, ConstantsAssumption DEF SensorTypes
<1>6. SensorTypes'
  BY <1>1, <1>4, <1>5 DEF SensorTypes
<1>7. Line' /\ Operation'
  BY <1>1 DEF Line, Operation, ResetOp, WriteOp, ReadOp, Busy, Arg, drvVars, opVars, hwVars,
    bitVars, readVars
<1>8. timer /\ Converts => Converts'
  BY <1>1, <1>4, ConstantsAssumption, SMTT(20) DEF Converts
<1>9. /\ Sent' = Sent /\ Slots' = Slots /\ Arg' = Arg /\ Awake' = Awake
      /\ UNCHANGED <<timer, seq, seq_pos, dev, cur_op>> /\ Busy' = Busy
  BY <1>1 DEF Sent, Slots, Arg, Awake, Busy, drvVars, opVars, hwVars, bitVars, readVars
<1>10. /\ AtReset => AtReset'
       /\ AtRomCommand => AtRomCommand'
       /\ timer /\ AtCommand => AtCommand'
       /\ timer /\ AtRead => AtRead'
  BY <1>8, <1>9 DEF AtReset, AtRomCommand, AtCommand, AtRead, Hears
<1>11. InStep'
  BY <1>9, <1>10 DEF InStep
<1> QED
  BY <1>2, <1>3, <1>6, <1>7, <1>11

(* Every step keeps the driver and the sensor together.                    *)
LEMMA StepBus ==
  ASSUME Control, Deadlines, Bus, [Next]_vars
  PROVE  Bus'
<1>1. CASE UNCHANGED vars
  <2>1. UNCHANGED <<drvVars, opVars, bitVars, readVars, outVars, hwVars, taskVars, low, senVars,
                    late, faults>>
    BY <1>1 DEF vars
  <2>2. Types'
    BY <2>1, SMTT(20) DEF Bus, Types, DriverTypes, DataTypes, SensorTypes, drvVars, opVars,
      bitVars, readVars,
      outVars, hwVars, taskVars, senVars
  <2>3. Line' /\ Operation'
    BY <2>1 DEF Bus, Line, Operation, ResetOp, WriteOp, ReadOp, Busy, Arg, drvVars, opVars, hwVars,
      bitVars, readVars
  <2>4. InStep'
    BY <2>1 DEF Bus, InStep, AtReset, AtRomCommand, AtCommand, AtRead, Hears, Sent, Slots, Awake,
      Converts, Busy, Arg, drvVars, opVars, hwVars, bitVars, readVars, senVars
  <2> QED
    BY <2>2, <2>3, <2>4 DEF Bus
<1>2. CASE Next
  BY <1>2, ResetBus, ReadBus, WriteBus, EndBus, TasksBus, TickBus DEF Next, OW_doit
<1> QED
  BY <1>1, <1>2

(* At the start nothing is on the bus.                                     *)
LEMMA InitBus == Init => Bus
<1> SUFFICES ASSUME Init PROVE Bus
  OBVIOUS
<1>1. 0 \in Byte /\ 0 \in 0 .. ConvTicks /\ 0 \in 0 .. MaxFaults
  BY ConstantsAssumption, SMTT(20) DEF Byte
<1>2. DriverTypes
  <2>1. /\ seq = None /\ seq_pos = 1 /\ op_type = "NONE" /\ cur_op = "NONE" /\ delay_count = 0
        /\ ow_task_arg = "INVALID" /\ hw_timer_state = "READY" /\ starting = None
        /\ stagger = FALSE
    BY DEF Init
  <2>2. 1 \in 1 .. 5 /\ 0 \in 0 .. 48
    BY SMTT(20)
  <2> QED
    BY <2>1, <2>2 DEF DriverTypes
<1>3. DataTypes
  <2>1. /\ bitMask = 0 /\ data = 0 /\ readsLeft = 0 /\ readCount = 0 /\ have_uuid = FALSE
        /\ spad_buf = [i \in 1 .. 9 |-> 0] /\ UUID = [i \in 1 .. 8 |-> 0]
    BY DEF Init, Zeros
  <2>2. 0 \in 0 .. 8 /\ 0 \in 0 .. 9
    BY SMTT(20)
  <2> QED
    BY <1>1, <2>1, <2>2 DEF DataTypes
<1>4. SensorTypes
  <2>1. /\ conv = 0 /\ spad = PowerOn /\ converted = FALSE /\ faults = 0
        /\ dev = [mode |-> "off", n |-> 0, byte |-> 0, out |-> 1]
    BY DEF Init
  <2>2. dev \in Device
    BY <1>1, <2>1, SMTT(20) DEF Device, Modes
  <2> QED
    BY <1>1, <2>1, <2>2, ConstantsAssumption DEF SensorTypes
<1> QED
  BY <1>2, <1>3, <1>4 DEF Init, Bus, Types, Line, Operation, InStep, Busy

(* The driver and the sensor, for all time.                                *)
LEMMA BusInvariance == Spec => [](Control /\ Deadlines /\ Bus)
<1>1. Control /\ Deadlines /\ Bus /\ [Next]_vars => Bus'
  BY StepBus
<1> QED
  BY <1>1, InTime, InitBus, PTL DEF Spec

(* Every variable of the driver, the timer, the tasks and the sensor keeps *)
(* its type: no bit mask runs past its byte, no read past the scratchpad.  *)
THEOREM OneWireTypeCorrect == Spec => []TypeOK
<1>1. Control /\ Deadlines /\ Bus => TypeOK
  <2> SUFFICES ASSUME Control, Deadlines, Bus PROVE TypeOK
    OBVIOUS
  <2>1. low \in 0 .. 48
    BY SMTT(20) DEF Bus, Line, Operation, ResetOp, WriteOp
  <2> QED
    BY <2>1 DEF Control, Deadlines, Bus, Types, DriverTypes, DataTypes, SensorTypes, Device, Modes,
      TypeOK
<1> QED
  BY <1>1, BusInvariance, PTL

(* When the driver begins to read, a sensor that listens has understood    *)
(* the commands and is about to send the answer, and it converts when a    *)
(* conversion was asked for: OW_doit writes every bit in a slot the sensor *)
(* takes for this bit.                                                     *)
THEOREM SensorFollows == Spec => []SensorInStep
<1>1. Control /\ Bus => SensorInStep
  <2> SUFFICES ASSUME Control, Bus, timer, Awake
               PROVE  /\ op_type = "READ" /\ seq_state = "TRANSITION" =>
                           IF seq = "UUID_T" THEN dev.mode = "rom" /\ dev.n = 8
                           ELSE dev.mode = "spad" /\ dev.n = 0
                      /\ op_type = "END" /\ seq = "CONV_T" => converted /\ conv >= ConvTicks - 1
    BY DEF SensorInStep, Awake
  <2>1. /\ seq \in Seqs
        /\ op_type = "READ" => seq_pos = 4 /\ seq # "CONV_T"
        /\ op_type = "END" /\ seq = "CONV_T" => seq_pos \in {4, 5}
        /\ seq = "CONV_T" => seq_pos # 5
    BY SequenceAt, SMTT(20) DEF Control, ds_seqs
  <2>2. seq_state = "TRANSITION" => Slots = 0
    BY DEF Slots, Busy
  <2>3. ConvTicks \in Nat /\ conv \in Nat
    BY ConstantsAssumption, SMTT(20) DEF Bus, Types, SensorTypes
  <2> QED
    BY <2>1, <2>2, <2>3, SMTT(20) DEF Bus, InStep, AtRead, Converts, Seqs
<1> QED
  BY <1>1, BusInvariance, PTL

-----------------------------------------------------------------------------
(* A bus without noise: what is sent is received.                          *)

(* What an interrupt of a write does to the sensor: nothing, or a slot     *)
(* with the next bit of the command.                                       *)
LEMMA WriteSlot ==
  ASSUME Control, Bus, OW_doit_write
  PROVE  /\ timer /\ seq \in Seqs /\ seq_pos \in {2, 3} /\ UNCHANGED <<spad, faults>>
         /\ \/ UNCHANGED <<dev, conv, converted>>
            \/ Sent \in 0 .. 7 /\ Slot(Bit(Arg, Sent))
<1> USE DEF Bus, Types
<1>0. timer /\ op_type = "WRITE" /\ seq \in Seqs /\ seq_pos \in {2, 3}
  <2>1. PICK op \in {"INIT", "LINE_LOW", "WRITE_FIRST", "WAIT_FIRST", "FINALLY"} : At("WRITE", op)
    BY DEF OW_doit_write, write_init, write_line_low, write_first, wait_first, write_finally
  <2> QED
    BY <2>1, FoundAt
<1>1. CASE write_init \/ write_line_low \/ write_finally
  <2>1. UNCHANGED <<senVars, faults>>
    BY <1>1 DEF write_init, write_line_low, write_finally, LineLow, Hold, Pull
  <2> QED
    BY <1>0, <2>1 DEF senVars
<1>2. CASE write_first
  <2>1. At("WRITE", "WRITE_FIRST") /\ IF delay_count = 6 THEN Release ELSE Hold
    BY <1>2 DEF write_first
  <2>2. Busy /\ cur_op = "WRITE_FIRST"
    BY <2>1, FoundAt, SMTT(20)
  <2>3. /\ data = Arg /\ bitMask \in 0 .. 7 /\ Bit(data, bitMask) = 1
        /\ delay_count = 6 => low = 1 /\ Sent = bitMask
    BY <1>0, <2>2, SMTT(20) DEF Line, Operation, WriteOp, Sent
  <2>4. CASE delay_count = 6
    <3>1. Released(1)
      BY <2>1, <2>3, <2>4 DEF Release
    <3>2. Slot(1) /\ UNCHANGED <<spad, faults>>
      BY <3>1, ReleasedAfter
    <3> QED
      BY <1>0, <2>3, <2>4, <3>2
  <2>5. CASE delay_count # 6
    BY <1>0, <2>1, <2>5 DEF Hold, senVars
  <2> QED
    BY <2>4, <2>5
<1>3. CASE wait_first
  <2>1. /\ At("WRITE", "WAIT_FIRST")
        /\ IF delay_count > 1 THEN Hold ELSE Release
    BY <1>3 DEF wait_first
  <2>2. Busy /\ cur_op = "WAIT_FIRST"
    BY <2>1, FoundAt, SMTT(20)
  <2>3. /\ data = Arg /\ bitMask \in 0 .. 7 /\ Bit(data, bitMask) = 0 /\ Sent = bitMask
        /\ delay_count \in 1 .. 6 /\ low = 7 - delay_count
    BY <1>0, <2>2 DEF Line, Operation, WriteOp, Sent
  <2>4. CASE delay_count > 1
    BY <1>0, <2>1, <2>4 DEF Hold, senVars
  <2>5. CASE ~(delay_count > 1)
    <3>1. Release /\ low = 6
      BY <2>1, <2>3, <2>5, SMTT(20)
    <3>2. Released(6)
      BY <3>1 DEF Release
    <3>3. Slot(0) /\ UNCHANGED <<spad, faults>>
      BY <3>2, ReleasedAfter
    <3> QED
      BY <1>0, <2>3, <3>3
  <2> QED
    BY <2>4, <2>5
<1> QED
  BY <1>1, <1>2, <1>3 DEF OW_doit_write

(* What an interrupt of a read does to it: nothing, or a slot to answer.   *)
LEMMA ReadSlotOnly ==
  ASSUME Control, Bus, OW_doit_read
  PROVE  /\ timer /\ seq \in Seqs /\ seq_pos = 4 /\ seq # "CONV_T" /\ UNCHANGED spad
         /\ \/ UNCHANGED <<dev, conv, converted>>
            \/ Slot(1)
<1> USE DEF Bus, Types
<1>0. timer /\ op_type = "READ" /\ seq \in Seqs /\ seq_pos = 4 /\ seq # "CONV_T"
  <2>1. PICK op \in {"INIT", "SAMPLE", "WAIT_50"} : At("READ", op)
    BY DEF OW_doit_read, read_init, read_sample, read_wait, read_next_bit, read_next_byte
  <2> QED
    BY <2>1, FoundAt
<1>1. Hold \/ Pulse \/ UNCHANGED senVars
  BY DEF OW_doit_read, read_init, read_sample, read_wait, read_next_bit, read_next_byte
<1>2. CASE Pulse
  BY <1>0, <1>2, ReleasedAfter DEF Pulse
<1>3. CASE Hold \/ UNCHANGED senVars
  BY <1>0, <1>3 DEF Hold, senVars
<1> QED
  BY <1>1, <1>2, <1>3

(* A slot neither wakes a sensor nor silences it.                          *)
LEMMA SlotPresent ==
  ASSUME dev \in Device, NEW b, Slot(b)
  PROVE  /\ dev.mode \in {"off", "deaf"} => dev' = dev
         /\ dev.mode \notin {"off", "deaf"} => dev'.mode \notin {"off", "deaf"}
<1>1. CASE dev.mode \in {"romcmd", "funccmd"}
  <2>1. CASE dev.n < 7
    <3>1. dev' = [dev EXCEPT !.n = @ + 1, !.byte = dev.byte + b * 2^dev.n]
      BY <1>1, <2>1 DEF Slot
    <3>2. dev'.mode = dev.mode
      BY <3>1 DEF Device
    <3> QED
      BY <1>1, <3>2
  <2>2. CASE ~(dev.n < 7)
    <3>1. dev'.mode = AfterCommand(dev.byte + b * 2^dev.n)
      BY <1>1, <2>2, SMTT(20) DEF Slot
    <3>2. \A c : AfterCommand(c) \in {"rom", "funccmd", "spad", "idle"}
      BY DEF AfterCommand
    <3> QED
      BY <1>1, <3>1, <3>2
  <2> QED
    BY <2>1, <2>2
<1>2. CASE dev.mode \in {"rom", "spad"}
  BY <1>2, SendsBit
<1>3. CASE dev.mode \notin {"romcmd", "funccmd", "rom", "spad"}
  BY <1>3, SendsBit
<1> QED
  BY <1>1, <1>2, <1>3

(* The driver knows that a sensor is there.                                *)
Answered == timer /\ (seq_pos >= 2 \/ (Busy /\ cur_op \in {"WAIT_480", "DONE"}))

(* The driver goes on only with a sensor that is there; one that misses    *)
(* the commands sends nothing, which reads as ones.                        *)
Present ==
  /\ dev.mode = "deaf" => dev.out = 1 /\ "deaf" \in Faults
  /\ Answered => dev.mode # "off"

(* A reset that goes on.                                                   *)
LEMMA ResetPresent ==
  ASSUME Control, Bus, Present, OW_doit_reset
  PROVE  Present' /\ UNCHANGED <<spad, conv, converted>> /\ timer /\ seq_pos = 1
<1> USE DEF Bus, Types
<1>0. timer /\ op_type = "RESET" /\ seq_pos = 1
  <2>1. PICK op \in {"INIT", "WAIT_480_LOW", "WAIT_60_RESP", "WAIT_480", "DONE"} : At("RESET", op)
    BY DEF OW_doit_reset, reset_init, reset_low, reset_resp, reset_no_resp, reset_timeout,
      reset_wait, reset_done
  <2> QED
    BY <2>1, FoundAt
<1>1. CASE reset_low /\ ~(delay_count > 1)
  <2>1. /\ At("RESET", "WAIT_480_LOW") /\ Release /\ cur_op' = "WAIT_60_RESP"
        /\ UNCHANGED <<seq_pos, timer>>
    BY <1>1 DEF reset_low, Continue, drvVars, hwVars
  <2>2. Busy /\ cur_op = "WAIT_480_LOW"
    BY <2>1, FoundAt, SMTT(20)
  <2>3. low = 48
    BY <1>0, <1>1, <2>2, SMTT(20) DEF Line, Operation, ResetOp
  <2>4. Released(48)
    BY <2>1, <2>3 DEF Release
  <2>5. /\ \E m \in {"romcmd", "off", "deaf"} :
             dev' = [mode |-> m, n |-> 0, byte |-> 0, out |-> 1]
        /\ dev'.mode = "deaf" => "deaf" \in Faults
        /\ UNCHANGED <<spad, conv, converted>>
    BY <2>4, ReleasedAfter
  <2>6. ~Answered'
    BY <1>0, <2>1, SMTT(20) DEF Answered
  <2> QED
    BY <1>0, <2>5, <2>6, SMTT(20) DEF Present
<1>2. CASE ~(reset_low /\ ~(delay_count > 1))
  <2>1. UNCHANGED <<dev, spad, conv, converted>>
    <3>1. Hold \/ Pull
      BY <1>2 DEF OW_doit_reset, reset_init, reset_low, reset_resp, reset_no_resp, reset_timeout,
        reset_wait, reset_done
    <3> QED
      BY <3>1 DEF Hold, Pull, senVars
  <2>2. CASE reset_init \/ reset_low \/ reset_no_resp \/ reset_timeout
    <3>1. /\ seq_pos' = 1
          /\ cur_op' \in {"WAIT_480_LOW", "WAIT_60_RESP"} \/ timer' = FALSE
      BY <1>0, <2>2 DEF reset_init, reset_low, reset_no_resp, reset_timeout, Continue, drvVars,
        hw_timer_stop
    <3>2. ~Answered'
      BY <3>1, SMTT(20) DEF Answered
    <3> QED
      BY <1>0, <2>1, <3>2 DEF Present
  <2>3. CASE reset_resp
    <3>1. dev.mode # "off"
      BY <2>3 DEF reset_resp
    <3> QED
      BY <1>0, <2>1, <3>1 DEF Present
  <2>4. CASE reset_wait \/ reset_done
    <3>1. At("RESET", "WAIT_480") \/ At("RESET", "DONE")
      BY <2>4 DEF reset_wait, reset_done
    <3>2. Busy /\ cur_op \in {"WAIT_480", "DONE"}
      BY <3>1, FoundAt, SMTT(20)
    <3>3. dev.mode # "off"
      BY <1>0, <3>2 DEF Present, Answered
    <3> QED
      BY <1>0, <2>1, <3>3 DEF Present
  <2> QED
    BY <2>2, <2>3, <2>4 DEF OW_doit_reset
<1> QED
  BY <1>1, <1>2

(* Every step.                                                             *)
LEMMA StepPresent ==
  ASSUME Control, Deadlines, Bus, Present, [Next]_vars
  PROVE  Present'
<1>0. dev \in Device
  BY DEF Bus, Types, SensorTypes
<1>1. CASE OW_doit_reset
  BY <1>1, ResetPresent
<1>2. CASE OW_doit_write \/ OW_doit_read
  <2>1. /\ timer /\ seq_pos >= 2
        /\ dev' = dev \/ \E b : Slot(b)
    <3>1. CASE OW_doit_write
      BY <3>1, WriteSlot, SMTT(20)
    <3>2. CASE OW_doit_read
      BY <3>2, ReadSlotOnly, SMTT(20)
    <3> QED
      BY <1>2, <3>1, <3>2
  <2>2. dev.mode # "off"
    BY <2>1 DEF Present, Answered
  <2>3. CASE dev' = dev
    BY <2>2, <2>3 DEF Present
  <2>4. CASE \E b : Slot(b)
    BY <1>0, <2>2, <2>4, SlotPresent DEF Present
  <2> QED
    BY <2>1, <2>3, <2>4
<1>3. CASE read_uuid_done_cb \/ conv_t_done_cb \/ read_temp_done_cb
  <2>1. dev' = dev /\ timer' = FALSE
    BY <1>3 DEF read_uuid_done_cb, conv_t_done_cb, read_temp_done_cb, AtEnd, hw_timer_stop, senVars
  <2> QED
    BY <2>1 DEF Present, Answered
<1>4. CASE ow_task_init
  <2>1. dev' = dev /\ ~timer'
    BY <1>4 DEF ow_task_init, Control, senVars, hwVars
  <2> QED
    BY <2>1 DEF Present, Answered
<1>5. CASE OW_init_seq
  <2>1. dev' = dev /\ seq_state' = "TRANSITION" /\ seq_pos' = 1
    BY <1>5 DEF OW_init_seq, Control, senVars
  <2>2. ~Answered'
    BY <2>1, SMTT(20) DEF Answered, Busy
  <2> QED
    BY <2>1, <2>2 DEF Present
<1>6. CASE tempTask
  <2>1. dev' = dev /\ timer' = timer
    BY <1>6 DEF tempTask, hwVars
  <2>2. ~timer
    BY <1>6, IdleInTime DEF tempTask, RequestFindsIdle
  <2> QED
    BY <2>1, <2>2 DEF Present, Answered
<1>7. CASE ow_task_poll \/ Tick \/ UNCHANGED vars
  <2>1. UNCHANGED <<dev, timer, seq_pos, seq_state, cur_op>>
    BY <1>7 DEF ow_task_poll, Tick, vars, drvVars, opVars, hwVars, senVars
  <2> QED
    BY <2>1 DEF Present, Answered, Busy
<1> QED
  BY <1>1, <1>2, <1>3, <1>4, <1>5, <1>6, <1>7 DEF Next, OW_doit, Tasks

(* In every state.                                                         *)
LEMMA PresentInvariance == Spec => [](Control /\ Deadlines /\ Bus /\ Present)
<1>1. Init => Present
  BY SMTT(20) DEF Init, Present, Answered
<1>2. Control /\ Deadlines /\ Bus /\ Present /\ [Next]_vars => Present'
  BY StepPresent
<1> QED
  BY <1>1, <1>2, BusInvariance, PTL DEF Spec

(* The bytes of the sensor that the driver reads in sequence s.            *)
Source(s, i) ==
  IF dev.mode = "deaf" THEN 255
  ELSE IF s = "UUID_T" THEN IF i < 8 THEN Rom[i + 1] ELSE 255
  ELSE spad[i]

(* What it has read of them: whole bytes, the bits below bitMask, and the  *)
(* bit on the line.                                                        *)
Receiving(s) ==
  timer /\ seq = s /\ seq_pos = 4 /\ Busy =>
    /\ \A i \in 1 .. readCount : spad_buf[i] = Source(s, i)
    /\ data = Source(s, readCount + 1) % 2^bitMask
    /\ cur_op = "SAMPLE" => dev.out = Bit(Source(s, readCount + 1), bitMask)

Received(s) ==
  timer /\ seq = s /\ seq_pos = 5 => \A i \in 1 .. 9 : spad_buf[i] = Source(s, i)

(* They are bytes.                                                         *)
LEMMA SourceType ==
  ASSUME SensorTypes, NEW s, NEW i \in 1 .. 9
  PROVE  Source(s, i) \in Byte
<1>1. 255 \in Byte
  BY SMTT(20) DEF Byte
<1>2. i < 8 => i + 1 \in 1 .. 8
  BY SMTT(20)
<1>3. i < 8 => Rom[i + 1] \in Byte
  BY <1>2, ConstantsAssumption
<1>4. spad[i] \in Byte
  BY DEF SensorTypes
<1> QED
  BY <1>1, <1>3, <1>4 DEF Source

(* A byte of ones.                                                         *)
LEMMA OnesBit ==
  ASSUME NEW n \in 0 .. 7
  PROVE  Bit(255, n) = 1
<1>1. CASE n = 0
  <2>1. 2^n = 1
    BY <1>1, SMTT(20)
  <2> QED BY <2>1, SMTT(20) DEF Bit
<1>2. CASE n = 1
  <2>1. 2^n = 2
    BY <1>2, SMTT(20)
  <2> QED BY <2>1, SMTT(20) DEF Bit
<1>3. CASE n = 2
  <2>1. 2^n = 4
    BY <1>3, SMTT(20)
  <2> QED BY <2>1, SMTT(20) DEF Bit
<1>4. CASE n = 3
  <2>1. 2^n = 8
    BY <1>4, SMTT(20)
  <2> QED BY <2>1, SMTT(20) DEF Bit
<1>5. CASE n = 4
  <2>1. 2^n = 16
    BY <1>5, SMTT(20)
  <2> QED BY <2>1, SMTT(20) DEF Bit
<1>6. CASE n = 5
  <2>1. 2^n = 32
    BY <1>6, SMTT(20)
  <2> QED BY <2>1, SMTT(20) DEF Bit
<1>7. CASE n = 6
  <2>1. 2^n = 64
    BY <1>7, SMTT(20)
  <2> QED BY <2>1, SMTT(20) DEF Bit
<1>8. CASE n = 7
  <2>1. 2^n = 128
    BY <1>8, SMTT(20)
  <2> QED BY <2>1, SMTT(20) DEF Bit
<1> QED
  BY <1>1, <1>2, <1>3, <1>4, <1>5, <1>6, <1>7, <1>8, SMTT(20)

(* The bytes stay as they are while the sensor answers.                    *)
LEMMA SourceKept ==
  ASSUME dev \in Device, NEW s, NEW i, s = "UUID_T" \/ spad' = spad,
         dev' = dev \/ \E b : Slot(b)
  PROVE  Source(s, i)' = Source(s, i)
<1>1. dev'.mode = "deaf" <=> dev.mode = "deaf"
  BY SlotPresent
<1> QED
  BY <1>1 DEF Source

(* In a slot the sensor sends the bit that is next: bit m of byte r + 1.   *)
LEMMA SlotSends ==
  ASSUME SensorTypes, InStep, Present, timer, seq_pos = 4, NEW s \in {"UUID_T", "READ_T"}, seq = s,
         NEW r \in 0 .. 8, NEW m \in 0 .. 7, Slots = 8 * r + m, Slot(1)
  PROVE  dev'.out = Bit(Source(s, r + 1), m)
<1>0. dev \in Device
  BY DEF SensorTypes
<1>1. dev.mode # "off"
  BY SMTT(20) DEF Present, Answered
<1>2. CASE dev.mode = "deaf"
  <2>1. dev' = dev /\ dev.out = 1
    BY <1>0, <1>2, SlotPresent DEF Present
  <2>2. Source(s, r + 1) = 255
    BY <1>2 DEF Source
  <2> QED
    BY <2>1, <2>2, OnesBit, SMTT(20)
<1>3. CASE Awake /\ s = "UUID_T"
  <2>1. dev.mode = "rom" /\ dev.n = 8 * (r + 1) + m
    BY <1>3, SMTT(20) DEF InStep, AtRead
  <2>2. dev'.out = OutBit
    BY <1>0, <2>1, SendsBit
  <2>3. OutBit = IF dev.n < 64 THEN Bit(Rom[dev.n \div 8 + 1], dev.n % 8) ELSE 1
    <3>1. OutBit = IF dev.n < 8 * Len(Rom) THEN Bit(Rom[dev.n \div 8 + 1], dev.n % 8) ELSE 1
      BY <2>1 DEF OutBit
    <3>2. 8 * Len(Rom) = 64
      BY BytesType, SMTT(20)
    <3> QED
      BY <3>1, <3>2
  <2>4. CASE r < 7
    <3>1. dev.n < 64 /\ dev.n \div 8 + 1 = (r + 1) + 1 /\ dev.n % 8 = m
      BY <2>1, <2>4, SMTT(20)
    <3>2. Source(s, r + 1) = Rom[(r + 1) + 1]
      BY <1>3, <2>1, <2>4, SMTT(20) DEF Source
    <3> QED
      BY <2>2, <2>3, <3>1, <3>2
  <2>5. CASE ~(r < 7)
    <3>1. ~(dev.n < 64)
      BY <2>1, <2>5, SMTT(20)
    <3>2. Source(s, r + 1) = 255
      BY <1>3, <2>1, <2>5, SMTT(20) DEF Source
    <3> QED
      BY <2>2, <2>3, <3>1, <3>2, OnesBit, SMTT(20)
  <2> QED
    BY <2>4, <2>5
<1>4. CASE Awake /\ s = "READ_T"
  <2>1. dev.mode = "spad" /\ dev.n = 8 * r + m
    BY <1>4 DEF InStep, AtRead
  <2>2. dev'.out = OutBit
    BY <1>0, <2>1, SendsBit
  <2>3. OutBit = IF dev.n < 72 THEN Bit(spad[dev.n \div 8 + 1], dev.n % 8) ELSE 1
    <3>1. OutBit = IF dev.n < 8 * Len(spad) THEN Bit(spad[dev.n \div 8 + 1], dev.n % 8) ELSE 1
      BY <2>1 DEF OutBit
    <3>2. 8 * Len(spad) = 72
      <4>1. Len(spad) = 9
        BY BytesType DEF SensorTypes
      <4> QED
        BY <4>1, SMTT(20)
    <3> QED
      BY <3>1, <3>2
  <2>4. dev.n < 72 /\ dev.n \div 8 + 1 = r + 1 /\ dev.n % 8 = m
    BY <2>1, SMTT(20)
  <2>5. Source(s, r + 1) = spad[r + 1]
    BY <1>4, <2>1 DEF Source
  <2> QED
    BY <2>2, <2>3, <2>4, <2>5
<1> QED
  BY <1>1, <1>2, <1>3, <1>4 DEF Awake

(* A reset or a write ends before the reading begins.                      *)
LEMMA BeforeReading ==
  ASSUME Control, Bus, OW_doit_reset \/ OW_doit_write
  PROVE  ~(timer' /\ seq_pos' = 4 /\ Busy') /\ seq_pos' # 5
<1> USE DEF Bus, Types
<1>1. PICK t \in {"RESET", "WRITE"}, op \in {"INIT"} \cup Steps : At(t, op)
  BY DEF OW_doit_reset, reset_init, reset_low, reset_resp, reset_no_resp, reset_timeout,
    reset_wait, reset_done, OW_doit_write, write_init, write_line_low, write_first, wait_first,
    write_finally, Steps
<1>2. seq_pos \in {1, 2, 3} /\ timer /\ op_type = t
  BY <1>1, FoundAt
<1>3. OpDone \/ seq_pos' = seq_pos
  BY DEF OW_doit_reset, reset_init, reset_low, reset_resp, reset_no_resp, reset_timeout,
    reset_wait, reset_done, OW_doit_write, write_init, write_line_low, LineLow, write_first,
    wait_first, write_finally, Continue, drvVars
<1>4. CASE OpDone
  <2>1. ~Busy' /\ seq_pos' = seq_pos + 1
    BY <1>1, <1>2, <1>4, OpDoneIs
  <2> QED
    BY <1>2, <2>1, SMTT(20)
<1>5. CASE seq_pos' = seq_pos
  BY <1>2, <1>5, SMTT(20)
<1> QED
  BY <1>3, <1>4, <1>5

(* The driver takes each bit for what the sensor sends.                    *)
LEMMA ReadReceives ==
  ASSUME Control, Bus, Present, "noise" \notin Faults, NEW s \in {"UUID_T", "READ_T"}, seq = s,
         Receiving(s), OW_doit_read
  PROVE  Receiving(s)' /\ Received(s)'
<1> USE DEF Bus, Types
<1>0. /\ timer /\ op_type = "READ" /\ seq \in Seqs /\ seq_pos = 4 /\ spad' = spad
      /\ dev \in Device
  <2>1. PICK op \in {"INIT", "SAMPLE", "WAIT_50"} : At("READ", op)
    BY DEF OW_doit_read, read_init, read_sample, read_wait, read_next_bit, read_next_byte
  <2> QED
    BY <2>1, FoundAt, ReadSlotOnly DEF SensorTypes
<1>k. \A i : Source(s, i)' = Source(s, i)
  <2>1. dev' = dev \/ \E b : Slot(b)
    BY ReadSlotOnly
  <2> QED
    BY <1>0, <2>1, SourceKept
<1>p. ASSUME Pulse, NEW r \in 0 .. 8, NEW m \in 0 .. 7, Slots = 8 * r + m
      PROVE  dev'.out = Bit(Source(s, r + 1), m)
  <2>1. Slot(1)
    BY <1>p, ReleasedAfter DEF Pulse
  <2> QED
    BY <1>0, <1>p, <2>1, SlotSends
(* The new byte is the empty one. *)
<1>e. ASSUME NEW r \in 0 .. 8, readCount' = r, bitMask' = 0, data' = 0,
             \A i \in 1 .. r : spad_buf'[i] = Source(s, i), Pulse, Slots = 8 * r,
             UNCHANGED seq_pos
      PROVE  Receiving(s)' /\ Received(s)'
  <2>1. dev'.out = Bit(Source(s, r + 1), 0)
    BY <1>e, <1>p, SMTT(20)
  <2>2. Source(s, r + 1) % 2^0 = 0
    <3>1. r + 1 \in 1 .. 9
      BY <1>e, SMTT(20)
    <3>2. Source(s, r + 1) \in Byte
      BY <3>1, SourceType
    <3> QED
      BY <3>2, NoBitAllBits
  <2>3. seq_pos' # 5
    BY <1>0, <1>e, SMTT(20)
  <2> QED
    BY <1>k, <1>e, <2>1, <2>2, <2>3 DEF Receiving, Received
<1>1. CASE read_init
  <2>1. /\ At("READ", "INIT") /\ Pulse /\ seq_pos' = seq_pos
        /\ bitMask' = 0 /\ data' = 0 /\ readCount' = 0
    BY <1>1 DEF read_init, Continue, drvVars
  <2>2. Slots = 0
    BY <2>1, FoundAt DEF Slots
  <2>3. 0 \in 0 .. 8 /\ Slots = 8 * 0 /\ \A i \in 1 .. 0 : spad_buf'[i] = Source(s, i)
    BY <2>2, SMTT(20)
  <2> QED
    BY <1>e, <2>1, <2>3
<1>2. CASE read_sample
  <2>1. /\ At("READ", "SAMPLE") /\ cur_op' = "WAIT_50" /\ bitMask' = bitMask + 1
        /\ data' = data + dev.out * 2^bitMask /\ UNCHANGED <<seq_pos, readCount, spad_buf>>
    BY <1>2 DEF read_sample, Continue, drvVars, readVars, May
  <2>2. Busy /\ cur_op = "SAMPLE"
    BY <2>1, FoundAt, SMTT(20)
  <2>3. bitMask \in 0 .. 7 /\ readCount \in 0 .. 8
    BY <1>0, <2>2 DEF Operation, ReadOp
  <2>4. Source(s, readCount + 1) \in Byte
    <3>1. readCount + 1 \in 1 .. 9
      BY <2>3, SMTT(20)
    <3> QED
      BY <3>1, SourceType
  <2>5. /\ data = Source(s, readCount + 1) % 2^bitMask
        /\ dev.out = Bit(Source(s, readCount + 1), bitMask)
        /\ \A i \in 1 .. readCount : spad_buf[i] = Source(s, i)
    BY <1>0, <2>2 DEF Receiving
  <2>6. data' = Source(s, readCount + 1) % 2^(bitMask + 1)
    BY <2>1, <2>3, <2>4, <2>5, BitByBit
  <2>7. seq_pos' # 5 /\ cur_op' # "SAMPLE"
    BY <1>0, <2>1, SMTT(20)
  <2> QED
    BY <1>k, <2>1, <2>5, <2>6, <2>7 DEF Receiving, Received
<1>3. CASE read_wait
  <2>1. /\ At("READ", "WAIT_50") /\ cur_op' = "WAIT_50"
        /\ UNCHANGED <<seq_pos, readCount, spad_buf, bitMask, data>>
    BY <1>3 DEF read_wait, Continue, drvVars, readVars, bitVars
  <2>2. Busy
    BY <2>1, FoundAt, SMTT(20)
  <2>3. seq_pos' # 5 /\ cur_op' # "SAMPLE"
    BY <1>0, <2>1, SMTT(20)
  <2> QED
    BY <1>0, <1>k, <2>1, <2>2, <2>3 DEF Receiving, Received
<1>4. CASE read_next_bit \/ read_next_byte
  <2>1. At("READ", "WAIT_50")
    BY <1>4 DEF read_next_bit, read_next_byte
  <2>2. Busy /\ cur_op = "WAIT_50"
    BY <2>1, FoundAt, SMTT(20)
  <2>3. /\ bitMask \in 1 .. 8 /\ readCount \in 0 .. 8 /\ readsLeft = 9 - readCount
    BY <1>0, <2>2 DEF Operation, ReadOp
  <2>4. Slots = 8 * readCount + bitMask
    BY <2>2, <2>3, SMTT(20) DEF Slots
  <2>5. /\ data = Source(s, readCount + 1) % 2^bitMask
        /\ \A i \in 1 .. readCount : spad_buf[i] = Source(s, i)
    BY <1>0, <2>2 DEF Receiving
  <2>6. CASE read_next_bit
    <3>1. /\ Pulse /\ bitMask < 8 /\ UNCHANGED <<seq_pos, readCount, spad_buf, bitMask, data>>
      BY <2>6 DEF read_next_bit, Continue, drvVars, readVars, bitVars
    <3>2. bitMask \in 0 .. 7
      BY <2>3, <3>1, SMTT(20)
    <3>3. dev'.out = Bit(Source(s, readCount + 1), bitMask)
      BY <1>p, <2>3, <2>4, <3>1, <3>2
    <3>4. seq_pos' # 5
      BY <1>0, <3>1, SMTT(20)
    <3> QED
      BY <1>k, <2>5, <3>1, <3>3, <3>4 DEF Receiving, Received
  <2>7. CASE read_next_byte
    <3>1. /\ bitMask = 8 /\ spad_buf' = [spad_buf EXCEPT ![readCount + 1] = data]
          /\ readCount' = readCount + 1 /\ bitMask' = 0 /\ data' = 0
          /\ IF readsLeft = 1 THEN OpDone ELSE Pulse /\ seq_pos' = seq_pos
      BY <2>7 DEF read_next_byte, Continue, drvVars
    <3>2. readCount + 1 \in 1 .. 9
      BY <2>3, SMTT(20)
    <3>3. data = Source(s, readCount + 1)
      <4>1. Source(s, readCount + 1) \in Byte
        BY <3>2, SourceType
      <4> QED
        BY <2>5, <3>1, <4>1, NoBitAllBits
    <3>4. \A i \in 1 .. readCount + 1 : spad_buf'[i] = Source(s, i)
      <4>1. \A i \in 1 .. readCount + 1 :
              i \in 1 .. 9 /\ (i = readCount + 1 \/ i \in 1 .. readCount)
        BY <2>3, SMTT(20)
      <4>2. spad_buf \in [1 .. 9 -> Byte]
        BY DEF DataTypes
      <4> QED
        BY <2>5, <3>1, <3>3, <4>1, <4>2
    <3>5. CASE readsLeft = 1
      <4>1. seq_pos' = seq_pos + 1
        BY <3>1, <3>5 DEF OpDone
      <4>2. seq_pos' # 4 /\ readCount + 1 = 9
        BY <1>0, <2>3, <3>5, <4>1, SMTT(20)
      <4> QED
        BY <1>k, <3>4, <4>2 DEF Receiving, Received
    <3>6. CASE readsLeft # 1
      <4>1. readCount + 1 \in 0 .. 8 /\ Slots = 8 * (readCount + 1)
        BY <2>3, <2>4, <3>1, <3>6, SMTT(20)
      <4>2. Pulse /\ seq_pos' = seq_pos
        BY <3>1, <3>6
      <4> QED
        BY <1>e, <3>1, <3>4, <4>1, <4>2
    <3> QED
      BY <3>5, <3>6
  <2> QED
    BY <1>4, <2>6, <2>7
<1> QED
  BY <1>1, <1>2, <1>3, <1>4 DEF OW_doit_read

(* The scratchpad is not overwritten while it is read.                     *)
Still(s) == timer /\ seq = s /\ s = "READ_T" => conv = 0

(* Every step keeps what has been received.                                *)
LEMMA StepReceived ==
  ASSUME Control, Deadlines, Bus, Present, "noise" \notin Faults, NEW s \in {"UUID_T", "READ_T"},
         Still(s), Receiving(s), Received(s), [Next]_vars
  PROVE  Receiving(s)' /\ Received(s)'
<1>1. CASE OW_doit_reset \/ OW_doit_write
  BY <1>1, BeforeReading DEF Receiving, Received
<1>2. CASE OW_doit_read
  <2>1. CASE seq = s
    BY <1>2, <2>1, ReadReceives
  <2>2. CASE seq # s
    <3>1. seq' = seq
      BY <1>2 DEF OW_doit_read, read_init, read_sample, read_wait, read_next_bit, read_next_byte,
        Continue, OpDone, drvVars
    <3> QED
      BY <2>2, <3>1 DEF Receiving, Received
  <2> QED
    BY <2>1, <2>2
<1>3. CASE read_uuid_done_cb \/ conv_t_done_cb \/ read_temp_done_cb
  <2>1. timer' = FALSE
    BY <1>3 DEF read_uuid_done_cb, conv_t_done_cb, read_temp_done_cb, AtEnd, hw_timer_stop
  <2> QED
    BY <2>1 DEF Receiving, Received
<1>4. CASE ow_task_init
  <2>1. ~timer'
    BY <1>4 DEF ow_task_init, Control, hwVars
  <2> QED
    BY <2>1 DEF Receiving, Received
<1>5. CASE OW_init_seq
  <2>1. seq_pos' = 1
    BY <1>5 DEF OW_init_seq, Control
  <2> QED
    BY <2>1, SMTT(20) DEF Receiving, Received
<1>6. CASE tempTask
  <2>1. ~timer /\ timer' = timer
    BY <1>6, IdleInTime DEF tempTask, RequestFindsIdle, hwVars
  <2> QED
    BY <2>1 DEF Receiving, Received
<1>7. CASE ow_task_poll \/ Tick \/ UNCHANGED vars
  <2>1. /\ UNCHANGED <<dev, timer, seq, seq_pos, seq_state, cur_op, readCount, spad_buf, bitMask,
                       data>>
        /\ conv # 1 => UNCHANGED spad
    BY <1>7 DEF ow_task_poll, Tick, vars, drvVars, opVars, hwVars, senVars, readVars, bitVars
  <2>2. ASSUME timer, seq = s, NEW i PROVE Source(s, i)' = Source(s, i)
    BY <2>1, <2>2, SMTT(20) DEF Still, Source
  <2> QED
    BY <2>1, <2>2 DEF Receiving, Received, Busy
<1> QED
  BY <1>1, <1>2, <1>3, <1>4, <1>5, <1>6, <1>7 DEF Next, OW_doit, Tasks

(* Of the ROM nothing is ever overwritten.                                 *)
LEMMA RomReceived ==
  "noise" \notin Faults =>
    (Spec => [](Control /\ Deadlines /\ Bus /\ Present /\ Receiving("UUID_T")
                /\ Received("UUID_T")))
<1> SUFFICES ASSUME "noise" \notin Faults
             PROVE  Spec => [](Control /\ Deadlines /\ Bus /\ Present /\ Receiving("UUID_T")
                               /\ Received("UUID_T"))
  OBVIOUS
<1>1. Init => Receiving("UUID_T") /\ Received("UUID_T")
  BY DEF Init, Receiving, Received
<1>2. Control /\ Deadlines /\ Bus /\ Present /\ Receiving("UUID_T")
        /\ Received("UUID_T") /\ [Next]_vars => Receiving("UUID_T")' /\ Received("UUID_T")'
  BY StepReceived DEF Still
<1> QED
  BY <1>1, <1>2, PresentInvariance, PTL DEF Spec

(* The callback accepts the ROM, or nothing.                               *)
LEMMA StepUuid ==
  ASSUME Rom[1] = DS_FAMILY_CODE, Control, Bus, Present, Received("UUID_T"), UuidIsRom, [Next]_vars
  PROVE  UuidIsRom'
<1>1. CASE read_uuid_done_cb
  <2>1. /\ timer /\ op_type = "END" /\ seq = "UUID_T"
        /\ UUID' = [i \in 1 .. 8 |-> IF i = 1 THEN DS_FAMILY_CODE ELSE spad_buf[i - 1]]
        /\ have_uuid' = (\E i \in 2 .. 8 : UUID'[i] \notin {0, 255})
    BY <1>1 DEF read_uuid_done_cb, AtEnd
  <2>2. seq_pos = 5
    BY <2>1, SequenceAt DEF Control, Seqs
  <2>3. \A i \in 1 .. 9 : spad_buf[i] = Source("UUID_T", i)
    BY <2>1, <2>2 DEF Received
  <2>4. \A i \in 2 .. 8 : UUID'[i] = IF dev.mode = "deaf" THEN 255 ELSE Rom[i]
    <3> SUFFICES ASSUME NEW i \in 2 .. 8
                 PROVE  UUID'[i] = IF dev.mode = "deaf" THEN 255 ELSE Rom[i]
      OBVIOUS
    <3>1. i \in 1 .. 8 /\ i # 1 /\ i - 1 \in 1 .. 9 /\ i - 1 < 8 /\ (i - 1) + 1 = i
      BY SMTT(20)
    <3>2. UUID'[i] = spad_buf[i - 1]
      BY <2>1, <3>1
    <3>3. Source("UUID_T", i - 1) = IF dev.mode = "deaf" THEN 255 ELSE Rom[i]
      BY <3>1 DEF Source
    <3> QED
      BY <2>3, <3>1, <3>2, <3>3, SMTT(20)
  <2>5. CASE dev.mode = "deaf"
    <3>1. ~have_uuid'
      BY <2>1, <2>4, <2>5, SMTT(20)
    <3> QED
      BY <3>1 DEF UuidIsRom
  <2>6. CASE dev.mode # "deaf"
    <3>1. \A i \in 1 .. 8 : UUID'[i] = Rom[i]
      <4>1. UUID'[1] = Rom[1]
        BY <2>1, SMTT(20)
      <4>2. \A i \in 1 .. 8 : i = 1 \/ i \in 2 .. 8
        BY SMTT(20)
      <4> QED
        BY <2>4, <2>6, <4>1, <4>2
    <3>2. UUID' = [i \in 1 .. 8 |-> UUID'[i]] /\ Rom = [i \in 1 .. 8 |-> Rom[i]]
      BY <2>1, ConstantsAssumption
    <3>3. UUID' = Rom
      BY <3>1, <3>2
    <3> QED
      BY <3>3 DEF UuidIsRom
  <2> QED
    BY <2>5, <2>6
<1>2. CASE ~read_uuid_done_cb
  <2>1. UNCHANGED <<UUID, have_uuid>>
    <3>1. CASE OW_doit_reset
      BY <3>1 DEF OW_doit_reset, reset_init, reset_low, reset_resp, reset_no_resp, reset_timeout,
        reset_wait, reset_done, Continue, OpDone, outVars
    <3>2. CASE OW_doit_read
      BY <3>2 DEF OW_doit_read, read_init, read_sample, read_wait, read_next_bit, read_next_byte,
        Continue, OpDone, outVars
    <3>3. CASE OW_doit_write
      BY <3>3 DEF OW_doit_write, write_init, write_line_low, LineLow, write_first, wait_first,
        write_finally, Continue, OpDone, outVars
    <3>4. CASE conv_t_done_cb \/ read_temp_done_cb
      BY <3>4 DEF conv_t_done_cb, read_temp_done_cb, outVars
    <3>5. CASE Tasks \/ Tick \/ UNCHANGED vars
      BY <3>5 DEF Tasks, ow_task_init, ow_task_poll, OW_init_seq, tempTask, Tick, vars, outVars
    <3> QED
      BY <1>2, <3>1, <3>2, <3>3, <3>4, <3>5 DEF Next, OW_doit
  <2> QED
    BY <2>1 DEF UuidIsRom
<1> QED
  BY <1>1, <1>2

(* An accepted UUID is the ROM of the sensor, whatever it is, as long as   *)
(* no bit is garbled and the family is the one the driver fills in: even   *)
(* if the sensor is away, or misses the commands, at any time.             *)
THEOREM AcceptedUuidIsRom ==
  "noise" \notin Faults /\ Rom[1] = DS_FAMILY_CODE => (Spec => []UuidIsRom)
<1> SUFFICES ASSUME "noise" \notin Faults, Rom[1] = DS_FAMILY_CODE PROVE Spec => []UuidIsRom
  OBVIOUS
<1>1. Init => UuidIsRom
  BY DEF Init, UuidIsRom
<1>2. Control /\ Bus /\ Present /\ Received("UUID_T") /\ UuidIsRom /\ [Next]_vars => UuidIsRom'
  BY StepUuid
<1>3. Spec => [](Control /\ Deadlines /\ Bus /\ Present /\ Receiving("UUID_T")
                 /\ Received("UUID_T"))
  BY RomReceived
<1> QED
  BY <1>1, <1>2, <1>3, PTL DEF Spec

-----------------------------------------------------------------------------
(* Readings are fresh.                                                     *)

(* A scratchpad is read only after a conversion of this request, which is  *)
(* over by then.                                                           *)
Fresh ==
  /\ starting = "READ_T" => converted /\ conv <= ow_wait
  /\ seq_state = "INIT" /\ ow_task_arg = "READ_T" => converted
  /\ timer /\ seq = "READ_T" => converted /\ conv = 0

(* Reading the scratchpad starts no conversion.                            *)
LEMMA ReadingConvertsNothing ==
  ASSUME Control, Bus, Present, OW_doit, seq = "READ_T"
  PROVE  UNCHANGED <<conv, converted>>
<1> USE DEF Bus, Types
<1>0. dev \in Device
  BY DEF SensorTypes
<1>1. CASE OW_doit_reset
  BY <1>1, ResetPresent
<1>2. CASE OW_doit_write
  <2>1. timer /\ seq_pos \in {2, 3}
    BY <1>2, WriteSlot
  <2>2. CASE Sent \in 0 .. 7 /\ Slot(Bit(Arg, Sent))
    <3>1. CASE ~Awake
      BY <1>0, <2>2, <3>1, SendsBit DEF Awake
    <3>2. CASE Awake
      <4>1. /\ dev.mode = IF seq_pos = 2 THEN "romcmd" ELSE "funccmd"
            /\ dev.n = Sent /\ dev.byte = Arg % 2^Sent
        BY <2>1, <2>2, <3>2, SMTT(20) DEF InStep, AtRomCommand, AtCommand, Hears
      <4>2. Arg \in Byte /\ (seq_pos = 3 => Arg # 68)
        BY <2>1, CommandIs, SMTT(20) DEF Seqs
      <4>3. CASE dev.n < 7
        BY <1>0, <2>2, <4>1, <4>2, <4>3, HearsBit
      <4>4. CASE dev.n = 7
        <5>1. ~(dev.mode = "funccmd" /\ Arg = 68)
          BY <2>1, <4>1, <4>2
        <5>2. /\ dev.n \in 0 .. 7 /\ dev.mode \in {"romcmd", "funccmd"}
              /\ dev.byte = Arg % 2^dev.n /\ Slot(Bit(Arg, dev.n))
          BY <2>2, <4>1
        <5> QED
          BY <1>0, <4>2, <4>4, <5>1, <5>2, HearsBit
      <4> QED
        <5>1. \A i \in 0 .. 7 : i < 7 \/ i = 7
          BY SMTT(20)
        <5> QED
          BY <2>2, <4>1, <4>3, <4>4, <5>1
    <3> QED
      BY <3>1, <3>2
  <2> QED
    BY <1>2, <2>2, WriteSlot
<1>3. CASE OW_doit_read
  <2>1. timer /\ seq_pos = 4
    BY <1>3, ReadSlotOnly
  <2>2. CASE Slot(1)
    <3>1. dev.mode \notin {"romcmd", "funccmd"}
      BY <2>1 DEF InStep, AtRead, Awake
    <3> QED
      BY <1>0, <2>2, <3>1, SendsBit
  <2> QED
    BY <1>3, <2>2, ReadSlotOnly
<1>4. CASE read_uuid_done_cb \/ conv_t_done_cb \/ read_temp_done_cb
  BY <1>4 DEF read_uuid_done_cb, conv_t_done_cb, read_temp_done_cb, AtEnd, senVars
<1> QED
  BY <1>1, <1>2, <1>3, <1>4 DEF OW_doit

(* Every step.                                                             *)
LEMMA StepFresh ==
  ASSUME Control, Deadlines, Bus, Present, "deaf" \notin Faults, ConvTicks <= Ticks(750), Fresh,
         [Next]_vars
  PROVE  Fresh'
<1>0. conv \in 0 .. ConvTicks /\ ow_wait \in Nat /\ ConvTicks \in Nat /\ Ticks(750) \in Nat
  BY TicksType, ConstantsAssumption, SMTT(20) DEF Bus, Types, SensorTypes, Deadlines
<1>i. ASSUME OW_doit PROVE timer /\ starting = None /\ starting' = None
  <2>1. timer /\ starting' = starting
    BY <1>i, InterruptCases DEF GoesOn, MovesOn, OpDone, reset_timeout, read_uuid_done_cb,
      conv_t_done_cb, read_temp_done_cb, At, AtEnd, taskVars
  <2> QED
    BY <2>1 DEF Control
<1>n. None # "READ_T"
  BY NoneAssumption DEF Seqs
<1>1. CASE conv_t_done_cb
  <2>1. /\ timer /\ op_type = "END" /\ seq = "CONV_T" /\ timer' = FALSE
        /\ UNCHANGED converted
    BY <1>1 DEF conv_t_done_cb, AtEnd, hw_timer_stop, senVars
  <2>2. seq_pos = 4
    BY <2>1, SequenceAt, SMTT(20) DEF Control, Seqs, ds_seqs
  <2>3. Awake
    BY <2>1, <2>2, SMTT(20) DEF Present, Answered, Awake
  <2>4. converted
    BY <2>1, <2>2, <2>3 DEF Bus, InStep, AtRead, Converts
  <2> QED
    BY <1>1, <1>i, <1>n, <2>1, <2>4 DEF Fresh, OW_doit
<1>2. CASE OW_doit /\ ~conv_t_done_cb
  <2>1. /\ timer' => seq' = seq
        /\ seq_state' = "INIT" => ow_task_arg' # "READ_T"
    BY <1>2, InterruptCases DEF GoesOn, MovesOn, OpDone, reset_timeout, read_uuid_done_cb,
      read_temp_done_cb, hw_timer_stop, AtEnd, drvVars
  <2>2. timer' /\ seq' = "READ_T" => converted' /\ conv' = 0
    BY <1>2, <1>i, <2>1, ReadingConvertsNothing DEF Fresh
  <2> QED
    BY <1>2, <1>i, <1>n, <2>1, <2>2 DEF Fresh
<1>3. CASE ow_task_init
  <2>1. /\ seq_state = "INIT" /\ starting' = ow_task_arg /\ ow_task_arg \in Seqs
        /\ ow_wait' = StartDelay[ow_task_arg]
        /\ UNCHANGED <<seq, seq_state, ow_task_arg, timer, conv, converted>>
    BY <1>3 DEF ow_task_init, hwVars, senVars
  <2>2. StartDelay["READ_T"] = Ticks(750)
    BY DEF StartDelay
  <2>3. starting' = "READ_T" => conv' <= ow_wait'
    BY <1>0, <2>1, <2>2, SMTT(20)
  <2> QED
    BY <2>1, <2>3 DEF Fresh
<1>4. CASE ow_task_poll
  <2>1. /\ UNCHANGED <<seq, seq_state, ow_task_arg, timer, conv, converted, starting>>
        /\ starting = None
    BY <1>4 DEF ow_task_poll, hwVars, senVars, drvVars, opVars
  <2> QED
    BY <1>n, <2>1 DEF Fresh
<1>5. CASE OW_init_seq
  <2>1. /\ seq' = starting /\ seq_state' = "TRANSITION" /\ starting' = None /\ ow_wait = 0
        /\ UNCHANGED <<conv, converted>>
    BY <1>5 DEF OW_init_seq, OwTaskRuns, senVars
  <2>2. starting = "READ_T" => converted /\ conv = 0
    BY <1>0, <2>1, SMTT(20) DEF Fresh
  <2> QED
    BY <1>n, <2>1, <2>2 DEF Fresh
<1>6. CASE tempTask
  <2>1. ~timer /\ timer' = timer /\ starting = None /\ starting' = starting
        /\ seq_state # "INIT"
    BY <1>6, IdleInTime DEF tempTask, RequestFindsIdle, hwVars
  <2>2. seq_state' = "INIT" => ow_task_arg' # "READ_T"
    BY <1>6, <2>1 DEF tempTask, OW_request_new_temp
  <2> QED
    BY <1>n, <2>1, <2>2 DEF Fresh
<1>7. CASE Tick
  <2>1. /\ ow_wait > 0 /\ ow_wait' = ow_wait - 1
        /\ conv' = IF conv = 0 THEN 0 ELSE conv - 1
        /\ UNCHANGED <<seq, seq_state, ow_task_arg, timer, converted, starting>>
    BY <1>7 DEF Tick, hwVars, drvVars, opVars
  <2>2. (conv <= ow_wait => conv' <= ow_wait') /\ (conv = 0 => conv' = 0)
    BY <1>0, <2>1, SMTT(20)
  <2> QED
    BY <2>1, <2>2 DEF Fresh
<1>8. CASE UNCHANGED vars
  BY <1>8 DEF vars, drvVars, opVars, hwVars, taskVars, senVars, Fresh
<1> QED
  BY <1>1, <1>2, <1>3, <1>4, <1>5, <1>6, <1>7, <1>8 DEF Next, Tasks

(* Only the callback of a reading hands a temperature over.                *)
LEMMA PublishesLast ==
  ASSUME [Next]_vars, prev_temp' # prev_temp
  PROVE  /\ timer /\ op_type = "END" /\ seq = "READ_T" /\ prev_temp' = Temperature(spad_buf)
<1>1. CASE OW_doit_reset
  BY <1>1 DEF OW_doit_reset, reset_init, reset_low, reset_resp, reset_no_resp, reset_timeout,
    reset_wait, reset_done, Continue, OpDone, outVars
<1>2. CASE OW_doit_read
  BY <1>2 DEF OW_doit_read, read_init, read_sample, read_wait, read_next_bit, read_next_byte,
    Continue, OpDone, outVars
<1>3. CASE OW_doit_write
  BY <1>3 DEF OW_doit_write, write_init, write_line_low, LineLow, write_first, wait_first,
    write_finally, Continue, OpDone, outVars
<1>4. CASE read_uuid_done_cb \/ conv_t_done_cb
  BY <1>4 DEF read_uuid_done_cb, conv_t_done_cb, outVars
<1>5. CASE read_temp_done_cb
  BY <1>5 DEF read_temp_done_cb, AtEnd, OW_queue_temperature
<1>6. CASE Tasks \/ Tick \/ UNCHANGED vars
  BY <1>6 DEF Tasks, ow_task_init, ow_task_poll, OW_init_seq, tempTask, Tick, vars, outVars
<1> QED
  BY <1>1, <1>2, <1>3, <1>4, <1>5, <1>6 DEF Next, OW_doit

(* A temperature that is handed to the publisher is one the sensor         *)
(* measured in a conversion of this request that is over, for every ROM    *)
(* and every reading, also if the sensor may be away at any time: 750 ms   *)
(* are enough for the conversion.  (A sensor that answers the reset and    *)
(* then misses the conversion command, or noise, are left to TLC.)         *)
THEOREM PublishedIsFresh ==
  "noise" \notin Faults /\ "deaf" \notin Faults /\ ConvTicks <= Ticks(750) =>
    (Spec => PublishedFresh)
<1> SUFFICES ASSUME "noise" \notin Faults, "deaf" \notin Faults, ConvTicks <= Ticks(750)
             PROVE  Spec => PublishedFresh
  OBVIOUS
<1>1. Init => Fresh /\ Receiving("READ_T") /\ Received("READ_T")
  <2>1. None # "READ_T"
    BY NoneAssumption DEF Seqs
  <2> QED
    BY <2>1 DEF Init, Fresh, Receiving, Received
<1>2. Control /\ Deadlines /\ Bus /\ Present /\ Fresh /\ [Next]_vars => Fresh'
  BY StepFresh
<1>3. Control /\ Deadlines /\ Bus /\ Present /\ Fresh /\ Receiving("READ_T") /\ Received("READ_T")
        /\ [Next]_vars => Receiving("READ_T")' /\ Received("READ_T")'
  BY StepReceived DEF Fresh, Still
<1>4. Control /\ Bus /\ Present /\ Fresh /\ Received("READ_T") /\ [Next]_vars =>
        [prev_temp' # prev_temp =>
           /\ converted /\ conv = 0
           /\ prev_temp' = Temperature(spad)]_vars
  <2> SUFFICES ASSUME Control, Present, Fresh, Received("READ_T"), [Next]_vars,
                      prev_temp' # prev_temp
               PROVE  converted /\ conv = 0 /\ prev_temp' = Temperature(spad)
    OBVIOUS
  <2>1. timer /\ op_type = "END" /\ seq = "READ_T" /\ prev_temp' = Temperature(spad_buf)
    BY PublishesLast
  <2>2. seq_pos = 5 /\ dev.mode # "deaf"
    BY <2>1, SequenceAt, SMTT(20) DEF Control, Seqs, Present
  <2>3. \A i \in 1 .. 9 : spad_buf[i] = spad[i]
    BY <2>1, <2>2, SMTT(20) DEF Received, Source
  <2>4. Temperature(spad_buf) = Temperature(spad)
    BY <2>3, SMTT(20) DEF Temperature
  <2> QED
    BY <2>1, <2>4 DEF Fresh
<1> QED
  BY <1>1, <1>2, <1>3, <1>4, PresentInvariance, PTL DEF Spec, PublishedFresh
=============================================================================
