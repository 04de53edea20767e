------------------------------- MODULE Queue --------------------------------
(***************************************************************************)
(* A FreeRTOS queue (FreeRTOS/Source/queue.c) and the part of the kernel   *)
(* that blocks and wakes the tasks that use it (tasks.c): event lists, the *)
(* delayed lists and the tick count that wraps, the suspended scheduler    *)
(* with its pending ready list and pended ticks.                           *)
(*                                                                         *)
(* One step is one critical section, or one stretch of code that runs with *)
(* the scheduler suspended; interrupts come between any two.  While the    *)
(* scheduler is suspended only the task that suspended it runs; otherwise  *)
(* any ready task may take the next step, whatever its priority: this      *)
(* allows every order that preemption and time slicing can produce.        *)
(* Priorities order the event lists.                                       *)
(*                                                                         *)
(* The storage is a ring of whole items.  xNumOfOverflows is only compared *)
(* with the value at the start of a call: wrapped is whether it differs.   *)
(***************************************************************************)
EXTENDS Integers, Sequences, FiniteSets

CONSTANTS
  Tasks,
  Prio,          \* uxPriority
  Items,
  Length,        \* uxLength
  TickMod,       \* 2^32: the number of values of TickType_t
  Waits,         \* block times the tasks use
  Calls,         \* the calls the tasks make
  MaxLock,       \* interrupts that use the queue during one lock
  MaxPended,     \* ticks during one suspension of the scheduler
  None

MaxDelay == TickMod - 1           \* portMAX_DELAY
UNLOCKED == -1                    \* queueUNLOCKED
UNMODIFIED == 0                   \* queueLOCKED_UNMODIFIED

Sends == {"send", "sendToFront"}
CallNames == Sends \cup {"receive", "peek", "reset"}

ASSUME ConstantsAssumption ==
  /\ Prio \in [Tasks -> Nat]
  /\ Length \in Nat \ {0}
  /\ TickMod \in Nat /\ TickMod > 1
  /\ Waits \subseteq 0 .. MaxDelay
  /\ Calls \subseteq CallNames
  /\ MaxLock \in Nat
  /\ MaxPended \in Nat /\ MaxPended < TickMod  \* uxPendedTicks is as wide
  /\ IsFiniteSet(Tasks)
  /\ None \notin Tasks \cup CallNames /\ Items # {}

VARIABLES
  store, pcWriteTo, pcReadFrom, uxMessagesWaiting,
  cRxLock, cTxLock,
  xTasksWaitingToSend, xTasksWaitingToReceive,
  got,                   \* the item last copied out
  xTickCount, xNextTaskUnblockTime,
  list,                  \* the state list each task is in
  wake,                  \* the value of its xStateListItem
  xPendingReadyList,
  suspender,             \* the task that suspended the scheduler
  uxPendedTicks,
  pc,                    \* where each task is in its call
  call,                  \* "send", "receive", ...
  item,                  \* what a send puts in
  xTicksToWait,
  xEntryTimeSet, xTimeOnEntering, wrapped,
  expired,               \* the call that suspended the scheduler timed out
  due                    \* ticks left of the block time that was asked for

ringVars == <<store, pcWriteTo, pcReadFrom, uxMessagesWaiting, got>>
lockVars == <<cRxLock, cTxLock>>
waitVars == <<xTasksWaitingToSend, xTasksWaitingToReceive>>
tickVars == <<xTickCount, xNextTaskUnblockTime>>
listVars == <<list, xPendingReadyList>>
schedVars == <<suspender, uxPendedTicks>>
argVars == <<call, item>>
timeVars == <<xTicksToWait, xEntryTimeSet, xTimeOnEntering, wrapped, wake, due>>
vars == <<ringVars, lockVars, waitVars, tickVars, listVars, schedVars, pc,
          argVars, timeVars, expired>>

Indices == 0 .. Length - 1

TypeOK ==
  /\ store \in [Indices -> Items] /\ got \in Items
  /\ pcWriteTo \in Indices /\ pcReadFrom \in Indices
  /\ uxMessagesWaiting \in 0 .. Length
  /\ cRxLock \in UNLOCKED .. MaxLock /\ cTxLock \in UNLOCKED .. MaxLock
  /\ xTasksWaitingToSend \in Seq(Tasks) /\ xTasksWaitingToReceive \in Seq(Tasks)
  /\ xTickCount \in 0 .. MaxDelay /\ xNextTaskUnblockTime \in 0 .. MaxDelay
  /\ list \in [Tasks -> {"ready", "delayed", "overflow", "suspended"}]
  /\ wake \in [Tasks -> 0 .. MaxDelay]
  /\ xPendingReadyList \subseteq Tasks
  /\ suspender \in Tasks \cup {None} /\ uxPendedTicks \in 0 .. MaxPended
  /\ pc \in [Tasks -> {"idle", "try", "suspend", "lock", "test",
                       "unlockTx", "unlockRx", "resume", "late"}]
  /\ call \in [Tasks -> CallNames \cup {None}]
  /\ item \in [Tasks -> Items \cup {None}]
  /\ xTicksToWait \in [Tasks -> 0 .. MaxDelay]
  /\ xTimeOnEntering \in [Tasks -> 0 .. MaxDelay]
  /\ due \in [Tasks -> 0 .. MaxDelay]
  /\ xEntryTimeSet \in [Tasks -> BOOLEAN] /\ wrapped \in [Tasks -> BOOLEAN]
  /\ expired \in BOOLEAN

(* prvInitialiseNewQueue and xQueueGenericReset, near a wrap of the tick.  *)
Init ==
  /\ \E x \in Items :
       /\ store = [k \in Indices |-> x] /\ got = x
  /\ pcWriteTo = 0 /\ pcReadFrom = Length - 1 /\ uxMessagesWaiting = 0
  /\ cRxLock = UNLOCKED /\ cTxLock = UNLOCKED
  /\ xTasksWaitingToSend = <<>> /\ xTasksWaitingToReceive = <<>>
  /\ xTickCount = 0 /\ xNextTaskUnblockTime = MaxDelay
  /\ list = [t \in Tasks |-> "ready"] /\ wake = [t \in Tasks |-> 0]
  /\ xPendingReadyList = {} /\ suspender = None /\ uxPendedTicks = 0
  /\ pc = [t \in Tasks |-> "idle"] /\ call = [t \in Tasks |-> None]
  /\ item = [t \in Tasks |-> None]
  /\ xTicksToWait = [t \in Tasks |-> 0] /\ xTimeOnEntering = [t \in Tasks |-> 0]
  /\ xEntryTimeSet = [t \in Tasks |-> FALSE]
  /\ wrapped = [t \in Tasks |-> FALSE] /\ due = [t \in Tasks |-> 0]
  /\ expired = FALSE
-----------------------------------------------------------------------------
(* The ring.                                                               *)

(* Mutant: the end of the ring is one item late.                           *)
Up_late(p) == IF p + 1 > Length THEN 0 ELSE p + 1

Up(p)   == IF p + 1 >= Length THEN 0 ELSE p + 1
Down(p) == IF p - 1 < 0 THEN Length - 1 ELSE p - 1

(* Mutant: pcReadFrom is moved before the item is stored in front.         *)
prvCopyDataToQueue_moves_first(x, toFront) ==
  /\ \/ /\ ~toFront
        /\ store' = [store EXCEPT ![pcWriteTo] = x]
        /\ pcWriteTo' = Up(pcWriteTo)
        /\ UNCHANGED pcReadFrom
     \/ /\ toFront
        /\ store' = [store EXCEPT ![Down(pcReadFrom)] = x]
        /\ pcReadFrom' = Down(pcReadFrom)
        /\ UNCHANGED pcWriteTo
  /\ uxMessagesWaiting' = uxMessagesWaiting + 1
  /\ UNCHANGED got

prvCopyDataToQueue(x, toFront) ==
  /\ \/ /\ ~toFront
        /\ store' = [store EXCEPT ![pcWriteTo] = x]
        /\ pcWriteTo' = Up(pcWriteTo)
        /\ UNCHANGED pcReadFrom
     \/ /\ toFront
        /\ store' = [store EXCEPT ![pcReadFrom] = x]
        /\ pcReadFrom' = Down(pcReadFrom)
        /\ UNCHANGED pcWriteTo
  /\ uxMessagesWaiting' = uxMessagesWaiting + 1
  /\ UNCHANGED got

prvCopyDataFromQueue ==
  /\ pcReadFrom' = Up(pcReadFrom)
  /\ got' = store[Up(pcReadFrom)]
  /\ uxMessagesWaiting' = uxMessagesWaiting - 1
  /\ UNCHANGED <<store, pcWriteTo>>

Peek ==
  /\ got' = store[Up(pcReadFrom)]
  /\ UNCHANGED <<store, pcWriteTo, pcReadFrom, uxMessagesWaiting>>

Full  == uxMessagesWaiting = Length
Empty == uxMessagesWaiting = 0
-----------------------------------------------------------------------------
(* Blocking and waking.                                                    *)

(* Mutant: the pending ready list holds the tasks woken last.              *)
Woken_last(ts) ==
  IF suspender = None
  THEN /\ list' = [t \in Tasks |-> IF t \in ts THEN "ready" ELSE list[t]]
       /\ UNCHANGED xPendingReadyList
  ELSE /\ xPendingReadyList' = ts
       /\ UNCHANGED list

(* xTaskRemoveFromEventList for the first task of an event list, if there  *)
(* is one: it is ready, or will be when the scheduler resumes.             *)
Woken(ts) ==
  IF suspender = None
  THEN /\ list' = [t \in Tasks |-> IF t \in ts THEN "ready" ELSE list[t]]
       /\ UNCHANGED xPendingReadyList
  ELSE /\ xPendingReadyList' = xPendingReadyList \cup ts
       /\ UNCHANGED list

First(q) == IF q = <<>> THEN {} ELSE {Head(q)}
Rest(q)  == IF q = <<>> THEN <<>> ELSE Tail(q)

WakeReceiver ==
  /\ Woken(First(xTasksWaitingToReceive))
  /\ xTasksWaitingToReceive' = Rest(xTasksWaitingToReceive)
  /\ UNCHANGED xTasksWaitingToSend

WakeSender ==
  /\ Woken(First(xTasksWaitingToSend))
  /\ xTasksWaitingToSend' = Rest(xTasksWaitingToSend)
  /\ UNCHANGED xTasksWaitingToReceive

(* vListInsert: behind the tasks of the same and of higher priority.       *)
Insert(q, t) ==
  LET n == CHOOSE k \in 0 .. Len(q) :
             /\ \A j \in 1 .. k : Prio[q[j]] >= Prio[t]
             /\ k < Len(q) => Prio[q[k + 1]] < Prio[t]
  IN  SubSeq(q, 1, n) \o <<t>> \o SubSeq(q, n + 1, Len(q))

(* prvResetNextTaskUnblockTime.                                            *)
NextUnblock(l) ==
  LET times == {wake[t] : t \in {u \in Tasks : l[u] = "delayed"}}
  IN  IF times = {} THEN MaxDelay
      ELSE CHOOSE n \in times : \A m \in times : n <= m

(* What a tick may change.                                                 *)
Kernel ==
  [tick |-> xTickCount, next |-> xNextTaskUnblockTime, list |-> list,
   toSend |-> xTasksWaitingToSend, toReceive |-> xTasksWaitingToReceive,
   wrapped |-> wrapped, due |-> due]

BecomesKernel(k) ==
  /\ xTickCount' = k.tick /\ xNextTaskUnblockTime' = k.next /\ list' = k.list
  /\ xTasksWaitingToSend' = k.toSend /\ xTasksWaitingToReceive' = k.toReceive
  /\ wrapped' = k.wrapped /\ due' = k.due

(* taskSWITCH_DELAYED_LISTS.                                               *)
Switched(l) ==
  [t \in Tasks |-> CASE l[t] = "overflow" -> "delayed"
                     [] l[t] = "delayed"  -> "overflow"
                     [] OTHER             -> l[t]]

(* uxListRemove of the tasks whose time has come from an event list.       *)
Without(q, ts) ==
  LET f[n \in 0 .. Len(q)] ==
        IF n = 0 THEN <<>>
        ELSE IF q[n] \in ts THEN f[n - 1] ELSE Append(f[n - 1], q[n])
  IN  f[Len(q)]

(* xTaskIncrementTick, while the scheduler is not suspended.               *)
xTaskIncrementTick(k) ==
  LET now   == (k.tick + 1) % TickMod
      l     == IF now = 0 THEN Switched(k.list) ELSE k.list
      next  == IF now = 0 THEN NextUnblock(l) ELSE k.next
      up    == IF now < next THEN {}
               ELSE {t \in Tasks : l[t] = "delayed" /\ wake[t] <= now}
      after == [t \in Tasks |-> IF t \in up THEN "ready" ELSE l[t]]
  IN  [tick |-> now, list |-> after,
       next |-> IF now < next THEN next ELSE NextUnblock(after),
       toSend |-> Without(k.toSend, up), toReceive |-> Without(k.toReceive, up),
       wrapped |-> [t \in Tasks |-> k.wrapped[t] \/ (now = 0 /\ xEntryTimeSet[t])],
       due |-> [t \in Tasks |-> IF k.due[t] > 0 THEN k.due[t] - 1 ELSE 0]]

Ticked(k, n) ==
  LET f[i \in 0 .. MaxPended] == IF i = 0 THEN k ELSE xTaskIncrementTick(f[i - 1])
  IN  f[n]

(* No call with a block time lasts over two wraps of the tick: 497 days.   *)
Prompt(n) ==
  \A t \in Tasks :
    wrapped[t] /\ xTicksToWait[t] # MaxDelay => xTickCount + n < TickMod

Tick ==
  /\ \/ /\ suspender = None /\ Prompt(1)
        /\ BecomesKernel(xTaskIncrementTick(Kernel))
        /\ UNCHANGED uxPendedTicks
     \/ /\ suspender # None /\ uxPendedTicks < MaxPended
        /\ Prompt(uxPendedTicks + 1)
        /\ uxPendedTicks' = uxPendedTicks + 1
        /\ UNCHANGED <<tickVars, list, waitVars, wrapped, due>>
  /\ UNCHANGED <<ringVars, lockVars, wake, xPendingReadyList, suspender, pc,
                 argVars, xTicksToWait, xEntryTimeSet, xTimeOnEntering, expired>>
-----------------------------------------------------------------------------
(* Interrupts.  While the queue is locked they leave the event lists alone *)
(* and count.                                                              *)

(* Mutant: a locked queue does not count what an interrupt sends.          *)
xQueueGenericSendFromISR_uncounted ==
  /\ ~Full
  /\ \E x \in Items, toFront \in BOOLEAN : prvCopyDataToQueue(x, toFront)
  /\ \/ cTxLock = UNLOCKED /\ WakeReceiver
     \/ cTxLock # UNLOCKED /\ UNCHANGED <<waitVars, listVars>>
  /\ UNCHANGED <<lockVars, tickVars, schedVars, pc, argVars, timeVars, expired>>

xQueueGenericSendFromISR ==
  /\ ~Full
  /\ \E x \in Items, toFront \in BOOLEAN : prvCopyDataToQueue(x, toFront)
  /\ \/ /\ cTxLock = UNLOCKED
        /\ WakeReceiver
        /\ UNCHANGED cTxLock
     \/ /\ cTxLock # UNLOCKED /\ cTxLock < MaxLock
        /\ cTxLock' = cTxLock + 1
        /\ UNCHANGED <<waitVars, listVars>>
  /\ UNCHANGED <<cRxLock, tickVars, schedVars, pc, argVars, timeVars, expired>>

(* Mutant: a locked queue does not count what an interrupt receives.       *)
xQueueReceiveFromISR_uncounted ==
  /\ ~Empty
  /\ prvCopyDataFromQueue
  /\ \/ cRxLock = UNLOCKED /\ WakeSender
     \/ cRxLock # UNLOCKED /\ UNCHANGED <<waitVars, listVars>>
  /\ UNCHANGED <<lockVars, tickVars, schedVars, pc, argVars, timeVars, expired>>

xQueueReceiveFromISR ==
  /\ ~Empty
  /\ prvCopyDataFromQueue
  /\ \/ /\ cRxLock = UNLOCKED
        /\ WakeSender
        /\ UNCHANGED cRxLock
     \/ /\ cRxLock # UNLOCKED /\ cRxLock < MaxLock
        /\ cRxLock' = cRxLock + 1
        /\ UNCHANGED <<waitVars, listVars>>
  /\ UNCHANGED <<cTxLock, tickVars, schedVars, pc, argVars, timeVars, expired>>
-----------------------------------------------------------------------------
(* Calls of the tasks.                                                     *)

Runs(t) == IF suspender = None THEN list[t] = "ready" ELSE suspender = t

At(t, p) == Runs(t) /\ pc[t] = p

Goto(t, p) == pc' = [pc EXCEPT ![t] = p]

Enter(t) ==
  /\ At(t, "idle")
  /\ \E c \in Calls, x \in Items, w \in Waits :
       /\ c = "reset" => w = 0
       /\ call' = [call EXCEPT ![t] = c]
       /\ item' = [item EXCEPT ![t] = IF c \in Sends THEN x ELSE None]
       /\ xTicksToWait' = [xTicksToWait EXCEPT ![t] = w]
  /\ Goto(t, "try")
  /\ UNCHANGED <<ringVars, lockVars, waitVars, tickVars, listVars, schedVars,
                 xEntryTimeSet, xTimeOnEntering, wrapped, wake, due, expired>>

Return(t) ==
  /\ Goto(t, "idle")
  /\ call' = [call EXCEPT ![t] = None]
  /\ item' = [item EXCEPT ![t] = None]
  /\ xTicksToWait' = [xTicksToWait EXCEPT ![t] = 0]
  /\ xEntryTimeSet' = [xEntryTimeSet EXCEPT ![t] = FALSE]
  /\ xTimeOnEntering' = [xTimeOnEntering EXCEPT ![t] = 0]
  /\ wrapped' = [wrapped EXCEPT ![t] = FALSE]
  /\ wake' = [wake EXCEPT ![t] = 0]
  /\ due' = [due EXCEPT ![t] = 0]

(* The first critical section of xQueueGenericSend and                     *)
(* xQueueGenericReceive, when the call can be served.                      *)
xQueueGenericSend(t) ==
  /\ At(t, "try") /\ call[t] \in Sends /\ ~Full
  /\ prvCopyDataToQueue(item[t], call[t] = "sendToFront")
  /\ WakeReceiver
  /\ Return(t)
  /\ UNCHANGED <<lockVars, tickVars, schedVars, expired>>

xQueueGenericReceive(t) ==
  /\ At(t, "try") /\ ~Empty
  /\ \/ call[t] = "receive" /\ prvCopyDataFromQueue /\ WakeSender
     \/ call[t] = "peek" /\ Peek /\ WakeReceiver
  /\ Return(t)
  /\ UNCHANGED <<lockVars, tickVars, schedVars, expired>>

xQueueGenericReset(t) ==
  /\ At(t, "try") /\ call[t] = "reset"
  /\ uxMessagesWaiting' = 0 /\ pcWriteTo' = 0 /\ pcReadFrom' = Length - 1
  /\ cRxLock' = UNLOCKED /\ cTxLock' = UNLOCKED
  /\ WakeSender
  /\ Return(t)
  /\ UNCHANGED <<store, got, tickVars, schedVars, expired>>

(* The call cannot be served: it fails at once, or notes the time.         *)
Blocked(t) == IF call[t] \in Sends THEN Full ELSE call[t] # "reset" /\ Empty

FailAtOnce(t) ==
  /\ At(t, "try") /\ Blocked(t) /\ xTicksToWait[t] = 0
  /\ Return(t)
  /\ UNCHANGED <<ringVars, lockVars, waitVars, tickVars, listVars, schedVars,
                 expired>>

(* A call without a time limit never reads the time that is noted.         *)
vTaskSetTimeOutState(t) ==
  /\ At(t, "try") /\ Blocked(t) /\ xTicksToWait[t] # 0
  /\ \/ /\ xEntryTimeSet[t] \/ xTicksToWait[t] = MaxDelay
        /\ UNCHANGED timeVars
     \/ /\ ~xEntryTimeSet[t] /\ xTicksToWait[t] # MaxDelay
        /\ xEntryTimeSet' = [xEntryTimeSet EXCEPT ![t] = TRUE]
        /\ xTimeOnEntering' = [xTimeOnEntering EXCEPT ![t] = xTickCount]
        /\ due' = [due EXCEPT ![t] = xTicksToWait[t]]
        /\ UNCHANGED <<xTicksToWait, wrapped, wake>>
  /\ Goto(t, "suspend")
  /\ UNCHANGED <<ringVars, lockVars, waitVars, tickVars, listVars, schedVars,
                 argVars, expired>>

vTaskSuspendAll(t) ==
  /\ At(t, "suspend")
  /\ suspender' = t
  /\ Goto(t, "lock")
  /\ UNCHANGED <<ringVars, lockVars, waitVars, tickVars, listVars,
                 uxPendedTicks, argVars, timeVars, expired>>

(* The tick count stands still now: the check commutes with what an        *)
(* interrupt does before it.                                               *)
prvLockQueue ==
  /\ cRxLock' = IF cRxLock = UNLOCKED THEN UNMODIFIED ELSE cRxLock
  /\ cTxLock' = IF cTxLock = UNLOCKED THEN UNMODIFIED ELSE cTxLock

(* Mutant: the time waited is taken off, and counted again next time.      *)
xTaskCheckForTimeOut_counts_twice(t) ==
  LET elapsed == (xTickCount - xTimeOnEntering[t]) % TickMod
      forever == xTicksToWait[t] = MaxDelay
      over    == wrapped[t] /\ xTickCount >= xTimeOnEntering[t]
      inTime  == forever \/ (~over /\ elapsed < xTicksToWait[t])
  IN  /\ expired' = ~inTime
      /\ IF inTime /\ ~forever
           THEN xTicksToWait' = [xTicksToWait EXCEPT ![t] = @ - elapsed]
           ELSE UNCHANGED xTicksToWait
      /\ Goto(t, IF inTime THEN "test" ELSE "unlockTx")
      /\ UNCHANGED <<xTimeOnEntering, wrapped, xEntryTimeSet, wake, due>>

xTaskCheckForTimeOut(t) ==
  LET elapsed == (xTickCount - xTimeOnEntering[t]) % TickMod
      forever == xTicksToWait[t] = MaxDelay
      over    == wrapped[t] /\ xTickCount >= xTimeOnEntering[t]
      inTime  == forever \/ (~over /\ elapsed < xTicksToWait[t])
  IN  /\ expired' = ~inTime
      /\ IF inTime /\ ~forever
           THEN /\ xTicksToWait' = [xTicksToWait EXCEPT ![t] = @ - elapsed]
                /\ xTimeOnEntering' = [xTimeOnEntering EXCEPT ![t] = xTickCount]
                /\ wrapped' = [wrapped EXCEPT ![t] = FALSE]
           ELSE UNCHANGED <<xTicksToWait, xTimeOnEntering, wrapped>>
      /\ Goto(t, IF inTime THEN "test" ELSE "unlockTx")
      /\ UNCHANGED <<xEntryTimeSet, wake, due>>

LockAndCheck(t) ==
  /\ At(t, "lock")
  /\ prvLockQueue
  /\ xTaskCheckForTimeOut(t)
  /\ UNCHANGED <<ringVars, waitVars, tickVars, listVars, schedVars, argVars>>

Min2(m, n) == IF m < n THEN m ELSE n

(* Mutant: a wake time past the wrap is not told apart.                    *)
prvAddCurrentTaskToDelayedList_one_list(t) ==
  LET until == (xTickCount + xTicksToWait[t]) % TickMod
  IN  \/ /\ xTicksToWait[t] = MaxDelay
         /\ list' = [list EXCEPT ![t] = "suspended"]
         /\ UNCHANGED <<wake, xNextTaskUnblockTime>>
      \/ /\ xTicksToWait[t] # MaxDelay
         /\ wake' = [wake EXCEPT ![t] = until]
         /\ list' = [list EXCEPT ![t] = "delayed"]
         /\ xNextTaskUnblockTime' = Min2(until, xNextTaskUnblockTime)

(* Mutant: xNextTaskUnblockTime is left as it was.                         *)
prvAddCurrentTaskToDelayedList_next_kept(t) ==
  LET until == (xTickCount + xTicksToWait[t]) % TickMod
  IN  /\ \/ /\ xTicksToWait[t] = MaxDelay
            /\ list' = [list EXCEPT ![t] = "suspended"]
            /\ UNCHANGED wake
         \/ /\ xTicksToWait[t] # MaxDelay
            /\ wake' = [wake EXCEPT ![t] = until]
            /\ list' = [list EXCEPT ![t] = IF until < xTickCount THEN "overflow"
                                           ELSE "delayed"]
      /\ UNCHANGED xNextTaskUnblockTime

(* The task runs on until the scheduler is resumed.                        *)
prvAddCurrentTaskToDelayedList(t) ==
  LET until == (xTickCount + xTicksToWait[t]) % TickMod
  IN  \/ /\ xTicksToWait[t] = MaxDelay
         /\ list' = [list EXCEPT ![t] = "suspended"]
         /\ UNCHANGED <<wake, xNextTaskUnblockTime>>
      \/ /\ xTicksToWait[t] # MaxDelay
         /\ wake' = [wake EXCEPT ![t] = until]
         /\ list' = [list EXCEPT ![t] = IF until < xTickCount THEN "overflow"
                                        ELSE "delayed"]
         /\ xNextTaskUnblockTime' =
              IF until >= xTickCount /\ until < xNextTaskUnblockTime
              THEN until ELSE xNextTaskUnblockTime

vTaskPlaceOnEventList(t) ==
  /\ IF call[t] \in Sends
       THEN /\ xTasksWaitingToSend' = Insert(xTasksWaitingToSend, t)
            /\ UNCHANGED xTasksWaitingToReceive
       ELSE /\ xTasksWaitingToReceive' = Insert(xTasksWaitingToReceive, t)
            /\ UNCHANGED xTasksWaitingToSend
  /\ prvAddCurrentTaskToDelayedList(t)

(* prvIsQueueFull or prvIsQueueEmpty: an interrupt that comes after it and *)
(* before the task is in the event list only counts in the lock.           *)
TestAgain(t) ==
  /\ At(t, "test")
  /\ \/ Blocked(t) /\ vTaskPlaceOnEventList(t)
     \/ ~Blocked(t) /\ UNCHANGED <<waitVars, list, wake, xNextTaskUnblockTime>>
  /\ Goto(t, "unlockTx")
  /\ UNCHANGED <<ringVars, lockVars, xTickCount, xPendingReadyList, schedVars,
                 argVars, xTicksToWait, xEntryTimeSet, xTimeOnEntering, wrapped,
                 due, expired>>

(* prvUnlockQueue: one waiting task for every interrupt that was counted.  *)
Front(q, n) == {q[k] : k \in 1 .. Min2(n, Len(q))}
Behind(q, n) == SubSeq(q, Min2(n, Len(q)) + 1, Len(q))

prvUnlockQueueTx(t) ==
  /\ At(t, "unlockTx")
  /\ Woken(Front(xTasksWaitingToReceive, cTxLock))
  /\ xTasksWaitingToReceive' = Behind(xTasksWaitingToReceive, cTxLock)
  /\ cTxLock' = UNLOCKED
  /\ Goto(t, "unlockRx")
  /\ UNCHANGED <<ringVars, cRxLock, xTasksWaitingToSend, tickVars,
                 schedVars, argVars, timeVars, expired>>

prvUnlockQueueRx(t) ==
  /\ At(t, "unlockRx")
  /\ Woken(Front(xTasksWaitingToSend, cRxLock))
  /\ xTasksWaitingToSend' = Behind(xTasksWaitingToSend, cRxLock)
  /\ cRxLock' = UNLOCKED
  /\ Goto(t, "resume")
  /\ UNCHANGED <<ringVars, cTxLock, xTasksWaitingToReceive, tickVars,
                 schedVars, argVars, timeVars, expired>>

(* The scheduler goes on: pending tasks are ready, then the pended ticks   *)
(* are counted.  A send whose time is over fails.                          *)
xTaskResumeAll(t) ==
  LET l == [u \in Tasks |-> IF u \in xPendingReadyList THEN "ready" ELSE list[u]]
      n == IF xPendingReadyList = {} THEN xNextTaskUnblockTime ELSE NextUnblock(l)
      k == Ticked([Kernel EXCEPT !.list = l, !.next = n], uxPendedTicks)
  IN  /\ At(t, "resume")
      /\ xPendingReadyList' = {} /\ uxPendedTicks' = 0 /\ suspender' = None
      /\ expired' = FALSE
      /\ BecomesKernel(k)
      /\ Goto(t, IF expired THEN "late" ELSE "try")
      /\ UNCHANGED <<ringVars, lockVars, argVars, xTicksToWait, xEntryTimeSet,
                     xTimeOnEntering, wake>>

(* The time is over: a receive looks once more.                            *)
TimedOut(t) ==
  /\ At(t, "late")
  /\ \/ /\ call[t] \in Sends \/ Empty
        /\ Return(t)
     \/ /\ call[t] \notin Sends /\ ~Empty
        /\ Goto(t, "try")
        /\ UNCHANGED <<argVars, timeVars>>
  /\ UNCHANGED <<ringVars, lockVars, waitVars, tickVars, listVars, schedVars,
                 expired>>

Step(t) ==
  \/ xQueueGenericSend(t) \/ xQueueGenericReceive(t) \/ xQueueGenericReset(t)
  \/ FailAtOnce(t) \/ vTaskSetTimeOutState(t) \/ vTaskSuspendAll(t)
  \/ LockAndCheck(t) \/ TestAgain(t) \/ prvUnlockQueueTx(t) \/ prvUnlockQueueRx(t)
  \/ xTaskResumeAll(t) \/ TimedOut(t)

Next ==
  \/ \E t \in Tasks : Enter(t) \/ Step(t)
  \/ Tick \/ xQueueGenericSendFromISR \/ xQueueReceiveFromISR

Spec == Init /\ [][Next]_vars
-----------------------------------------------------------------------------
(* The items of the ring, in the order they will be received.              *)
Wrap(p) == IF p >= Length THEN p - Length ELSE p

Contents == [k \in 1 .. uxMessagesWaiting |-> store[Wrap(pcReadFrom + k)]]

Fifo == INSTANCE QueueSpec WITH items <- Contents, out <- got

(* The queue implements the bounded sequence of QueueSpec.                 *)
ImplementsFifo == Fifo!Spec

Members(q) == {q[k] : k \in DOMAIN q}

(* A task that blocked for ever in a call is still in an event list, or on *)
(* its way back: nothing else would ever wake it.                          *)
NeverForgotten ==
  \A t \in Tasks :
    list[t] = "suspended" => t \in Members(xTasksWaitingToSend)
                                     \cup Members(xTasksWaitingToReceive)
                                     \cup xPendingReadyList

Inside(calls) ==
  \E t \in Tasks : list[t] = "ready" /\ call[t] \in calls

(* While tasks run, no task waits for an item that is there, unless a task *)
(* that was woken for it has yet to look.                                  *)
NoReceiverLeftWaiting ==
  suspender = None /\ ~Empty /\ xTasksWaitingToReceive # <<>>
    => Inside({"receive", "peek"})

(* The same for room in the queue, as long as no task empties the queue    *)
(* with xQueueReset, which wakes one sender however many have room.        *)
NoSenderLeftWaiting ==
  suspender = None /\ ~Full /\ xTasksWaitingToSend # <<>> => Inside(Sends)

(* taskSWITCH_DELAYED_LISTS asserts that the delayed list is empty.        *)
DelayedEmptyAtWrap ==
  xTickCount = MaxDelay => \A t \in Tasks : list[t] # "delayed"

(* No task sleeps longer than it asked to, across wraps of the tick count  *)
(* and ticks that pass while the scheduler is suspended.                   *)
NeverOversleeps ==
  \A t \in Tasks : list[t] \in {"delayed", "overflow"} => due[t] > 0

(* No call gives up before its block time is over.                         *)
NeverTooEarly ==
  [][\A t \in Tasks : pc[t] = "late" /\ pc'[t] = "idle" => due[t] = 0]_vars
=============================================================================
