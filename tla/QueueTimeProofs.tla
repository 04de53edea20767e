-------------------------- MODULE QueueTimeProofs ---------------------------
(***************************************************************************)
(* The times of blocked calls, over every wrap of the tick count and any   *)
(* number of pended ticks: the delayed list is empty when the lists are    *)
(* switched, no task sleeps longer than it asked to, and no call gives up  *)
(* early.                                                                  *)
(*                                                                         *)
(* Timed relates the three ways in which the kernel keeps a time (the wake *)
(* time in a delayed list, the time noted by vTaskSetTimeOutState with the *)
(* count of overflows, and xNextTaskUnblockTime) to what is left of the    *)
(* block time. Prompt, the guard of the tick, is the assumption: a call    *)
(* checks its time before the tick count wraps twice.                      *)
(***************************************************************************)
EXTENDS QueueProofs

(* Leaves are for Zenon, unless they say SMT.                              *)
USE ZenonT(30)

(* A task in a delayed list wakes when it asked to: its wake time lies     *)
(* ahead on this side of the wrap, or beyond it; and the next time that    *)
(* the tick looks at the list is not later.                                *)
Asleep(l, next, tick, d) ==
  \A t \in Tasks :
    /\ l[t] = "delayed" => next <= wake[t] /\ tick < wake[t] /\ d[t] = wake[t] - tick
    /\ l[t] = "overflow" => wake[t] < tick /\ d[t] = wake[t] + TickMod - tick

(* Ticks since the time was noted.                                         *)
Elapsed(tick, wr, t) == tick - xTimeOnEntering[t] + (IF wr[t] THEN TickMod ELSE 0)

(* What is left of a block time agrees with the tick count, and r ticks    *)
(* more bring no second wrap.                                              *)
Clocked(tick, wr, d, r) ==
  \A t \in Tasks :
    IF xEntryTimeSet[t]
    THEN /\ Elapsed(tick, wr, t) >= 0
         /\ d[t] = IF Elapsed(tick, wr, t) < xTicksToWait[t]
                   THEN xTicksToWait[t] - Elapsed(tick, wr, t) ELSE 0
         /\ wr[t] => tick + r < TickMod
    ELSE ~wr[t]

(* When a time is noted, and for which block times.                        *)
Noted ==
  \A t \in Tasks :
    /\ xEntryTimeSet[t] => xTicksToWait[t] \in 1 .. MaxDelay - 1 /\ pc[t] # "idle"
    /\ pc[t] \in Locked \cup {"suspend", "late"}
         => xEntryTimeSet[t] \/ xTicksToWait[t] = MaxDelay
    /\ pc[t] = "test" /\ xEntryTimeSet[t]
         => xTimeOnEntering[t] = xTickCount /\ ~wrapped[t]

(* A call that gave up has no time left.                                   *)
Over ==
  \A t \in Tasks : pc[t] = "late" \/ (pc[t] \in Locked /\ expired) => due[t] = 0

(* Everything that is measured in ticks agrees.                            *)
Timed ==
  /\ Noted /\ Over
  /\ Asleep(list, xNextTaskUnblockTime, xTickCount, due)
  /\ Clocked(xTickCount, wrapped, due, uxPendedTicks)

(* A tick in numbers.                                                      *)
LEMMA NextTick ==
  ASSUME NEW n \in 0 .. MaxDelay
  PROVE  /\ n = MaxDelay => (n + 1) % TickMod = 0
         /\ n # MaxDelay => (n + 1) % TickMod = n + 1
<1> DEFINE m == n + 1
<1>1. m \in Int /\ TickMod \in Nat \ {0} /\ MaxDelay = TickMod - 1
  BY TickModulo, SMTT(20)
<1>2. n = MaxDelay => m - TickMod = 0 /\ m - TickMod \in 0 .. TickMod - 1
  BY <1>1, SMTT(20)
<1>3. n # MaxDelay => m \in 0 .. TickMod - 1
  BY <1>1, SMTT(20)
<1> HIDE DEF m
<1>4. /\ m \in 0 .. TickMod - 1 => m % TickMod = m
      /\ m - TickMod \in 0 .. TickMod - 1 => m % TickMod = m - TickMod
  BY <1>1, Modulo
<1> QED
  BY <1>2, <1>3, <1>4 DEF m

(* A tick wakes the tasks whose time has come, over the switch of the      *)
(* delayed lists too.                                                      *)
LEMMA TickAsleep ==
  ASSUME wake \in [Tasks -> 0 .. MaxDelay], xEntryTimeSet \in [Tasks -> BOOLEAN],
         NEW k \in KernelType, Asleep(k.list, k.next, k.tick, k.due),
         NEW x, x = xTaskIncrementTick(k)
  PROVE  Asleep(x.list, x.next, x.tick, x.due)
<1>0. /\ x.tick = Now(k)
      /\ x.list = [t \in Tasks |-> IF t \in UpAt(k) THEN "ready" ELSE Lists(k)[t]]
      /\ x.next = IF Now(k) < NextAt(k) THEN NextAt(k) ELSE NextUnblock(x.list)
      /\ x.toSend = Without(k.toSend, UpAt(k))
      /\ x.toReceive = Without(k.toReceive, UpAt(k))
      /\ x.wrapped = [t \in Tasks |-> k.wrapped[t] \/ (Now(k) = 0 /\ xEntryTimeSet[t])]
      /\ x.due = [t \in Tasks |-> IF k.due[t] > 0 THEN k.due[t] - 1 ELSE 0]
  BY TickIs, SMTT(20)
<1>1. /\ k.tick \in 0 .. MaxDelay /\ k.next \in 0 .. MaxDelay
      /\ k.list \in [Tasks -> ListNames] /\ k.due \in [Tasks -> 0 .. MaxDelay]
  BY DEF KernelType
<1>2. /\ x.next \in 0 .. MaxDelay /\ x.tick \in 0 .. MaxDelay
      /\ NextAt(k) \in 0 .. MaxDelay /\ Lists(k) \in [Tasks -> ListNames]
  <2>1. /\ x \in KernelType /\ Now(k) \in 0 .. MaxDelay /\ NextAt(k) \in 0 .. MaxDelay
        /\ Lists(k) \in [Tasks -> ListNames]
    BY TickType
  <2>2. x.next \in 0 .. MaxDelay /\ x.tick \in 0 .. MaxDelay
    BY <2>1 DEF KernelType
  <2> QED
    BY <2>1, <2>2
<1>3. /\ k.tick = MaxDelay => Now(k) = 0
      /\ k.tick # MaxDelay => Now(k) = k.tick + 1
  BY <1>1, NextTick DEF Now
<1> SUFFICES ASSUME NEW t \in Tasks
             PROVE  /\ x.list[t] = "delayed" => /\ x.next <= wake[t] /\ x.tick < wake[t]
                                                /\ x.due[t] = wake[t] - x.tick
                    /\ x.list[t] = "overflow" => /\ wake[t] < x.tick
                                                 /\ x.due[t] = wake[t] + TickMod - x.tick
  BY DEF Asleep
<1>4. /\ k.list[t] = "delayed" => /\ k.next <= wake[t] /\ k.tick < wake[t]
                                  /\ k.due[t] = wake[t] - k.tick
      /\ k.list[t] = "overflow" => /\ wake[t] < k.tick
                                   /\ k.due[t] = wake[t] + TickMod - k.tick
  BY DEF Asleep
<1>5. /\ wake[t] \in 0 .. MaxDelay /\ k.due[t] \in 0 .. MaxDelay
      /\ MaxDelay \in Nat /\ TickMod = MaxDelay + 1
      /\ x.due[t] = IF k.due[t] > 0 THEN k.due[t] - 1 ELSE 0
      /\ x.list[t] = IF t \in UpAt(k) THEN "ready" ELSE Lists(k)[t]
  BY <1>0, <1>1, TickModulo, SMTT(20)
<1>6. NextAt(k) <= wake[t] \/ Lists(k)[t] # "delayed"
  <2>1. CASE Now(k) = 0
    BY <2>1, NextUnblockFirst DEF NextAt
  <2>2. CASE Now(k) # 0
    BY <1>4, <2>2 DEF NextAt, Lists
  <2> QED
    BY <2>1, <2>2
<1>7. x.list[t] = "delayed" => x.next <= wake[t]
  <2>1. x.list[t] = "delayed" => Lists(k)[t] = "delayed"
    BY <1>5
  <2> QED
    BY <1>0, <1>6, <2>1, NextUnblockFirst, SMTT(20)
<1>8. CASE k.tick = MaxDelay
  <2>1. Now(k) = 0 /\ Lists(k) = Switched(k.list)
    BY <1>3, <1>8 DEF Lists
  <2>2. k.list[t] # "delayed"
    BY <1>4, <1>5, <1>8, SMTT(20)
  <2>3. Lists(k)[t] # "overflow" /\ (Lists(k)[t] = "delayed" => k.list[t] = "overflow")
    BY <1>1, <2>1, <2>2 DEF Switched, ListNames
  <2>4. x.list[t] # "overflow"
    BY <1>5, <2>3
  <2>5. ASSUME x.list[t] = "delayed" PROVE 0 < wake[t] /\ x.due[t] = wake[t] - 0
    <3>1. Lists(k)[t] = "delayed" /\ t \notin UpAt(k)
      BY <1>5, <2>5
    <3>2. k.due[t] = wake[t] + TickMod - MaxDelay
      BY <1>4, <1>8, <2>3, <3>1
    <3>3. wake[t] # 0
      BY <1>2, <1>5, <1>6, <2>1, <3>1, SMTT(20) DEF UpAt
    <3> QED
      BY <1>5, <3>2, <3>3, SMTT(20)
  <2> QED
    BY <1>0, <1>7, <2>1, <2>4, <2>5
<1>9. CASE k.tick # MaxDelay
  <2>1. Now(k) = k.tick + 1 /\ Now(k) # 0 /\ Lists(k) = k.list
    BY <1>1, <1>3, <1>9, SMTT(20) DEF Lists
  <2>2. ASSUME x.list[t] = "delayed" PROVE Now(k) < wake[t] /\ x.due[t] = wake[t] - Now(k)
    <3>1. k.list[t] = "delayed" /\ t \notin UpAt(k)
      BY <1>5, <2>1, <2>2
    <3>2. wake[t] # Now(k)
      BY <1>2, <1>5, <1>6, <2>1, <3>1, SMTT(20) DEF UpAt
    <3> QED
      BY <1>1, <1>4, <1>5, <2>1, <3>1, <3>2, SMTT(20)
  <2>3. ASSUME x.list[t] = "overflow"
        PROVE  wake[t] < Now(k) /\ x.due[t] = wake[t] + TickMod - Now(k)
    <3>1. k.list[t] = "overflow"
      BY <1>5, <2>1, <2>3
    <3> QED
      BY <1>1, <1>4, <1>5, <2>1, <3>1, SMTT(20)
  <2> QED
    BY <1>0, <1>7, <2>2, <2>3
<1> QED
  BY <1>8, <1>9

(* A tick takes one from what is left of every block time.                 *)
LEMMA TickClocked ==
  ASSUME TimeTypes, \A t \in Tasks : xEntryTimeSet[t] => xTicksToWait[t] >= 1,
         NEW r \in 1 .. TickMod,
         NEW k \in KernelType, Clocked(k.tick, k.wrapped, k.due, r),
         NEW x, x = xTaskIncrementTick(k)
  PROVE  Clocked(x.tick, x.wrapped, x.due, r - 1)
<1>0. /\ x.tick = Now(k)
      /\ x.wrapped = [t \in Tasks |-> k.wrapped[t] \/ (Now(k) = 0 /\ xEntryTimeSet[t])]
      /\ x.due = [t \in Tasks |-> IF k.due[t] > 0 THEN k.due[t] - 1 ELSE 0]
  BY TickIs
<1>1. /\ k.tick \in 0 .. MaxDelay
      /\ k.wrapped \in [Tasks -> BOOLEAN] /\ k.due \in [Tasks -> 0 .. MaxDelay]
  BY DEF KernelType
<1>2. /\ k.tick = MaxDelay => Now(k) = 0
      /\ k.tick # MaxDelay => Now(k) = k.tick + 1
  BY <1>1, NextTick DEF Now
<1>3. MaxDelay \in Nat /\ TickMod = MaxDelay + 1 /\ TickMod \in Nat
  BY TickModulo, SMTT(20)
<1> SUFFICES ASSUME NEW t \in Tasks
             PROVE  IF xEntryTimeSet[t]
                    THEN /\ Elapsed(x.tick, x.wrapped, t) >= 0
                         /\ x.due[t] = IF Elapsed(x.tick, x.wrapped, t) < xTicksToWait[t]
                                       THEN xTicksToWait[t] - Elapsed(x.tick, x.wrapped, t)
                                       ELSE 0
                         /\ x.wrapped[t] => x.tick + (r - 1) < TickMod
                    ELSE ~x.wrapped[t]
  BY DEF Clocked
<1>4. CASE ~xEntryTimeSet[t]
  <2>1. ~k.wrapped[t]
    BY <1>4 DEF Clocked
  <2>2. ~x.wrapped[t]
    BY <1>0, <1>4, <2>1
  <2> QED
    BY <1>4, <2>2
<1>5. CASE xEntryTimeSet[t]
  <2> DEFINE e == Elapsed(k.tick, k.wrapped, t)
             f == Elapsed(x.tick, x.wrapped, t)
             w == xTicksToWait[t]
             b == xTimeOnEntering[t]
  <2>1. w \in 0 .. MaxDelay /\ w >= 1 /\ b \in 0 .. MaxDelay
    BY <1>5 DEF TimeTypes
  <2>2. /\ e >= 0 /\ k.due[t] = IF e < w THEN w - e ELSE 0
        /\ k.wrapped[t] => k.tick + r < TickMod
    BY <1>5 DEF Clocked
  <2>3. /\ e = k.tick - b + (IF k.wrapped[t] THEN TickMod ELSE 0)
        /\ f = x.tick - b + (IF x.wrapped[t] THEN TickMod ELSE 0)
    BY DEF Elapsed
  <2>4. /\ x.wrapped[t] = (k.wrapped[t] \/ Now(k) = 0)
        /\ x.due[t] = IF k.due[t] > 0 THEN k.due[t] - 1 ELSE 0
        /\ k.due[t] \in 0 .. MaxDelay /\ k.wrapped[t] \in BOOLEAN
    BY <1>0, <1>1, <1>5
  <2> HIDE DEF e, f, w, b
  <2>5. e \in Int
    BY <1>1, <1>3, <2>1, <2>3, SMTT(20)
  <2>6. k.wrapped[t] => k.tick # MaxDelay
    BY <1>1, <1>3, <2>2, SMTT(20)
  <2>7. f = e + 1 /\ (x.wrapped[t] => x.tick + (r - 1) < TickMod)
    <3>1. CASE k.wrapped[t]
      <4>1. x.tick = k.tick + 1 /\ x.wrapped[t]
        BY <1>0, <1>2, <2>4, <2>6, <3>1
      <4> QED
        BY <1>1, <1>3, <2>1, <2>2, <2>3, <3>1, <4>1, SMTT(20)
    <3>2. CASE ~k.wrapped[t] /\ k.tick # MaxDelay
      <4>1. x.tick = k.tick + 1 /\ ~x.wrapped[t]
        BY <1>0, <1>1, <1>2, <2>4, <3>2, SMTT(20)
      <4> QED
        BY <1>1, <1>3, <2>1, <2>3, <3>2, <4>1, SMTT(20)
    <3>3. CASE ~k.wrapped[t] /\ k.tick = MaxDelay
      <4>1. x.tick = 0 /\ x.wrapped[t]
        BY <1>0, <1>2, <2>4, <3>3
      <4> QED
        BY <1>1, <1>3, <2>1, <2>3, <3>3, <4>1, SMTT(20)
    <3> QED
      BY <2>4, <3>1, <3>2, <3>3
  <2>8. f >= 0 /\ x.due[t] = IF f < w THEN w - f ELSE 0
    BY <2>1, <2>2, <2>4, <2>5, <2>7, SMTT(20)
  <2> QED
    BY <1>5, <2>7, <2>8 DEF f, w
<1> QED
  BY <1>4, <1>5

(* The pended ticks, counted one after the other.                          *)
LEMMA TickedTimed ==
  ASSUME Types, \A t \in Tasks : xEntryTimeSet[t] => xTicksToWait[t] >= 1,
         NEW k \in KernelType, Asleep(k.list, k.next, k.tick, k.due),
         Clocked(k.tick, k.wrapped, k.due, uxPendedTicks),
         NEW x, x = Ticked(k, uxPendedTicks)
  PROVE  /\ Asleep(x.list, x.next, x.tick, x.due)
         /\ Clocked(x.tick, x.wrapped, x.due, 0)
         /\ \A t \in Tasks : k.due[t] = 0 => x.due[t] = 0
<1> DEFINE n == uxPendedTicks
           G(r) == {j \in KernelType :
                      /\ Asleep(j.list, j.next, j.tick, j.due)
                      /\ Clocked(j.tick, j.wrapped, j.due, r)
                      /\ \A t \in Tasks : k.due[t] = 0 => j.due[t] = 0}
           S == [i \in 0 .. n |-> G(n - i)]
<1>0. n \in 0 .. MaxPended /\ n \in Nat /\ MaxPended \in Nat /\ MaxPended < TickMod
      /\ TickMod \in Nat
  BY ConstantsAssumption, SMTT(20) DEF Types, TickTypes
<1>1. ASSUME NEW r \in 1 .. TickMod, NEW j \in G(r) PROVE xTaskIncrementTick(j) \in G(r - 1)
  <2> DEFINE y == xTaskIncrementTick(j)
  <2>1. /\ wake \in [Tasks -> 0 .. MaxDelay] /\ xEntryTimeSet \in [Tasks -> BOOLEAN]
        /\ TimeTypes
    BY DEF Types, TimeTypes
  <2>2. y \in KernelType
    BY <2>1, TickType
  <2>3. Asleep(y.list, y.next, y.tick, y.due)
    BY <2>1, TickAsleep
  <2>4. Clocked(y.tick, y.wrapped, y.due, r - 1)
    BY <2>1, TickClocked
  <2>5. y.due = [t \in Tasks |-> IF j.due[t] > 0 THEN j.due[t] - 1 ELSE 0]
    BY TickIs
  <2> HIDE DEF y
  <2>6. \A t \in Tasks : k.due[t] = 0 => y.due[t] = 0
    BY <2>5, SMTT(20)
  <2>7. y \in G(r - 1)
    BY <2>2, <2>3, <2>4, <2>6
  <2> QED
    BY <2>7 DEF y
<1>2. k \in G(n)
  OBVIOUS
<1> HIDE DEF G
<1>3. k \in S[0]
  <2>1. 0 \in 0 .. n /\ n - 0 = n
    BY <1>0, SMTT(20)
  <2> HIDE DEF n
  <2> QED
    BY <1>2, <2>1
<1>4. ASSUME NEW i \in 0 .. n - 1, NEW j \in S[i] PROVE xTaskIncrementTick(j) \in S[i + 1]
  <2>1. /\ i \in 0 .. n /\ i + 1 \in 0 .. n /\ n - i \in 1 .. TickMod
        /\ (n - i) - 1 = n - (i + 1)
    BY <1>0, SMTT(20)
  <2> HIDE DEF n
  <2>2. S[i] = G(n - i) /\ S[i + 1] = G((n - i) - 1)
    BY <2>1
  <2>3. j \in G(n - i)
    BY <2>2
  <2> HIDE DEF S
  <2>4. xTaskIncrementTick(j) \in G((n - i) - 1)
    BY <1>1, <2>1, <2>3
  <2> QED
    BY <2>2, <2>4
<1>5. S[n] = G(0)
  <2>1. n \in 0 .. n /\ n - n = 0
    BY <1>0, SMTT(20)
  <2> HIDE DEF n
  <2> QED
    BY <2>1
<1> HIDE DEF S
<1>6. x \in S[n]
  BY <1>0, <1>3, <1>4, TickedInduction
<1> QED
  BY <1>5, <1>6 DEF G

(* Who sleeps on sleeps as before.                                         *)
LEMMA AsleepKept ==
  ASSUME Asleep(list, xNextTaskUnblockTime, xTickCount, due), UNCHANGED tickVars,
         \A u \in Tasks : list'[u] # "ready" =>
           list'[u] = list[u] /\ wake'[u] = wake[u] /\ due'[u] = due[u]
  PROVE  Asleep(list, xNextTaskUnblockTime, xTickCount, due)'
BY DEF Asleep, tickVars

(* The clock of a call is not touched, or the call is over.                *)
LEMMA ClockedKept ==
  ASSUME Clocked(xTickCount, wrapped, due, uxPendedTicks), TimeTypes',
         UNCHANGED <<xTickCount, uxPendedTicks>>,
         \A u \in Tasks :
           \/ /\ xEntryTimeSet'[u] = xEntryTimeSet[u]
              /\ xTimeOnEntering'[u] = xTimeOnEntering[u] /\ wrapped'[u] = wrapped[u]
              /\ xEntryTimeSet[u] => xTicksToWait'[u] = xTicksToWait[u] /\ due'[u] = due[u]
           \/ ~xEntryTimeSet'[u] /\ ~wrapped'[u]
  PROVE  Clocked(xTickCount, wrapped, due, uxPendedTicks)'
<1> SUFFICES ASSUME NEW u \in Tasks
             PROVE  (IF xEntryTimeSet[u]
                     THEN /\ Elapsed(xTickCount, wrapped, u) >= 0
                          /\ due[u] = IF Elapsed(xTickCount, wrapped, u) < xTicksToWait[u]
                                      THEN xTicksToWait[u] - Elapsed(xTickCount, wrapped, u)
                                      ELSE 0
                          /\ wrapped[u] => xTickCount + uxPendedTicks < TickMod
                     ELSE ~wrapped[u])'
  BY DEF Clocked
<1>1. CASE ~xEntryTimeSet'[u] /\ ~wrapped'[u]
  BY <1>1
<1>2. CASE /\ xEntryTimeSet'[u] = xEntryTimeSet[u]
           /\ xTimeOnEntering'[u] = xTimeOnEntering[u] /\ wrapped'[u] = wrapped[u]
           /\ xEntryTimeSet[u] => xTicksToWait'[u] = xTicksToWait[u] /\ due'[u] = due[u]
  <2>1. Elapsed(xTickCount, wrapped, u)' = Elapsed(xTickCount, wrapped, u)
    BY <1>2 DEF Elapsed
  <2> QED
    BY <1>2, <2>1 DEF Clocked
<1> QED
  BY <1>1, <1>2

(* A step that moves a task on and leaves the times alone.                 *)
LEMMA MoveTimed ==
  ASSUME Types, Types', Timed, UNCHANGED <<tickVars, uxPendedTicks, timeVars, expired>>,
         \A u \in Tasks : list'[u] # "ready" => list'[u] = list[u],
         \A u \in Tasks :
           \/ pc'[u] = pc[u]
           \/ /\ pc'[u] \in {"try", "lock", "unlockRx", "resume"}
              /\ pc[u] # "idle"
              /\ pc'[u] \in Locked => \/ pc[u] \in Locked
                                      \/ pc[u] = "suspend" /\ ~expired
  PROVE  Timed'
<1>1. Asleep(list, xNextTaskUnblockTime, xTickCount, due)'
  BY AsleepKept DEF Timed, timeVars
<1>2. Clocked(xTickCount, wrapped, due, uxPendedTicks)'
  <2>1. TimeTypes' /\ UNCHANGED xTickCount
    BY DEF Types, tickVars
  <2> QED
    BY <2>1, ClockedKept DEF Timed, timeVars
<1>3. Noted'
  BY DEF Timed, Noted, timeVars, tickVars, Locked
<1>4. Over'
  BY DEF Timed, Over, timeVars, Locked
<1> QED
  BY <1>1, <1>2, <1>3, <1>4 DEF Timed

(* Waking tasks moves no sleeper to another list.                          *)
LEMMA WokenSame ==
  ASSUME ListTypes, NEW ts, Woken(ts)
  PROVE  \A u \in Tasks : list'[u] # "ready" => list'[u] = list[u]
BY DEF Woken, ListTypes

(* Nor does waking the first waiter.                                       *)
LEMMA WakeSame ==
  ASSUME ListTypes, WakeReceiver \/ WakeSender
  PROVE  \A u \in Tasks : list'[u] # "ready" => list'[u] = list[u]
BY WokenSame DEF WakeReceiver, WakeSender

(* A call that returns is no longer timed.                                 *)
LEMMA ReturnTimed ==
  ASSUME Types, Types', Sched, Timed, NEW t \in Tasks, suspender = None,
         list[t] = "ready", Return(t), UNCHANGED <<tickVars, uxPendedTicks, expired>>,
         \A u \in Tasks : list'[u] # "ready" => list'[u] = list[u]
  PROVE  Timed'
<1>1. \A u \in Tasks \ {t} : /\ wake'[u] = wake[u] /\ due'[u] = due[u]
                             /\ xEntryTimeSet'[u] = xEntryTimeSet[u]
                             /\ xTimeOnEntering'[u] = xTimeOnEntering[u]
                             /\ wrapped'[u] = wrapped[u] /\ pc'[u] = pc[u]
                             /\ xTicksToWait'[u] = xTicksToWait[u]
  BY SMTT(20) DEF Return, Goto, Types, TimeTypes, CallTypes
<1>2. ~xEntryTimeSet'[t] /\ ~wrapped'[t] /\ pc'[t] = "idle"
  BY DEF Return, Goto, Types, TimeTypes, CallTypes
<1>3. Asleep(list, xNextTaskUnblockTime, xTickCount, due)'
  BY <1>1, AsleepKept DEF Timed
<1>4. Clocked(xTickCount, wrapped, due, uxPendedTicks)'
  <2>1. TimeTypes' /\ UNCHANGED xTickCount
    BY DEF Types, tickVars
  <2> QED
    BY <1>1, <1>2, <2>1, ClockedKept DEF Timed
<1>5. Noted'
  BY <1>1, <1>2, SMTT(20) DEF Timed, Noted, tickVars, Locked
<1>6. Over'
  BY <1>1, <1>2 DEF Timed, Over, Locked
<1> QED
  BY <1>3, <1>4, <1>5, <1>6 DEF Timed

(* Calls that are served, or that fail, keep the times of the others.      *)
LEMMA ServedTimed ==
  ASSUME Types, Types', Sched, Timed, NEW t \in Tasks,
         \/ xQueueGenericSend(t) \/ xQueueGenericReceive(t) \/ xQueueGenericReset(t)
         \/ FailAtOnce(t) \/ (TimedOut(t) /\ Return(t))
  PROVE  Timed'
<1>1. /\ Return(t) /\ UNCHANGED <<tickVars, uxPendedTicks, expired>>
      /\ At(t, "try") \/ At(t, "late")
      /\ WakeReceiver \/ WakeSender \/ UNCHANGED listVars
  BY DEF xQueueGenericSend, xQueueGenericReceive, xQueueGenericReset, FailAtOnce, TimedOut,
     schedVars
<1>2. suspender = None /\ list[t] = "ready"
  BY <1>1, RunsWhere, SMTT(20) DEF Locked
<1>3. \A u \in Tasks : list'[u] # "ready" => list'[u] = list[u]
  BY <1>1, WakeSame DEF listVars, Types
<1> QED
  BY <1>1, <1>2, <1>3, ReturnTimed

(* A call that begins has noted no time yet.                               *)
LEMMA EnterTimed ==
  ASSUME Types, Types', Sched, Timed, NEW t \in Tasks, Enter(t)
  PROVE  Timed'
<1>1. /\ At(t, "idle") /\ Goto(t, "try")
      /\ UNCHANGED <<tickVars, listVars, schedVars, xEntryTimeSet, xTimeOnEntering,
                     wrapped, wake, due, expired>>
      /\ \E w : xTicksToWait' = [xTicksToWait EXCEPT ![t] = w]
  <2>1. \E w : xTicksToWait' = [xTicksToWait EXCEPT ![t] = w]
    BY DEF Enter
  <2> QED
    BY <2>1 DEF Enter
<1>2. pc[t] = "idle" /\ ~xEntryTimeSet[t]
  BY <1>1 DEF At, Timed, Noted
<1>3. /\ \A u \in Tasks \ {t} : pc'[u] = pc[u] /\ xTicksToWait'[u] = xTicksToWait[u]
      /\ pc'[t] = "try"
  BY <1>1 DEF Goto, Types, TimeTypes, CallTypes
<1>4. Asleep(list, xNextTaskUnblockTime, xTickCount, due)'
  BY <1>1, AsleepKept DEF Timed, listVars
<1>5. Clocked(xTickCount, wrapped, due, uxPendedTicks)'
  <2>1. TimeTypes' /\ UNCHANGED xTickCount /\ UNCHANGED uxPendedTicks
    BY <1>1 DEF Types, tickVars, schedVars
  <2> QED
    BY <1>1, <1>2, <1>3, <2>1, ClockedKept DEF Timed
<1>6. Noted'
  BY <1>1, <1>2, <1>3 DEF Timed, Noted, tickVars, Locked
<1>7. Over'
  BY <1>1, <1>3 DEF Timed, Over, Locked
<1> QED
  BY <1>4, <1>5, <1>6, <1>7 DEF Timed

(* The time is noted, once in a call.                                      *)
LEMMA NoteTimed ==
  ASSUME Types, Types', Sched, Timed, NEW t \in Tasks, vTaskSetTimeOutState(t)
  PROVE  Timed'
<1>1. /\ At(t, "try") /\ Goto(t, "suspend") /\ xTicksToWait[t] # 0
      /\ UNCHANGED <<tickVars, listVars, schedVars, expired, xTicksToWait, wrapped, wake>>
  BY DEF vTaskSetTimeOutState, timeVars
<1>2. list[t] = "ready" /\ pc[t] = "try"
  BY <1>1, RunsWhere, SMTT(20) DEF Locked
<1>3. (\A u \in Tasks \ {t} : pc'[u] = pc[u]) /\ pc'[t] = "suspend"
  BY <1>1 DEF Goto, Types, CallTypes
<1>4. /\ xTicksToWait[t] \in 0 .. MaxDelay /\ xTickCount \in 0 .. MaxDelay
      /\ TimeTypes' /\ UNCHANGED xTickCount /\ UNCHANGED uxPendedTicks
      /\ MaxDelay \in Nat /\ TimeTypes
  BY <1>1, TickModulo DEF Types, TimeTypes, TickTypes, tickVars, schedVars
<1>5. CASE (xEntryTimeSet[t] \/ xTicksToWait[t] = MaxDelay) /\ UNCHANGED timeVars
  <2>1. Asleep(list, xNextTaskUnblockTime, xTickCount, due)'
    BY <1>1, <1>5, AsleepKept DEF Timed, listVars, timeVars
  <2>2. Clocked(xTickCount, wrapped, due, uxPendedTicks)'
    BY <1>4, <1>5, ClockedKept DEF Timed, timeVars
  <2>3. Noted'
    BY <1>3, <1>4, <1>5 DEF Timed, Noted, Locked, timeVars
  <2>4. Over'
    BY <1>1, <1>3, <1>5 DEF Timed, Over, Locked, timeVars
  <2> QED
    BY <2>1, <2>2, <2>3, <2>4 DEF Timed
<1>6. CASE /\ ~xEntryTimeSet[t] /\ xTicksToWait[t] # MaxDelay
           /\ xEntryTimeSet' = [xEntryTimeSet EXCEPT ![t] = TRUE]
           /\ xTimeOnEntering' = [xTimeOnEntering EXCEPT ![t] = xTickCount]
           /\ due' = [due EXCEPT ![t] = xTicksToWait[t]]
  <2>1. /\ \A u \in Tasks \ {t} : /\ xEntryTimeSet'[u] = xEntryTimeSet[u]
                                  /\ xTimeOnEntering'[u] = xTimeOnEntering[u]
                                  /\ due'[u] = due[u]
        /\ xEntryTimeSet'[t] /\ xTimeOnEntering'[t] = xTickCount
        /\ due'[t] = xTicksToWait[t]
    BY <1>4, <1>6 DEF TimeTypes
  <2>2. Asleep(list, xNextTaskUnblockTime, xTickCount, due)'
    BY <1>1, <1>2, <2>1, AsleepKept DEF Timed, listVars
  <2>3. Clocked(xTickCount, wrapped, due, uxPendedTicks)'
    <3> SUFFICES ASSUME NEW u \in Tasks
             PROVE  (IF xEntryTimeSet[u]
                     THEN /\ Elapsed(xTickCount, wrapped, u) >= 0
                          /\ due[u] = IF Elapsed(xTickCount, wrapped, u) < xTicksToWait[u]
                                      THEN xTicksToWait[u] - Elapsed(xTickCount, wrapped, u)
                                      ELSE 0
                          /\ wrapped[u] => xTickCount + uxPendedTicks < TickMod
                     ELSE ~wrapped[u])'
      BY DEF Clocked
    <3>1. CASE u # t
      <4>1. Elapsed(xTickCount, wrapped, u)' = Elapsed(xTickCount, wrapped, u)
        BY <1>1, <1>4, <2>1, <3>1 DEF Elapsed
      <4> QED
        BY <1>1, <1>4, <2>1, <3>1, <4>1 DEF Timed, Clocked
    <3>2. CASE u = t
      <4>1. ~wrapped[t]
        BY <1>6 DEF Timed, Clocked
      <4>2. ~wrapped'[t] /\ xTicksToWait'[t] = xTicksToWait[t]
        BY <1>1, <4>1
      <4>3. xTickCount' \in Int /\ xTimeOnEntering'[t] = xTickCount'
        BY <1>4, <2>1, SMTT(20)
      <4>4. Elapsed(xTickCount, wrapped, t)' = 0
        <5>1. Elapsed(xTickCount, wrapped, t)' = (xTickCount' - xTickCount') + 0
          BY <4>2, <4>3 DEF Elapsed
        <5>2. \A i \in Int : (i - i) + 0 = 0
          BY SMTT(20)
        <5> QED
          BY <4>3, <5>1, <5>2
      <4>5. due'[t] = xTicksToWait'[t] /\ xTicksToWait'[t] \in Nat /\ xEntryTimeSet'[t]
        BY <1>4, <2>1, <4>2, SMTT(20)
      <4> QED
        BY <3>2, <4>2, <4>4, <4>5, SMTT(20)
    <3> QED
      BY <3>1, <3>2
  <2>4. xTicksToWait[t] \in 1 .. MaxDelay - 1
    BY <1>1, <1>4, <1>6, SMTT(20)
  <2>5. Noted'
    BY <1>1, <1>3, <1>4, <2>1, <2>4 DEF Timed, Noted, Locked
  <2>6. Over'
    BY <1>1, <1>3, <2>1 DEF Timed, Over, Locked
  <2> QED
    BY <2>2, <2>3, <2>5, <2>6 DEF Timed
<1> QED
  BY <1>5, <1>6 DEF vTaskSetTimeOutState

-----------------------------------------------------------------------------
(* Checking the time, sleeping, and the tick.                              *)

(* xTaskCheckForTimeOut measures the time that has passed, over one wrap.  *)
LEMMA CheckIsElapsed ==
  ASSUME Types, Timed, NEW t \in Tasks, xEntryTimeSet[t],
         NEW e, e = (xTickCount - xTimeOnEntering[t]) % TickMod
  PROVE  /\ e \in 0 .. MaxDelay
         /\ Elapsed(xTickCount, wrapped, t) \in Nat
         /\ ~(wrapped[t] /\ xTickCount >= xTimeOnEntering[t])
              => e = Elapsed(xTickCount, wrapped, t)
         /\ wrapped[t] /\ xTickCount >= xTimeOnEntering[t]
              => Elapsed(xTickCount, wrapped, t) > MaxDelay
<1> DEFINE b == xTimeOnEntering[t]
           n == xTickCount
           a == n - b
           p == Elapsed(xTickCount, wrapped, t)
<1>1. /\ b \in 0 .. MaxDelay /\ n \in 0 .. MaxDelay /\ wrapped[t] \in BOOLEAN
      /\ TickMod \in Nat \ {0} /\ MaxDelay = TickMod - 1
  BY TickModulo DEF Types, TimeTypes, TickTypes
<1>2. p = a + (IF wrapped[t] THEN TickMod ELSE 0)
  BY DEF Elapsed
<1>3. p >= 0
  BY DEF Timed, Clocked
<1>4. e = a % TickMod
  OBVIOUS
<1>5. a \in Int
  BY <1>1, SMTT(20)
<1> HIDE DEF p, a
<1>6. /\ a % TickMod \in 0 .. TickMod - 1
      /\ a \in 0 .. TickMod - 1 => a % TickMod = a
      /\ a + TickMod \in 0 .. TickMod - 1 => a % TickMod = a + TickMod
  BY <1>1, <1>5, Modulo
<1>7. p \in Nat
  BY <1>1, <1>2, <1>3, <1>5, SMTT(20)
<1>8. CASE wrapped[t] /\ n >= b
  BY <1>1, <1>2, <1>4, <1>6, <1>7, <1>8, SMTT(20) DEF a, p
<1>9. CASE wrapped[t] /\ ~(n >= b)
  <2>1. a + TickMod \in 0 .. TickMod - 1 /\ p = a + TickMod
    BY <1>1, <1>2, <1>9, SMTT(20) DEF a
  <2> QED
    BY <1>1, <1>4, <1>6, <1>7, <1>9, <2>1 DEF p
<1>10. CASE ~wrapped[t]
  <2>1. a \in 0 .. TickMod - 1 /\ p = a
    BY <1>1, <1>2, <1>3, <1>10, SMTT(20) DEF a
  <2> QED
    BY <1>1, <1>4, <1>6, <1>7, <1>10, <2>1 DEF p
<1> QED
  BY <1>1, <1>8, <1>9, <1>10

(* xTaskCheckForTimeOut gives up only when the time is over, and otherwise *)
(* notes what is left of it.                                               *)
LEMMA CheckTimed ==
  ASSUME Types, Types', Sched, Timed, NEW t \in Tasks, LockAndCheck(t)
  PROVE  Timed'
<1> DEFINE b == xTimeOnEntering[t]
           w == xTicksToWait[t]
           e == (xTickCount - b) % TickMod
           forever == w = MaxDelay
           inTime == forever \/ (~(wrapped[t] /\ xTickCount >= b) /\ e < w)
           p == Elapsed(xTickCount, wrapped, t)
<1>1. /\ At(t, "lock")
      /\ UNCHANGED <<tickVars, listVars, schedVars, xEntryTimeSet, wake, due>>
  BY DEF LockAndCheck, xTaskCheckForTimeOut
<1>2. /\ expired' = ~inTime
      /\ IF inTime /\ ~forever
           THEN /\ xTicksToWait' = [xTicksToWait EXCEPT ![t] = w - e]
                /\ xTimeOnEntering' = [xTimeOnEntering EXCEPT ![t] = xTickCount]
                /\ wrapped' = [wrapped EXCEPT ![t] = FALSE]
           ELSE UNCHANGED <<xTicksToWait, xTimeOnEntering, wrapped>>
      /\ Goto(t, IF inTime THEN "test" ELSE "unlockTx")
  BY DEF LockAndCheck, xTaskCheckForTimeOut
<1>3. suspender = t /\ pc[t] = "lock" /\ list[t] = "ready"
  BY <1>1, RunsWhere, SMTT(20) DEF Locked, Sched
<1>4. \A u \in Tasks \ {t} : pc[u] \notin Locked
  BY <1>3 DEF Sched
<1>5. (\A u \in Tasks \ {t} : pc'[u] = pc[u]) /\ pc'[t] = IF inTime THEN "test" ELSE "unlockTx"
  BY <1>2 DEF Goto, Types, CallTypes
<1>6. /\ w \in 0 .. MaxDelay /\ MaxDelay \in Nat /\ xTickCount \in 0 .. MaxDelay
      /\ TimeTypes /\ TimeTypes' /\ UNCHANGED xTickCount /\ UNCHANGED uxPendedTicks
  BY <1>1, TickModulo DEF Types, TimeTypes, TickTypes, tickVars, schedVars
<1>7. xEntryTimeSet[t] \/ forever
  BY <1>3 DEF Timed, Noted, Locked
<1>8. xEntryTimeSet[t] => ~forever /\ w \in 1 .. MaxDelay - 1
  BY <1>6, SMTT(20) DEF Timed, Noted
<1>9. xEntryTimeSet[t] =>
        /\ e \in 0 .. MaxDelay /\ p \in Nat
        /\ ~(wrapped[t] /\ xTickCount >= b) => e = p
        /\ wrapped[t] /\ xTickCount >= b => p > MaxDelay
  BY CheckIsElapsed
<1>10. xEntryTimeSet[t] => due[t] = IF p < w THEN w - p ELSE 0
  BY DEF Timed, Clocked
<1>11. xEntryTimeSet[t] => (inTime <=> p < w)
  <2> SUFFICES ASSUME xEntryTimeSet[t] PROVE inTime <=> p < w
    OBVIOUS
  <2>1. ~forever /\ w \in 1 .. MaxDelay - 1
    BY <1>8
  <2>2. CASE wrapped[t] /\ xTickCount >= b
    <3>1. p > MaxDelay /\ p \in Nat
      BY <1>9, <2>2
    <3> HIDE DEF p, e, w, forever
    <3> QED
      BY <1>6, <2>1, <2>2, <3>1, SMTT(20)
  <2>3. CASE ~(wrapped[t] /\ xTickCount >= b)
    <3>1. e = p
      BY <1>9, <2>3
    <3> HIDE DEF p, e, w, forever
    <3> QED
      BY <2>1, <2>3, <3>1
  <2> QED
    BY <2>2, <2>3
<1>12. Asleep(list, xNextTaskUnblockTime, xTickCount, due)'
  BY <1>1, AsleepKept DEF Timed, listVars
<1>13. CASE inTime /\ ~forever
  <2>1. /\ \A u \in Tasks \ {t} : /\ xTicksToWait'[u] = xTicksToWait[u]
                                  /\ xTimeOnEntering'[u] = xTimeOnEntering[u]
                                  /\ wrapped'[u] = wrapped[u]
        /\ xTicksToWait'[t] = w - e /\ xTimeOnEntering'[t] = xTickCount /\ ~wrapped'[t]
    <3> HIDE DEF e, w, b, inTime, forever
    <3> QED
      BY <1>2, <1>13, <1>6 DEF TimeTypes
  <2>2. /\ xEntryTimeSet[t] /\ p < w /\ p \in Nat /\ e = p /\ w \in 1 .. MaxDelay - 1
    BY <1>7, <1>8, <1>9, <1>11, <1>13
  <2>3. xTicksToWait'[t] = w - p /\ due[t] = w - p /\ w - p \in 1 .. MaxDelay - 1
    <3>1. xTicksToWait'[t] = w - p /\ due[t] = IF p < w THEN w - p ELSE 0
      BY <1>10, <2>1, <2>2
    <3> HIDE DEF e, w, p
    <3> QED
      BY <1>6, <2>2, <3>1, SMTT(20)
  <2> HIDE DEF e, w, p, b, inTime, forever
  <2>4. Clocked(xTickCount, wrapped, due, uxPendedTicks)'
    <3> SUFFICES ASSUME NEW u \in Tasks
             PROVE  (IF xEntryTimeSet[u]
                     THEN /\ Elapsed(xTickCount, wrapped, u) >= 0
                          /\ due[u] = IF Elapsed(xTickCount, wrapped, u) < xTicksToWait[u]
                                      THEN xTicksToWait[u] - Elapsed(xTickCount, wrapped, u)
                                      ELSE 0
                          /\ wrapped[u] => xTickCount + uxPendedTicks < TickMod
                     ELSE ~wrapped[u])'
      BY DEF Clocked
    <3>1. CASE u # t
      <4>1. Elapsed(xTickCount, wrapped, u)' = Elapsed(xTickCount, wrapped, u)
        BY <1>6, <2>1, <3>1 DEF Elapsed
      <4> QED
        BY <1>1, <1>6, <2>1, <3>1, <4>1 DEF Timed, Clocked
    <3>2. CASE u = t
      <4>1. Elapsed(xTickCount, wrapped, t)' = 0
        BY <1>6, <2>1, SMTT(20) DEF Elapsed
      <4> QED
        BY <1>1, <2>1, <2>2, <2>3, <3>2, <4>1, SMTT(20)
    <3> QED
      BY <3>1, <3>2
  <2>5. Noted'
    BY <1>1, <1>4, <1>5, <1>6, <1>13, <2>1, <2>2, <2>3 DEF Timed, Noted, Locked
  <2>6. Over'
    BY <1>1, <1>2, <1>4, <1>5, <1>13 DEF Timed, Over, Locked
  <2> QED
    BY <1>12, <2>4, <2>5, <2>6 DEF Timed
<1>14. CASE ~(inTime /\ ~forever)
  <2>1. UNCHANGED <<xTicksToWait, xTimeOnEntering, wrapped>>
    <3> HIDE DEF inTime, forever
    <3> QED
      BY <1>2, <1>14
  <2>2. forever \/ ~inTime
    BY <1>14
  <2>3. forever => inTime /\ ~xEntryTimeSet[t]
    BY <1>8
  <2>4. ~inTime => due[t] = 0
    <3>1. xEntryTimeSet[t] => w \in Nat /\ p \in Nat
      BY <1>6, <1>9, SMTT(20)
    <3> HIDE DEF inTime, forever, p, w
    <3> QED
      BY <1>7, <1>10, <1>11, <2>3, <3>1
  <2> HIDE DEF e, w, p, b, inTime, forever
  <2>5. Clocked(xTickCount, wrapped, due, uxPendedTicks)'
    BY <1>1, <1>6, <2>1, ClockedKept DEF Timed
  <2>6. Noted'
    BY <1>1, <1>3, <1>4, <1>5, <1>6, <2>1, <2>2, <2>3 DEF Timed, Noted, Locked
  <2>7. Over'
    BY <1>1, <1>2, <1>4, <1>5, <2>4 DEF Timed, Over, Locked
  <2> QED
    BY <1>12, <2>5, <2>6, <2>7 DEF Timed
<1> QED
  BY <1>13, <1>14

(* A task that goes to sleep.                                              *)
LEMMA PlaceTimed ==
  ASSUME Types, Types', Sched, Timed, NEW t \in Tasks, TestAgain(t)
  PROVE  Timed'
<1>1. /\ At(t, "test") /\ Goto(t, "unlockTx")
      /\ UNCHANGED <<xTickCount, schedVars, xTicksToWait, xEntryTimeSet, xTimeOnEntering,
                     wrapped, due, expired>>
  BY DEF TestAgain
<1>2. suspender = t /\ pc[t] = "test" /\ list[t] = "ready" /\ ~expired
  BY <1>1, RunsWhere DEF Locked, Sched
<1>3. (\A u \in Tasks \ {t} : pc'[u] = pc[u]) /\ pc'[t] = "unlockTx"
  BY <1>1 DEF Goto, Types, CallTypes
<1>4. Noted'
  BY <1>1, <1>2, <1>3 DEF Timed, Noted, Locked
<1>5. Over'
  BY <1>1, <1>2, <1>3 DEF Timed, Over, Locked
<1>6. Clocked(xTickCount, wrapped, due, uxPendedTicks)'
  <2>1. TimeTypes' /\ UNCHANGED uxPendedTicks
    BY <1>1 DEF Types, schedVars
  <2> QED
    BY <1>1, <2>1, ClockedKept DEF Timed
<1>7. Asleep(list, xNextTaskUnblockTime, xTickCount, due)'
  <2> DEFINE n == xTickCount
             w == xTicksToWait[t]
             a == n + w
             until == a % TickMod
  <2>0. /\ n \in 0 .. MaxDelay /\ w \in 0 .. MaxDelay /\ MaxDelay \in Nat
        /\ TickMod = MaxDelay + 1 /\ TickMod \in Nat \ {0}
        /\ xNextTaskUnblockTime \in 0 .. MaxDelay
        /\ list \in [Tasks -> ListNames] /\ wake \in [Tasks -> 0 .. MaxDelay]
    BY TickModulo, SMTT(20) DEF Types, TimeTypes, ListTypes, TickTypes
  <2>1. CASE UNCHANGED <<list, wake, xNextTaskUnblockTime>>
    BY <1>1, <2>1, AsleepKept DEF Timed, tickVars
  <2>2. CASE list' = [list EXCEPT ![t] = "suspended"] /\ UNCHANGED <<wake, xNextTaskUnblockTime>>
    <3>1. (\A u \in Tasks \ {t} : list'[u] = list[u]) /\ list'[t] = "suspended"
      BY <2>0, <2>2
    <3> QED
      BY <1>1, <2>2, <3>1 DEF Timed, Asleep
  <2>3. CASE /\ w # MaxDelay
             /\ wake' = [wake EXCEPT ![t] = until]
             /\ list' = [list EXCEPT ![t] = IF until < n THEN "overflow" ELSE "delayed"]
             /\ xNextTaskUnblockTime' =
                  IF until >= n /\ until < xNextTaskUnblockTime
                  THEN until ELSE xNextTaskUnblockTime
    <3>1. xEntryTimeSet[t] /\ w \in 1 .. MaxDelay - 1
      BY <1>2, <2>3 DEF Timed, Noted, Locked
    <3>2. due[t] = w
      <4>1. xTimeOnEntering[t] = n /\ ~wrapped[t]
        BY <1>2, <3>1 DEF Timed, Noted
      <4>2. Elapsed(xTickCount, wrapped, t) = 0
        BY <2>0, <4>1, SMTT(20) DEF Elapsed
      <4>3. due[t] = IF 0 < w THEN w - 0 ELSE 0
        BY <3>1, <4>2 DEF Timed, Clocked
      <4> QED
        BY <3>1, <4>3, SMTT(20)
    <3>3. \/ a < TickMod /\ until = a
          \/ a >= TickMod /\ until = a - TickMod
      <4>1. a \in Int /\ (a < TickMod => a \in 0 .. TickMod - 1)
            /\ (a >= TickMod => a - TickMod \in 0 .. TickMod - 1)
        BY <2>0, <3>1, SMTT(20)
      <4> HIDE DEF a
      <4>2. /\ a \in 0 .. TickMod - 1 => a % TickMod = a
            /\ a - TickMod \in 0 .. TickMod - 1 => a % TickMod = a - TickMod
        BY <2>0, <4>1, Modulo
      <4> QED
        BY <2>0, <4>1, <4>2, SMTT(20)
    <3> HIDE DEF until
    <3>4. until \in 0 .. MaxDelay
      BY <2>0, <3>1, <3>3, SMTT(20)
    <3>5. \/ until > n /\ w = until - n
          \/ until < n /\ w = until + TickMod - n
      BY <2>0, <3>1, <3>3, SMTT(20)
    <3>6. /\ \A u \in Tasks \ {t} : list'[u] = list[u] /\ wake'[u] = wake[u]
          /\ list'[t] = (IF until < n THEN "overflow" ELSE "delayed") /\ wake'[t] = until
      BY <2>0, <2>3
    <3>7. xNextTaskUnblockTime' <= xNextTaskUnblockTime
          /\ (until >= n => xNextTaskUnblockTime' <= until)
      BY <2>0, <2>3, <3>4, SMTT(20)
    <3> HIDE DEF n, w, a
    <3>8. ASSUME NEW u \in Tasks
          PROVE  (/\ list[u] = "delayed" => /\ xNextTaskUnblockTime <= wake[u]
                                            /\ xTickCount < wake[u]
                                            /\ due[u] = wake[u] - xTickCount
                  /\ list[u] = "overflow" => /\ wake[u] < xTickCount
                                             /\ due[u] = wake[u] + TickMod - xTickCount)'
      <4>1. CASE u = t
        BY <1>1, <2>0, <3>2, <3>4, <3>5, <3>6, <3>7, <4>1, SMTT(20) DEF n
      <4>2. CASE u # t
        <5>1. xNextTaskUnblockTime' \in 0 .. MaxDelay /\ wake[u] \in 0 .. MaxDelay
          BY <2>0 DEF Types, TickTypes
        <5> QED
          BY <1>1, <2>0, <3>6, <3>7, <4>2, <5>1, SMTT(20) DEF Timed, Asleep
      <4> QED
        BY <4>1, <4>2
    <3> QED
      BY <3>8 DEF Asleep
  <2> QED
    BY <2>1, <2>2, <2>3 DEF TestAgain, vTaskPlaceOnEventList, prvAddCurrentTaskToDelayedList
<1> QED
  BY <1>4, <1>5, <1>6, <1>7 DEF Timed

(* xTaskResumeAll: the pended tasks no longer sleep, and the pended ticks  *)
(* are counted.                                                            *)
LEMMA ResumeTimed ==
  ASSUME Types, Types', Sched, Timed, NEW t \in Tasks, xTaskResumeAll(t)
  PROVE  Timed'
<1> DEFINE k == Resumed
           x == Ticked(Resumed, uxPendedTicks)
<1>1. /\ At(t, "resume") /\ Goto(t, IF expired THEN "late" ELSE "try")
      /\ uxPendedTicks' = 0 /\ suspender' = None /\ expired' = FALSE
      /\ UNCHANGED <<xTicksToWait, xEntryTimeSet, xTimeOnEntering, wake>>
  BY DEF xTaskResumeAll
<1>2. pc[t] = "resume" /\ suspender = t
  BY <1>1, RunsWhere DEF Locked
<1>3. BecomesKernel(x)
  BY ResumesTicked
<1>4. /\ k \in KernelType /\ k.tick = xTickCount /\ k.wrapped = wrapped /\ k.due = due
      /\ k.list = [u \in Tasks |-> IF u \in xPendingReadyList THEN "ready" ELSE list[u]]
      /\ k.next = IF xPendingReadyList = {} THEN xNextTaskUnblockTime
                  ELSE NextUnblock(k.list)
  BY ResumedIs
<1> HIDE DEF k
<1>5. \A u \in Tasks : k.list[u] = "delayed" => k.next <= wake[u]
  <2>1. CASE xPendingReadyList = {}
    BY <1>4, <2>1 DEF Timed, Asleep
  <2>2. CASE xPendingReadyList # {}
    <3>1. k.next = NextUnblock(k.list) /\ wake \in [Tasks -> 0 .. MaxDelay]
      BY <1>4, <2>2 DEF Types, TimeTypes
    <3> QED
      BY <3>1, NextUnblockFirst
  <2> QED
    BY <2>1, <2>2
<1>6. \A u \in Tasks : k.list[u] # "ready" => k.list[u] = list[u]
  BY <1>4
<1>7. Asleep(k.list, k.next, k.tick, k.due)
  BY <1>4, <1>5, <1>6 DEF Timed, Asleep
<1>8. Clocked(k.tick, k.wrapped, k.due, uxPendedTicks)
  BY <1>4 DEF Timed
<1>9. \A u \in Tasks : xEntryTimeSet[u] => xTicksToWait[u] >= 1
  BY SMTT(20) DEF Timed, Noted
<1>10. /\ Asleep(x.list, x.next, x.tick, x.due)
       /\ Clocked(x.tick, x.wrapped, x.due, 0)
       /\ \A u \in Tasks : k.due[u] = 0 => x.due[u] = 0
  BY <1>4, <1>7, <1>8, <1>9, TickedTimed DEF k
<1> HIDE DEF x
<1>11. /\ xTickCount' = x.tick /\ xNextTaskUnblockTime' = x.next /\ list' = x.list
       /\ wrapped' = x.wrapped /\ due' = x.due
  BY <1>3 DEF BecomesKernel
<1>12. Asleep(list, xNextTaskUnblockTime, xTickCount, due)'
  BY <1>1, <1>10, <1>11 DEF Asleep
<1>13. Clocked(xTickCount, wrapped, due, uxPendedTicks)'
  BY <1>1, <1>10, <1>11 DEF Clocked, Elapsed
<1>14. /\ \A u \in Tasks \ {t} : pc'[u] = pc[u] /\ pc[u] \notin Locked
       /\ pc'[t] = IF expired THEN "late" ELSE "try"
  BY <1>1, <1>2 DEF Goto, Types, CallTypes, Sched
<1>15. Noted'
  BY <1>1, <1>2, <1>14 DEF Timed, Noted, Locked
<1>16. Over'
  BY <1>1, <1>2, <1>4, <1>10, <1>11, <1>14 DEF Timed, Over, Locked
<1> QED
  BY <1>12, <1>13, <1>15, <1>16 DEF Timed

(* A tick of a running scheduler is counted, one of a suspended scheduler  *)
(* is pended.                                                              *)
LEMMA TickTimed ==
  ASSUME Types, Types', Sched, Timed, Tick
  PROVE  Timed'
<1>1. UNCHANGED <<wake, suspender, pc, xTicksToWait, xEntryTimeSet, xTimeOnEntering, expired>>
  BY DEF Tick
<1>2. /\ TimeTypes /\ xTickCount \in 0 .. MaxDelay /\ uxPendedTicks \in 0 .. MaxPended
      /\ MaxDelay \in Nat /\ TickMod \in Nat /\ TickMod >= 1 /\ MaxPended \in Nat
  BY TickModulo, ConstantsAssumption, SMTT(20) DEF Types, TickTypes
<1>3. ASSUME NEW n \in Nat, Prompt(n) PROVE Clocked(xTickCount, wrapped, due, n)
  <2> SUFFICES ASSUME NEW u \in Tasks, xEntryTimeSet[u], wrapped[u]
               PROVE  xTickCount + n < TickMod
    BY DEF Timed, Clocked
  <2>1. xTicksToWait[u] # MaxDelay
    BY <1>2, SMTT(20) DEF Timed, Noted
  <2> QED
    BY <1>3, <2>1 DEF Prompt
<1>4. CASE /\ suspender = None /\ Prompt(1)
           /\ BecomesKernel(xTaskIncrementTick(Kernel)) /\ UNCHANGED uxPendedTicks
  <2> DEFINE k == Kernel
             x == xTaskIncrementTick(Kernel)
  <2>1. /\ k \in KernelType /\ k.list = list /\ k.next = xNextTaskUnblockTime
        /\ k.tick = xTickCount /\ k.wrapped = wrapped /\ k.due = due
    BY KernelTyped DEF Kernel
  <2>2. uxPendedTicks = 0 /\ \A u \in Tasks : pc[u] \notin Locked
    BY <1>4, ConstantsAssumption DEF Sched
  <2>3. /\ Asleep(k.list, k.next, k.tick, k.due)
        /\ Clocked(k.tick, k.wrapped, k.due, 1)
    BY <1>3, <1>4, <2>1 DEF Timed
  <2>4. /\ wake \in [Tasks -> 0 .. MaxDelay] /\ xEntryTimeSet \in [Tasks -> BOOLEAN]
        /\ 1 \in 1 .. TickMod
        /\ \A u \in Tasks : xEntryTimeSet[u] => xTicksToWait[u] >= 1
    BY <1>2, SMTT(20) DEF TimeTypes, Timed, Noted
  <2>5. Asleep(x.list, x.next, x.tick, x.due)
    <3> HIDE DEF k
    <3> QED
      BY <2>1, <2>3, <2>4, TickAsleep DEF k
  <2>6. Clocked(x.tick, x.wrapped, x.due, 1 - 1)
    <3> HIDE DEF k
    <3> QED
      BY <1>2, <2>1, <2>3, <2>4, TickClocked DEF k
  <2>7. x.due = [u \in Tasks |-> IF k.due[u] > 0 THEN k.due[u] - 1 ELSE 0]
    BY TickIs
  <2> HIDE DEF x, k
  <2>8. /\ xTickCount' = x.tick /\ xNextTaskUnblockTime' = x.next /\ list' = x.list
        /\ wrapped' = x.wrapped /\ due' = x.due
    BY <1>4 DEF BecomesKernel, x
  <2>9. Asleep(list, xNextTaskUnblockTime, xTickCount, due)'
    BY <1>1, <2>5, <2>8 DEF Asleep
  <2>10. Clocked(xTickCount, wrapped, due, uxPendedTicks)'
    <3>1. uxPendedTicks' = 1 - 1
      BY <1>4, <2>2, SMTT(20)
    <3> QED
      BY <1>1, <2>6, <2>8, <3>1 DEF Clocked, Elapsed
  <2>11. Noted'
    BY <1>1, <2>2 DEF Timed, Noted, Locked
  <2>12. Over'
    BY <1>1, <2>1, <2>2, <2>7, <2>8, SMTT(20) DEF Timed, Over, Locked
  <2> QED
    BY <2>9, <2>10, <2>11, <2>12 DEF Timed
<1>5. CASE /\ Prompt(uxPendedTicks + 1) /\ uxPendedTicks' = uxPendedTicks + 1
           /\ UNCHANGED <<tickVars, list, wrapped, due>>
  <2>1. uxPendedTicks + 1 \in Nat
    BY <1>2, SMTT(20)
  <2>2. Clocked(xTickCount, wrapped, due, uxPendedTicks + 1)
    BY <1>3, <1>5, <2>1
  <2>3. Clocked(xTickCount, wrapped, due, uxPendedTicks)'
    BY <1>1, <1>5, <2>2 DEF Clocked, Elapsed, tickVars
  <2>4. Asleep(list, xNextTaskUnblockTime, xTickCount, due)'
    BY <1>1, <1>5, AsleepKept DEF Timed
  <2>5. Noted' /\ Over'
    BY <1>1, <1>5 DEF Timed, Noted, Over, tickVars
  <2> QED
    BY <2>3, <2>4, <2>5 DEF Timed
<1> QED
  BY <1>4, <1>5 DEF Tick

(* Steps of a call that leave the times alone.                             *)
LEMMA OnwardTimed ==
  ASSUME Types, Types', Sched, Timed, NEW t \in Tasks,
         \/ vTaskSuspendAll(t) \/ prvUnlockQueueTx(t) \/ prvUnlockQueueRx(t)
         \/ (TimedOut(t) /\ Goto(t, "try") /\ UNCHANGED timeVars)
  PROVE  Timed'
<1>1. /\ \/ At(t, "suspend") /\ Goto(t, "lock")
         \/ At(t, "unlockTx") /\ Goto(t, "unlockRx")
         \/ At(t, "unlockRx") /\ Goto(t, "resume")
         \/ At(t, "late") /\ Goto(t, "try")
      /\ UNCHANGED <<tickVars, uxPendedTicks, timeVars, expired>>
      /\ UNCHANGED listVars \/ \E ts : Woken(ts)
  BY DEF vTaskSuspendAll, prvUnlockQueueTx, prvUnlockQueueRx, TimedOut, schedVars
<1>2. \A u \in Tasks : list'[u] # "ready" => list'[u] = list[u]
  BY <1>1, WokenSame DEF listVars, Types
<1>3. pc[t] = "suspend" => ~expired
  <2>1. pc[t] = "suspend" => suspender = None
    BY <1>1, RunsWhere DEF Locked, At
  <2> QED
    BY <2>1 DEF Sched
<1>4. \/ pc[t] = "suspend" /\ pc'[t] = "lock"
      \/ pc[t] \in Locked /\ pc'[t] \in {"unlockRx", "resume"}
      \/ pc[t] = "late" /\ pc'[t] = "try"
  BY <1>1 DEF At, Goto, Types, CallTypes, Locked
<1>5. \A u \in Tasks \ {t} : pc'[u] = pc[u]
  BY <1>1 DEF Goto, Types, CallTypes
<1>6. \A u \in Tasks :
        \/ pc'[u] = pc[u]
        \/ /\ pc'[u] \in {"try", "lock", "unlockRx", "resume"}
           /\ pc[u] # "idle"
           /\ pc'[u] \in Locked => \/ pc[u] \in Locked
                                   \/ pc[u] = "suspend" /\ ~expired
  BY <1>3, <1>4, <1>5 DEF Locked
<1> QED
  BY <1>1, <1>2, <1>6, MoveTimed

(* The FromISR calls leave the times alone.                                *)
LEMMA InterruptTimed ==
  ASSUME Types, Types', Sched, Timed,
         xQueueGenericSendFromISR \/ xQueueReceiveFromISR \/ UNCHANGED vars
  PROVE  Timed'
<1>1. UNCHANGED <<tickVars, uxPendedTicks, timeVars, expired>> /\ UNCHANGED pc
  BY DEF xQueueGenericSendFromISR, xQueueReceiveFromISR, vars, schedVars
<1>2. WakeReceiver \/ WakeSender \/ UNCHANGED listVars
  BY DEF xQueueGenericSendFromISR, xQueueReceiveFromISR, vars
<1>3. \A u \in Tasks : list'[u] # "ready" => list'[u] = list[u]
  BY <1>2, WakeSame DEF listVars, Types
<1> QED
  BY <1>1, <1>3, MoveTimed

(* Every step keeps the times.                                             *)
LEMMA StepTimed ==
  ASSUME Types, Types', Sched, Timed, [Next]_vars
  PROVE  Timed'
<1>1. ASSUME NEW t \in Tasks, TimedOut(t) PROVE Timed'
  BY <1>1, ServedTimed, OnwardTimed DEF TimedOut
<1>2. ASSUME NEW t \in Tasks, Enter(t) \/ Step(t) PROVE Timed'
  <2>1. CASE \/ xQueueGenericSend(t) \/ xQueueGenericReceive(t) \/ xQueueGenericReset(t)
             \/ FailAtOnce(t)
    BY <2>1, ServedTimed
  <2>2. CASE vTaskSuspendAll(t) \/ prvUnlockQueueTx(t) \/ prvUnlockQueueRx(t)
    BY <2>2, OnwardTimed
  <2>3. CASE Enter(t) \/ vTaskSetTimeOutState(t)
    BY <2>3, EnterTimed, NoteTimed
  <2>4. CASE LockAndCheck(t) \/ TestAgain(t) \/ xTaskResumeAll(t)
    BY <2>4, CheckTimed, PlaceTimed, ResumeTimed
  <2> QED
    BY <1>1, <1>2, <2>1, <2>2, <2>3, <2>4 DEF Step
<1> QED
  BY <1>2, TickTimed, InterruptTimed DEF Next

(* At the start nobody sleeps.                                             *)
LEMMA InitTimed == Init => Timed
<1> SUFFICES ASSUME Init PROVE Timed
  OBVIOUS
<1>1. Noted
  BY DEF Init, Noted, Locked
<1>2. Over
  BY DEF Init, Over, Locked
<1>3. Asleep(list, xNextTaskUnblockTime, xTickCount, due)
  BY DEF Init, Asleep
<1>4. Clocked(xTickCount, wrapped, due, uxPendedTicks)
  BY DEF Init, Clocked
<1> QED
  BY <1>1, <1>2, <1>3, <1>4 DEF Timed

(* The times agree, for all time.                                          *)
LEMMA TimedInvariance == Spec => [](Types /\ Timed)
<1>1. Timed /\ (IInv /\ Types /\ Sched) /\ (IInv /\ Types /\ Sched)' /\ [Next]_vars => Timed'
  BY StepTimed
<1> QED
  BY <1>1, TypesInvariance, InitTimed, PTL DEF Spec

(* When the tick count wraps the delayed list is empty:                    *)
(* taskSWITCH_DELAYED_LISTS loses no sleeper.                              *)
THEOREM NoOneDelayedAtWrap == Spec => []DelayedEmptyAtWrap
<1>1. Types /\ Timed => DelayedEmptyAtWrap
  BY TickModulo, SMTT(20) DEF Types, TimeTypes, Timed, Asleep, DelayedEmptyAtWrap
<1> QED
  BY <1>1, TimedInvariance, PTL

(* No task sleeps longer than it asked to (prvAddCurrentTaskToDelayedList, *)
(* xTaskIncrementTick, xTaskResumeAll).                                    *)
THEOREM NoOneOversleeps == Spec => []NeverOversleeps
<1>1. Types /\ Timed => NeverOversleeps
  <2> SUFFICES ASSUME Types, Timed, NEW t \in Tasks, list[t] \in {"delayed", "overflow"}
               PROVE  due[t] > 0
    BY DEF NeverOversleeps
  <2>1. /\ wake[t] \in 0 .. MaxDelay /\ xTickCount \in 0 .. MaxDelay
        /\ MaxDelay \in Nat /\ TickMod = MaxDelay + 1
    BY TickModulo, SMTT(20) DEF Types, TimeTypes, TickTypes
  <2> QED
    BY <2>1, SMTT(20) DEF Timed, Asleep
<1> QED
  BY <1>1, TimedInvariance, PTL

(* No call returns errQUEUE_FULL or errQUEUE_EMPTY before its block time   *)
(* is over (xTaskCheckForTimeOut).                                         *)
THEOREM NoCallGivesUpEarly == Spec => NeverTooEarly
<1>1. Types /\ Timed
        => [\A t \in Tasks : pc[t] = "late" /\ pc'[t] = "idle" => due[t] = 0]_vars
  BY DEF Timed, Over
<1> QED
  BY <1>1, TimedInvariance, PTL DEF NeverTooEarly
=============================================================================
