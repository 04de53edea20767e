-------------------------- MODULE QueueWaitProofs ---------------------------
(***************************************************************************)
(* No task that waits for a queue is forgotten, and no wakeup is lost.     *)
(*                                                                         *)
(* Queued says where a blocked task is: in one event list, once, or among  *)
(* the tasks that became ready while the scheduler was suspended.          *)
(* EnoughWoken counts: as long as a task waits to receive, the tasks that  *)
(* have yet to look at the queue, and what interrupts counted in cTxLock,  *)
(* are together as many as the items that wait; the same holds of senders, *)
(* cRxLock and free places. One looker fewer, or one wakeup fewer, and a   *)
(* receiver could sleep beside an item.                                    *)
(***************************************************************************)
EXTENDS QueueProofs, FiniteSetTheorems

(* Leaves are for Zenon, unless they say SMT.                              *)
USE ZenonT(30)

(* The calls that receive.                                                 *)
Receives == {"receive", "peek"}

(* Who is in the event lists s and r, given the state lists l and the      *)
(* pending ready list p.                                                   *)
Waiting(l, s, r, p) ==
  /\ Distinct(s) /\ Distinct(r)
  /\ \A t \in Members(s) : call[t] \in Sends /\ l[t] # "ready" /\ t \notin p
  /\ \A t \in Members(r) : call[t] \in Receives /\ l[t] # "ready" /\ t \notin p
  /\ \A t \in Tasks : l[t] # "ready" => t \in Members(s) \cup Members(r) \cup p
  /\ \A t \in p : l[t] # "ready"

(* Every blocked task waits in one event list, or is pending.              *)
Queued == Waiting(list, xTasksWaitingToSend, xTasksWaitingToReceive, xPendingReadyList)

(* The tasks of an event list.                                             *)
LEMMA MembersOf ==
  ASSUME NEW T, NEW q \in Seq(T)
  PROVE  Members(q) \in SUBSET T /\ (q = <<>> <=> Members(q) = {})
<1>1. DOMAIN q = 1 .. Len(q) /\ Len(q) \in Nat /\ \A k \in 1 .. Len(q) : q[k] \in T
  BY SMTT(20)
<1>2. Members(q) \in SUBSET T
  BY <1>1 DEF Members
<1>3. q = <<>> => Members(q) = {}
  BY SMTT(20) DEF Members
<1>4. q # <<>> => 1 \in 1 .. Len(q)
  BY SMTT(20)
<1>5. q # <<>> => q[1] \in Members(q)
  BY <1>1, <1>4 DEF Members
<1> QED
  BY <1>2, <1>3, <1>5

(* Taking the head off an event list takes that one task.                  *)
LEMMA FirstAndRest ==
  ASSUME NEW q \in Seq(Tasks), Distinct(q)
  PROVE  /\ First(q) \in SUBSET Members(q)
         /\ Members(Rest(q)) = Members(q) \ First(q)
         /\ Distinct(Rest(q))
         /\ q # <<>> => First(q) = {Head(q)} /\ Head(q) \in Members(q)
<1>1. CASE q = <<>>
  BY <1>1 DEF First, Rest, Members
<1>2. CASE q # <<>>
  <2> DEFINE r == Tail(q)
  <2>1. First(q) = {q[1]} /\ Rest(q) = r /\ Head(q) = q[1]
    BY <1>2, SMTT(20) DEF First, Rest
  <2>2. /\ Len(q) \in Nat \ {0} /\ DOMAIN q = 1 .. Len(q)
        /\ DOMAIN r = 1 .. Len(q) - 1
        /\ \A k \in 1 .. Len(q) - 1 : r[k] = q[k + 1]
    BY <1>2, SMTT(20)
  <2> HIDE DEF r
  <2>3. \A k \in 1 .. Len(q) : q[k] = q[1] => k = 1
    BY <2>2, SMTT(20) DEF Distinct
  <2>4. \A x \in Members(r) : x \in Members(q) /\ x # q[1]
    BY <2>2, <2>3, SMTT(20) DEF Members
  <2>5. ASSUME NEW x \in Members(q), x # q[1] PROVE x \in Members(r)
    <3>1. PICK k \in 1 .. Len(q) : x = q[k]
      BY <2>2 DEF Members
    <3>2. k - 1 \in 1 .. Len(q) - 1 /\ (k - 1) + 1 = k
      BY <2>2, <2>5, <3>1, SMTT(20)
    <3>3. r[k - 1] = x
      BY <2>2, <3>1, <3>2
    <3> QED
      BY <2>2, <3>2, <3>3 DEF Members
  <2>6. Distinct(r)
    <3> SUFFICES ASSUME NEW i \in 1 .. Len(q) - 1, NEW j \in 1 .. Len(q) - 1, r[i] = r[j]
                 PROVE  i = j
      BY <2>2 DEF Distinct
    <3>1. i + 1 \in DOMAIN q /\ j + 1 \in DOMAIN q /\ q[i + 1] = q[j + 1]
      BY <2>2, SMTT(20)
    <3> QED
      BY <3>1, SMTT(20) DEF Distinct
  <2>7. q[1] \in Members(q)
    BY <2>2, SMTT(20) DEF Members
  <2> QED
    BY <1>2, <2>1, <2>4, <2>5, <2>6, <2>7
<1> QED
  BY <1>1, <1>2

(* Taking n tasks off an event list takes n tasks, if any are left.        *)
LEMMA FrontAndBehind ==
  ASSUME NEW q \in Seq(Tasks), Distinct(q), NEW n \in Nat
  PROVE  /\ Front(q, n) \in SUBSET Members(q)
         /\ Members(Behind(q, n)) = Members(q) \ Front(q, n)
         /\ Distinct(Behind(q, n))
         /\ IsFiniteSet(Front(q, n))
         /\ Behind(q, n) # <<>> => Cardinality(Front(q, n)) >= n
<1> DEFINE m == Min2(n, Len(q))
           r == Behind(q, n)
           w == Front(q, n)
<1>1. Len(q) \in Nat /\ m \in 0 .. Len(q) /\ m \in Nat /\ DOMAIN q = 1 .. Len(q)
  BY SMTT(20) DEF Min2
<1>2. w = {q[k] : k \in 1 .. m}
  BY DEF Front
<1>3. r \in Seq(Tasks) /\ Len(r) = Len(q) - m /\ \A k \in 1 .. Len(q) - m : r[k] = q[m + k]
  <2>1. r = SubSeq(q, m + 1, Len(q))
    BY DEF Behind
  <2> HIDE DEF m, r
  <2>2. /\ m + 1 \in 1 .. Len(q) + 1 /\ Len(q) \in (m + 1) - 1 .. Len(q)
        /\ Len(q) - (m + 1) + 1 = Len(q) - m
    BY <1>1, SMTT(20)
  <2>3. /\ r \in Seq(Tasks) /\ Len(r) = Len(q) - (m + 1) + 1
        /\ \A k \in 1 .. Len(q) - (m + 1) + 1 : r[k] = q[(m + 1) + k - 1]
    BY <2>1, <2>2, PartIs
  <2>4. \A k \in 1 .. Len(q) - m : (m + 1) + k - 1 = m + k
    BY <1>1, SMTT(20)
  <2> QED
    BY <2>2, <2>3, <2>4
<1>4. r # <<>> => m = n
  <2>1. m = n \/ m = Len(q)
    BY DEF Min2
  <2> HIDE DEF m, r
  <2>2. Len(r) = 0 => r = <<>>
    BY <1>3, SMTT(20)
  <2>3. m = Len(q) => Len(r) = 0
    BY <1>1, <1>3, SMTT(20)
  <2> QED
    BY <2>1, <2>2, <2>3
<1> HIDE DEF m, r, w
<1>5. DOMAIN r = 1 .. Len(q) - m
  BY <1>3, SMTT(20)
<1>6. \A i, j \in 1 .. Len(q) : q[i] = q[j] => i = j
  BY <1>1 DEF Distinct
<1>7. w \in SUBSET Members(q)
  BY <1>1, <1>2, SMTT(20) DEF Members
<1>8. \A x \in Members(r) : x \in Members(q) /\ x \notin w
  <2> SUFFICES ASSUME NEW k \in 1 .. Len(q) - m
               PROVE  r[k] \in Members(q) /\ r[k] \notin w
    BY <1>5 DEF Members
  <2>1. m + k \in 1 .. Len(q) /\ r[k] = q[m + k]
    BY <1>1, <1>3, SMTT(20)
  <2>2. \A j \in 1 .. m : j \in 1 .. Len(q) /\ j # m + k
    BY <1>1, SMTT(20)
  <2> QED
    BY <1>1, <1>2, <1>6, <2>1, <2>2 DEF Members
<1>9. \A x \in Members(q) : x \notin w => x \in Members(r)
  <2> SUFFICES ASSUME NEW k \in 1 .. Len(q), q[k] \notin w
               PROVE  q[k] \in Members(r)
    BY <1>1 DEF Members
  <2>1. k \notin 1 .. m
    BY <1>2
  <2>2. k - m \in 1 .. Len(q) - m /\ m + (k - m) = k
    BY <1>1, <2>1, SMTT(20)
  <2>3. r[k - m] = q[k]
    BY <1>3, <2>2
  <2> QED
    BY <1>5, <2>2, <2>3 DEF Members
<1>10. Distinct(r)
  <2> SUFFICES ASSUME NEW i \in 1 .. Len(q) - m, NEW j \in 1 .. Len(q) - m, r[i] = r[j]
               PROVE  i = j
    BY <1>5 DEF Distinct
  <2>1. m + i \in 1 .. Len(q) /\ m + j \in 1 .. Len(q)
    BY <1>1, SMTT(20)
  <2>2. q[m + i] = q[m + j]
    BY <1>3
  <2>3. m + i = m + j
    BY <1>6, <2>1, <2>2
  <2> QED
    BY <1>1, <2>3, SMTT(20)
<1>11. IsFiniteSet(w) /\ Cardinality(w) >= m
  <2> DEFINE f == [k \in 1 .. m |-> q[k]]
  <2>1. IsFiniteSet(1 .. m) /\ Cardinality(1 .. m) = m
    BY <1>1, FS_Interval, SMTT(20)
  <2>2. f \in Surjection(1 .. m, w)
    BY <1>2 DEF Surjection
  <2>3. \A i \in 1 .. m : i \in 1 .. Len(q)
    BY <1>1, SMTT(20)
  <2>4. f \in Injection(1 .. m, w)
    <3>1. f \in [1 .. m -> w]
      BY <1>2
    <3>2. \A i, j \in 1 .. m : f[i] = f[j] => i = j
      BY <1>6, <2>3
    <3> HIDE DEF f
    <3> QED
      BY <3>1, <3>2 DEF Injection, IsInjective
  <2> HIDE DEF f
  <2> QED
    BY <2>1, <2>2, <2>4, FS_Surjection, <1>1, SMTT(20)
<1> QED
  BY <1>4, <1>7, <1>8, <1>9, <1>10, <1>11 DEF r, w

(* Some tasks are taken out of the event lists and woken.                  *)
LEMMA WokenWaits ==
  ASSUME Types, Sched, Queued, NEW ts \in SUBSET Tasks, Woken(ts),
         ts \subseteq Members(xTasksWaitingToSend) \cup Members(xTasksWaitingToReceive),
         Members(xTasksWaitingToSend') = Members(xTasksWaitingToSend) \ ts,
         Members(xTasksWaitingToReceive') = Members(xTasksWaitingToReceive) \ ts,
         Distinct(xTasksWaitingToSend'), Distinct(xTasksWaitingToReceive'),
         \A u \in Tasks : list[u] # "ready" => call'[u] = call[u]
  PROVE  Queued'
<1>1. /\ Members(xTasksWaitingToSend) \in SUBSET Tasks
      /\ Members(xTasksWaitingToReceive) \in SUBSET Tasks
      /\ xPendingReadyList \in SUBSET Tasks
  BY MembersOf DEF Types, ListTypes
<1>2. CASE suspender = None
  <2>1. /\ xPendingReadyList = {} /\ xPendingReadyList' = {}
        /\ list' = [t \in Tasks |-> IF t \in ts THEN "ready" ELSE list[t]]
    BY <1>2 DEF Sched, Woken
  <2> QED
    BY <1>1, <2>1 DEF Queued, Waiting
<1>3. CASE suspender # None
  <2>1. xPendingReadyList' = xPendingReadyList \cup ts /\ list' = list
    BY <1>3 DEF Woken
  <2> QED
    BY <1>1, <2>1 DEF Queued, Waiting
<1> QED
  BY <1>2, <1>3

(* Waking the first waiter keeps the rest where they are.                  *)
LEMMA WakeWaits ==
  ASSUME Types, Sched, Queued, WakeReceiver \/ WakeSender,
         \A u \in Tasks : list[u] # "ready" => call'[u] = call[u]
  PROVE  Queued'
<1>0. /\ xTasksWaitingToSend \in Seq(Tasks) /\ xTasksWaitingToReceive \in Seq(Tasks)
      /\ Distinct(xTasksWaitingToSend) /\ Distinct(xTasksWaitingToReceive)
      /\ Members(xTasksWaitingToSend) \in SUBSET Tasks
      /\ Members(xTasksWaitingToReceive) \in SUBSET Tasks
  BY MembersOf DEF Types, ListTypes, Queued, Waiting
<1>1. Members(xTasksWaitingToSend) \cap Members(xTasksWaitingToReceive) = {}
  BY DEF Queued, Waiting, Sends, Receives
<1>2. CASE WakeReceiver
  <2> DEFINE ts == First(xTasksWaitingToReceive)
  <2>1. /\ Woken(ts) /\ xTasksWaitingToReceive' = Rest(xTasksWaitingToReceive)
        /\ xTasksWaitingToSend' = xTasksWaitingToSend
    BY <1>2 DEF WakeReceiver
  <2>2. /\ ts \in SUBSET Members(xTasksWaitingToReceive)
        /\ Members(xTasksWaitingToReceive') = Members(xTasksWaitingToReceive) \ ts
        /\ Distinct(xTasksWaitingToReceive')
    BY <1>0, <2>1, FirstAndRest
  <2> HIDE DEF ts
  <2> QED
    BY <1>0, <1>1, <2>1, <2>2, WokenWaits
<1>3. CASE WakeSender
  <2> DEFINE ts == First(xTasksWaitingToSend)
  <2>1. /\ Woken(ts) /\ xTasksWaitingToSend' = Rest(xTasksWaitingToSend)
        /\ xTasksWaitingToReceive' = xTasksWaitingToReceive
    BY <1>3 DEF WakeSender
  <2>2. /\ ts \in SUBSET Members(xTasksWaitingToSend)
        /\ Members(xTasksWaitingToSend') = Members(xTasksWaitingToSend) \ ts
        /\ Distinct(xTasksWaitingToSend')
    BY <1>0, <2>1, FirstAndRest
  <2> HIDE DEF ts
  <2> QED
    BY <1>0, <1>1, <2>1, <2>2, WokenWaits
<1> QED
  BY <1>2, <1>3

(* A tick takes the tasks whose time has come out of the event lists.      *)
LEMMA TickWaits ==
  ASSUME wake \in [Tasks -> 0 .. MaxDelay], xEntryTimeSet \in [Tasks -> BOOLEAN],
         NEW k \in KernelType, Waiting(k.list, k.toSend, k.toReceive, {}),
         NEW x, x = xTaskIncrementTick(k)
  PROVE  /\ Waiting(x.list, x.toSend, x.toReceive, {})
         /\ Members(x.toSend) \subseteq Members(k.toSend)
         /\ Members(x.toReceive) \subseteq Members(k.toReceive)
<1>0. /\ x.list = [t \in Tasks |-> IF t \in UpAt(k) THEN "ready" ELSE Lists(k)[t]]
      /\ x.toSend = Without(k.toSend, UpAt(k))
      /\ x.toReceive = Without(k.toReceive, UpAt(k))
  BY TickIs
<1>1. /\ k.list \in [Tasks -> ListNames]
      /\ k.toSend \in Seq(Tasks) /\ k.toReceive \in Seq(Tasks)
  BY DEF KernelType
<1>2. /\ \A u : u \in Members(x.toSend) <=> u \in Members(k.toSend) /\ u \notin UpAt(k)
      /\ Distinct(k.toSend) => Distinct(x.toSend)
  BY <1>0, <1>1, WithoutFacts, SMTT(20)
<1>3. /\ \A u : u \in Members(x.toReceive)
                  <=> u \in Members(k.toReceive) /\ u \notin UpAt(k)
      /\ Distinct(k.toReceive) => Distinct(x.toReceive)
  BY <1>0, <1>1, WithoutFacts, SMTT(20)
<1>4. \A t \in Tasks : Lists(k)[t] # "ready" <=> k.list[t] # "ready"
  BY <1>1 DEF Lists, Switched
<1>5. \A t \in Tasks : x.list[t] # "ready" <=> k.list[t] # "ready" /\ t \notin UpAt(k)
  BY <1>0, <1>4
<1>6. Members(k.toSend) \in SUBSET Tasks /\ Members(k.toReceive) \in SUBSET Tasks
  BY <1>1, MembersOf
<1>7. Members(x.toSend) \subseteq Members(k.toSend)
  BY <1>2
<1>8. Members(x.toReceive) \subseteq Members(k.toReceive)
  BY <1>3
<1> HIDE DEF Distinct
<1>9. Distinct(x.toSend) /\ Distinct(x.toReceive)
  BY <1>2, <1>3 DEF Waiting
<1>10. Waiting(x.list, x.toSend, x.toReceive, {})
  BY <1>2, <1>3, <1>5, <1>6, <1>9 DEF Waiting
<1> QED
  BY <1>7, <1>8, <1>10

(* So do all the pended ticks.                                             *)
LEMMA TickedWaits ==
  ASSUME Types, NEW k \in KernelType, Waiting(k.list, k.toSend, k.toReceive, {}),
         NEW x, x = Ticked(k, uxPendedTicks)
  PROVE  /\ Waiting(x.list, x.toSend, x.toReceive, {})
         /\ Members(x.toSend) \subseteq Members(k.toSend)
         /\ Members(x.toReceive) \subseteq Members(k.toReceive)
<1> DEFINE G == {j \in KernelType : /\ Waiting(j.list, j.toSend, j.toReceive, {})
                                    /\ Members(j.toSend) \subseteq Members(k.toSend)
                                    /\ Members(j.toReceive) \subseteq Members(k.toReceive)}
           S == [i \in 0 .. uxPendedTicks |-> G]
<1>0. uxPendedTicks \in 0 .. MaxPended /\ uxPendedTicks \in Nat /\ MaxPended \in Nat
  BY ConstantsAssumption, SMTT(20) DEF Types, TickTypes
<1>1. ASSUME NEW j \in G PROVE xTaskIncrementTick(j) \in G
  <2> DEFINE y == xTaskIncrementTick(j)
  <2>1. wake \in [Tasks -> 0 .. MaxDelay] /\ xEntryTimeSet \in [Tasks -> BOOLEAN]
    BY DEF Types, TimeTypes
  <2>2. y \in KernelType
    BY <2>1, TickType
  <2>3. /\ Waiting(y.list, y.toSend, y.toReceive, {})
        /\ Members(y.toSend) \subseteq Members(j.toSend)
        /\ Members(y.toReceive) \subseteq Members(j.toReceive)
    BY <2>1, TickWaits
  <2> HIDE DEF y
  <2>4. /\ Members(y.toSend) \subseteq Members(k.toSend)
        /\ Members(y.toReceive) \subseteq Members(k.toReceive)
    BY <2>3
  <2>5. y \in G
    BY <2>2, <2>3, <2>4
  <2> QED
    BY <2>5 DEF y
<1>2. k \in G
  OBVIOUS
<1> HIDE DEF G
<1>3. k \in S[0]
  BY <1>0, <1>2, SMTT(20)
<1>4. \A i \in 0 .. uxPendedTicks - 1 : \A j \in S[i] : xTaskIncrementTick(j) \in S[i + 1]
  BY <1>0, <1>1, SMTT(20)
<1>5. S[uxPendedTicks] = G
  BY <1>0, SMTT(20)
<1> HIDE DEF S
<1>6. x \in S[uxPendedTicks]
  BY <1>0, <1>3, <1>4, TickedInduction
<1> QED
  BY <1>5, <1>6 DEF G

(* What xTaskResumeAll does to the lists.                                  *)
LEMMA ResumeWaits ==
  ASSUME Types, Sched, Queued, NEW t \in Tasks, xTaskResumeAll(t)
  PROVE  /\ Queued'
         /\ Members(xTasksWaitingToSend') \subseteq Members(xTasksWaitingToSend)
         /\ Members(xTasksWaitingToReceive') \subseteq Members(xTasksWaitingToReceive)
<1> DEFINE k == Resumed
           x == Ticked(Resumed, uxPendedTicks)
<1>1. UNCHANGED call /\ xPendingReadyList' = {}
  BY DEF xTaskResumeAll, argVars
<1>2. BecomesKernel(x)
  BY ResumesTicked
<1>3. /\ k \in KernelType
      /\ k.toSend = xTasksWaitingToSend /\ k.toReceive = xTasksWaitingToReceive
      /\ k.list = [u \in Tasks |-> IF u \in xPendingReadyList THEN "ready" ELSE list[u]]
  BY ResumedIs
<1>4. /\ Members(xTasksWaitingToSend) \in SUBSET Tasks
      /\ Members(xTasksWaitingToReceive) \in SUBSET Tasks
      /\ xPendingReadyList \in SUBSET Tasks
  BY MembersOf DEF Types, ListTypes
<1> HIDE DEF k
<1>5. Waiting(k.list, k.toSend, k.toReceive, {})
  BY <1>3, <1>4 DEF Queued, Waiting
<1>6. /\ Waiting(x.list, x.toSend, x.toReceive, {})
      /\ Members(x.toSend) \subseteq Members(k.toSend)
      /\ Members(x.toReceive) \subseteq Members(k.toReceive)
  BY <1>3, <1>5, TickedWaits DEF k
<1> HIDE DEF x
<1>7. /\ list' = x.list /\ xTasksWaitingToSend' = x.toSend
      /\ xTasksWaitingToReceive' = x.toReceive
  BY <1>2 DEF BecomesKernel
<1>8. Queued'
  BY <1>1, <1>6, <1>7 DEF Queued, Waiting
<1> QED
  BY <1>3, <1>6, <1>7, <1>8

(* What the tick interrupt does to the lists.                              *)
LEMMA RunTickWaits ==
  ASSUME Types, Sched, Queued, Tick
  PROVE  /\ Queued'
         /\ Members(xTasksWaitingToSend') \subseteq Members(xTasksWaitingToSend)
         /\ Members(xTasksWaitingToReceive') \subseteq Members(xTasksWaitingToReceive)
<1>1. UNCHANGED call /\ UNCHANGED xPendingReadyList
  BY DEF Tick, argVars
<1>2. CASE suspender = None /\ BecomesKernel(xTaskIncrementTick(Kernel))
  <2> DEFINE k == Kernel
             x == xTaskIncrementTick(Kernel)
  <2>1. /\ k \in KernelType /\ k.list = list
        /\ k.toSend = xTasksWaitingToSend /\ k.toReceive = xTasksWaitingToReceive
    BY KernelTyped DEF Kernel
  <2>2. xPendingReadyList = {}
    BY <1>2 DEF Sched
  <2>3. Waiting(k.list, k.toSend, k.toReceive, {})
    BY <2>1, <2>2 DEF Queued
  <2>4. wake \in [Tasks -> 0 .. MaxDelay] /\ xEntryTimeSet \in [Tasks -> BOOLEAN]
    BY DEF Types, TimeTypes
  <2>5. /\ Waiting(x.list, x.toSend, x.toReceive, {})
        /\ Members(x.toSend) \subseteq Members(k.toSend)
        /\ Members(x.toReceive) \subseteq Members(k.toReceive)
    <3> HIDE DEF k
    <3> QED
      BY <2>1, <2>3, <2>4, TickWaits DEF k
  <2> HIDE DEF x
  <2>6. /\ list' = x.list /\ xTasksWaitingToSend' = x.toSend
        /\ xTasksWaitingToReceive' = x.toReceive
    BY <1>2 DEF BecomesKernel, x
  <2>7. Queued'
    BY <1>1, <2>2, <2>5, <2>6 DEF Queued, Waiting
  <2> QED
    BY <2>1, <2>5, <2>6, <2>7
<1>3. CASE UNCHANGED <<list, waitVars>>
  BY <1>1, <1>3 DEF waitVars, Queued, Waiting, Members, Distinct
<1> QED
  BY <1>2, <1>3 DEF Tick

(* A task that blocks is in one event list.                                *)
LEMMA TestWaits ==
  ASSUME Types, Sched, Queued, Args, NEW t \in Tasks, TestAgain(t)
  PROVE  Queued'
<1>1. UNCHANGED <<xPendingReadyList, call>> /\ At(t, "test")
  BY DEF TestAgain, argVars
<1>2. pc[t] = "test"
  BY <1>1, RunsWhere
<1>3. list[t] = "ready" /\ call[t] # None /\ call[t] # "reset"
  BY <1>2 DEF Sched, Locked
<1>4. call[t] \in Sends \/ call[t] \in Receives
  BY <1>3 DEF Args, CallNames, Sends, Receives
<1>5. CASE vTaskPlaceOnEventList(t)
  <2>1. /\ \A u \in Tasks \ {t} : list'[u] = list[u]
        /\ list'[t] # "ready"
    BY <1>5, PlaceTypes
  <2>2. /\ Members(xTasksWaitingToSend) \in SUBSET Tasks
        /\ Members(xTasksWaitingToReceive) \in SUBSET Tasks
        /\ xPendingReadyList \in SUBSET Tasks
    BY MembersOf DEF Types, ListTypes
  <2>3. /\ t \notin Members(xTasksWaitingToSend) /\ t \notin xPendingReadyList
        /\ t \notin Members(xTasksWaitingToReceive)
    BY <1>3 DEF Queued, Waiting
  <2>4. CASE call[t] \in Sends
    <3>1. /\ xTasksWaitingToSend' = Insert(xTasksWaitingToSend, t)
          /\ xTasksWaitingToReceive' = xTasksWaitingToReceive
      BY <1>5, <2>4 DEF vTaskPlaceOnEventList
    <3>2. /\ \A x : x \in Members(xTasksWaitingToSend')
                      <=> x \in Members(xTasksWaitingToSend) \/ x = t
          /\ Distinct(xTasksWaitingToSend')
      BY <2>3, <3>1, InsertFacts DEF Types, ListTypes, Queued, Waiting
    <3>3. \A u \in Tasks : list'[u] # "ready" <=> list[u] # "ready" \/ u = t
      BY <2>1
    <3> QED
      BY <1>1, <2>2, <2>3, <2>4, <3>1, <3>2, <3>3 DEF Queued, Waiting
  <2>5. CASE call[t] \in Receives
    <3>1. /\ xTasksWaitingToReceive' = Insert(xTasksWaitingToReceive, t)
          /\ xTasksWaitingToSend' = xTasksWaitingToSend
      BY <1>5, <2>5 DEF vTaskPlaceOnEventList, Sends, Receives
    <3>2. /\ \A x : x \in Members(xTasksWaitingToReceive')
                      <=> x \in Members(xTasksWaitingToReceive) \/ x = t
          /\ Distinct(xTasksWaitingToReceive')
      BY <2>3, <3>1, InsertFacts DEF Types, ListTypes, Queued, Waiting
    <3>3. \A u \in Tasks : list'[u] # "ready" <=> list[u] # "ready" \/ u = t
      BY <2>1
    <3> QED
      BY <1>1, <2>2, <2>3, <2>5, <3>1, <3>2, <3>3 DEF Queued, Waiting
  <2> QED
    BY <1>4, <2>4, <2>5
<1>6. CASE UNCHANGED <<waitVars, list>>
  BY <1>1, <1>6 DEF waitVars, Queued, Waiting
<1> QED
  BY <1>5, <1>6 DEF TestAgain

(* prvUnlockQueue wakes the tasks it takes off the event lists.            *)
LEMMA UnlockWaits ==
  ASSUME Types, Sched, Queued, NEW t \in Tasks, prvUnlockQueueTx(t) \/ prvUnlockQueueRx(t)
  PROVE  Queued'
<1>0. /\ xTasksWaitingToSend \in Seq(Tasks) /\ xTasksWaitingToReceive \in Seq(Tasks)
      /\ Distinct(xTasksWaitingToSend) /\ Distinct(xTasksWaitingToReceive)
      /\ Members(xTasksWaitingToSend) \in SUBSET Tasks
      /\ Members(xTasksWaitingToReceive) \in SUBSET Tasks
  BY MembersOf DEF Types, ListTypes, Queued, Waiting
<1>1. Members(xTasksWaitingToSend) \cap Members(xTasksWaitingToReceive) = {}
  BY DEF Queued, Waiting, Sends, Receives
<1>2. UNCHANGED call
  BY DEF prvUnlockQueueTx, prvUnlockQueueRx, argVars
<1>3. CASE prvUnlockQueueTx(t)
  <2> DEFINE ts == Front(xTasksWaitingToReceive, cTxLock)
  <2>1. /\ Woken(ts) /\ xTasksWaitingToReceive' = Behind(xTasksWaitingToReceive, cTxLock)
        /\ xTasksWaitingToSend' = xTasksWaitingToSend /\ At(t, "unlockTx")
    BY <1>3 DEF prvUnlockQueueTx
  <2>2. cTxLock \in Nat
    BY <2>1, RunsWhere, ConstantsAssumption, SMTT(20) DEF Sched, Types, LockTypes, UNLOCKED
  <2>3. /\ ts \in SUBSET Members(xTasksWaitingToReceive)
        /\ Members(xTasksWaitingToReceive') = Members(xTasksWaitingToReceive) \ ts
        /\ Distinct(xTasksWaitingToReceive')
    BY <1>0, <2>1, <2>2, FrontAndBehind
  <2> HIDE DEF ts
  <2> QED
    BY <1>0, <1>1, <1>2, <2>1, <2>3, WokenWaits
<1>4. CASE prvUnlockQueueRx(t)
  <2> DEFINE ts == Front(xTasksWaitingToSend, cRxLock)
  <2>1. /\ Woken(ts) /\ xTasksWaitingToSend' = Behind(xTasksWaitingToSend, cRxLock)
        /\ xTasksWaitingToReceive' = xTasksWaitingToReceive /\ At(t, "unlockRx")
    BY <1>4 DEF prvUnlockQueueRx
  <2>2. cRxLock \in Nat
    BY <2>1, RunsWhere, ConstantsAssumption, SMTT(20) DEF Sched, Types, LockTypes, UNLOCKED
  <2>3. /\ ts \in SUBSET Members(xTasksWaitingToSend)
        /\ Members(xTasksWaitingToSend') = Members(xTasksWaitingToSend) \ ts
        /\ Distinct(xTasksWaitingToSend')
    BY <1>0, <2>1, <2>2, FrontAndBehind
  <2> HIDE DEF ts
  <2> QED
    BY <1>0, <1>1, <1>2, <2>1, <2>3, WokenWaits
<1> QED
  BY <1>3, <1>4

(* Every step keeps each blocked task in the one list it waits in.         *)
LEMMA StepWaits ==
  ASSUME Args, Types, Sched, Queued, [Next]_vars
  PROVE  Queued'
<1>0. ASSUME UNCHANGED <<waitVars, listVars>>,
             \A u \in Tasks : list[u] # "ready" => call'[u] = call[u]
      PROVE  Queued'
  <2>1. /\ Members(xTasksWaitingToSend) \in SUBSET Tasks
        /\ Members(xTasksWaitingToReceive) \in SUBSET Tasks
    BY MembersOf DEF Types, ListTypes
  <2> QED
    BY <1>0, <2>1 DEF waitVars, listVars, Queued, Waiting
<1>1. ASSUME NEW t \in Tasks, NEW p, At(t, p), p \notin Locked,
             NEW c, call' = [call EXCEPT ![t] = c]
      PROVE  \A u \in Tasks : list[u] # "ready" => call'[u] = call[u]
  BY <1>1, RunsWhere DEF Args
<1>2. ASSUME NEW t \in Tasks, \/ xQueueGenericSend(t) \/ xQueueGenericReceive(t)
                              \/ xQueueGenericReset(t)
      PROVE  Queued'
  <2>1. At(t, "try") /\ call' = [call EXCEPT ![t] = None] /\ (WakeReceiver \/ WakeSender)
    BY <1>2 DEF xQueueGenericSend, xQueueGenericReceive, xQueueGenericReset, Return
  <2>2. \A u \in Tasks : list[u] # "ready" => call'[u] = call[u]
    BY <1>1, <2>1 DEF Locked
  <2> QED
    BY <2>1, <2>2, WakeWaits
<1>3. ASSUME NEW t \in Tasks, Enter(t) \/ FailAtOnce(t) \/ TimedOut(t)
      PROVE  Queued'
  <2>1. /\ UNCHANGED <<waitVars, listVars>> /\ \E p \in {"idle", "try", "late"} : At(t, p)
        /\ UNCHANGED call \/ \E c : call' = [call EXCEPT ![t] = c]
    BY <1>3 DEF Enter, FailAtOnce, TimedOut, Return, argVars
  <2>2. \A u \in Tasks : list[u] # "ready" => call'[u] = call[u]
    BY <1>1, <2>1 DEF Locked
  <2> QED
    BY <1>0, <2>1, <2>2
<1>4. ASSUME NEW t \in Tasks, vTaskSetTimeOutState(t) \/ vTaskSuspendAll(t) \/ LockAndCheck(t)
      PROVE  Queued'
  BY <1>0, <1>4 DEF vTaskSetTimeOutState, vTaskSuspendAll, LockAndCheck, argVars
<1>5. ASSUME xQueueGenericSendFromISR \/ xQueueReceiveFromISR
      PROVE  Queued'
  <2>1. UNCHANGED call
    BY <1>5 DEF xQueueGenericSendFromISR, xQueueReceiveFromISR, argVars
  <2>2. WakeReceiver \/ WakeSender \/ UNCHANGED <<waitVars, listVars>>
    BY <1>5 DEF xQueueGenericSendFromISR, xQueueReceiveFromISR
  <2> QED
    BY <1>0, <2>1, <2>2, WakeWaits
<1>6. CASE UNCHANGED vars
  BY <1>0, <1>6 DEF vars, argVars
<1>7. ASSUME NEW t \in Tasks, Enter(t) \/ Step(t) PROVE Queued'
  BY <1>2, <1>3, <1>4, <1>7, TestWaits, UnlockWaits, ResumeWaits DEF Step
<1> QED
  BY <1>5, <1>6, <1>7, RunTickWaits DEF Next

(* At the start nobody waits.                                              *)
LEMMA InitQueued == Init => Queued
BY SMTT(20) DEF Init, Queued, Waiting, Members, Distinct

(* Where tasks wait, for all time.                                         *)
LEMMA QueuedInvariance == Spec => [](IInv /\ Types /\ Sched /\ Queued)
<1>1. IInv => Args
  BY DEF IInv
<1> QED
  BY <1>1, TypesInvariance, InitQueued, StepWaits, PTL DEF Spec

(* A blocked task is always in a list from which it will be woken: an      *)
(* event list or the list of pending tasks (xTaskRemoveFromEventList,      *)
(* xTaskIncrementTick, xTaskResumeAll).                                    *)
THEOREM NoTaskForgotten == Spec => []NeverForgotten
<1>1. Queued => NeverForgotten
  BY DEF Queued, Waiting, NeverForgotten
<1> QED
  BY <1>1, QueuedInvariance, PTL

-----------------------------------------------------------------------------
(* How many tasks look.                                                    *)

(* The tasks in one of these calls that will look at the queue before they *)
(* block again.                                                            *)
Lookers(calls, q) ==
  {t \in Tasks : /\ call[t] \in calls /\ t \notin Members(q)
                 /\ pc[t] = "try" \/ t \in xPendingReadyList}

(* What interrupts have counted in a lock.                                 *)
Counted(lock) == IF lock = UNLOCKED THEN 0 ELSE lock

(* The receivers and the senders that look.                                *)
Receiving == Lookers(Receives, xTasksWaitingToReceive)
Sending == Lookers(Sends, xTasksWaitingToSend)

(* While a task waits there is a task that looks, or an interrupt counted  *)
(* in the lock, for every item there is; and for every place there is,     *)
(* unless tasks reset the queue.                                           *)
ReceiversWoken ==
  xTasksWaitingToReceive # <<>>
    => Cardinality(Receiving) + Counted(cTxLock) >= uxMessagesWaiting

SendersWoken ==
  "reset" \notin Calls /\ xTasksWaitingToSend # <<>>
    => Cardinality(Sending) + Counted(cRxLock) >= Length - uxMessagesWaiting

(* Only tasks that may reset the queue do.                                 *)
Resetting == \A t \in Tasks : call[t] = "reset" => "reset" \in Calls

(* Nobody waits for what is there.                                         *)
EnoughWoken == ReceiversWoken /\ SendersWoken /\ Resetting

(* Who looked still looks: the count is not less.                          *)
LEMMA CountKept ==
  ASSUME NEW L \in SUBSET Tasks, NEW M \in SUBSET Tasks, L \subseteq M
  PROVE  Cardinality(L) \in Nat /\ Cardinality(M) \in Nat /\ Cardinality(L) <= Cardinality(M)
<1>1. IsFiniteSet(M) /\ IsFiniteSet(L)
  BY FS_Subset, ConstantsAssumption
<1>2. L \in SUBSET M
  OBVIOUS
<1> QED
  BY <1>1, <1>2, FS_Subset, FS_CardinalityType

(* One looks who did not: the count is one more at least.                  *)
LEMMA CountMore ==
  ASSUME NEW L \in SUBSET Tasks, NEW M \in SUBSET Tasks, NEW h \in M, h \notin L, L \subseteq M
  PROVE  /\ Cardinality(L) \in Nat /\ Cardinality(M) \in Nat
         /\ Cardinality(L) + 1 <= Cardinality(M)
<1>1. IsFiniteSet(L)
  BY FS_Subset, ConstantsAssumption
<1>2. L \cup {h} \in SUBSET Tasks /\ L \cup {h} \subseteq M
  OBVIOUS
<1>3. Cardinality(L \cup {h}) = Cardinality(L) + 1
  BY <1>1, FS_AddElement
<1>4. Cardinality(L \cup {h}) <= Cardinality(M) /\ Cardinality(M) \in Nat
  BY <1>2, CountKept
<1> QED
  BY <1>1, <1>3, <1>4, FS_CardinalityType

(* One stops looking: the count is one less at most.                       *)
LEMMA CountLess ==
  ASSUME NEW L \in SUBSET Tasks, NEW M \in SUBSET Tasks, NEW t, L \ {t} \subseteq M
  PROVE  /\ Cardinality(L) \in Nat /\ Cardinality(M) \in Nat
         /\ Cardinality(L) <= Cardinality(M) + 1
<1>1. IsFiniteSet(L)
  BY FS_Subset, ConstantsAssumption
<1>2. L \ {t} \in SUBSET Tasks
  OBVIOUS
<1>3. Cardinality(L) \in Nat
  BY <1>1, FS_CardinalityType
<1>4. Cardinality(L \ {t}) = Cardinality(L) - 1 \/ Cardinality(L \ {t}) = Cardinality(L)
  BY <1>1, FS_RemoveElement
<1>5. Cardinality(L \ {t}) <= Cardinality(M) /\ Cardinality(M) \in Nat
  BY <1>2, CountKept
<1> QED
  BY <1>3, <1>4, <1>5, SMTT(20)

(* One stops looking and another begins: the count is not less.            *)
LEMMA CountSwap ==
  ASSUME NEW L \in SUBSET Tasks, NEW M \in SUBSET Tasks, NEW t, NEW h \in M, h \notin L,
         L \ {t} \subseteq M
  PROVE  Cardinality(L) \in Nat /\ Cardinality(M) \in Nat /\ Cardinality(L) <= Cardinality(M)
<1>1. /\ Cardinality(L) \in Nat /\ Cardinality(L \ {t}) \in Nat
      /\ Cardinality(L) <= Cardinality(L \ {t}) + 1
  <2>1. L \ {t} \in SUBSET Tasks /\ L \ {t} \subseteq L \ {t}
    OBVIOUS
  <2> QED
    BY <2>1, CountLess
<1>2. /\ Cardinality(M) \in Nat
      /\ Cardinality(L \ {t}) + 1 <= Cardinality(M)
  <2>1. L \ {t} \in SUBSET Tasks /\ h \notin L \ {t}
    OBVIOUS
  <2> QED
    BY <2>1, CountMore
<1> QED
  BY <1>1, <1>2, SMTT(20)

(* Several begin to look: the count grows by as many.                      *)
LEMMA CountAll ==
  ASSUME NEW L \in SUBSET Tasks, NEW M \in SUBSET Tasks, NEW w \in SUBSET M,
         L \cap w = {}, L \subseteq M
  PROVE  /\ Cardinality(L) \in Nat /\ Cardinality(M) \in Nat /\ Cardinality(w) \in Nat
         /\ Cardinality(L) + Cardinality(w) <= Cardinality(M)
<1>1. IsFiniteSet(L) /\ IsFiniteSet(w)
  BY FS_Subset, ConstantsAssumption
<1>2. Cardinality(L \cup w) = Cardinality(L) + Cardinality(w) - Cardinality(L \cap w)
  BY <1>1, FS_Union
<1>3. Cardinality(L \cap w) = 0
  BY FS_EmptySet
<1>4. L \cup w \in SUBSET Tasks /\ L \cup w \subseteq M
  OBVIOUS
<1>5. Cardinality(L \cup w) <= Cardinality(M) /\ Cardinality(M) \in Nat
  BY <1>4, CountKept
<1>6. Cardinality(L) \in Nat /\ Cardinality(w) \in Nat
  BY <1>1, FS_CardinalityType
<1> QED
  BY <1>2, <1>3, <1>5, <1>6, SMTT(20)

(* What is counted.                                                        *)
LEMMA CountTypes ==
  ASSUME Types, Ring
  PROVE  /\ Receiving \in SUBSET Tasks /\ Sending \in SUBSET Tasks
         /\ Counted(cTxLock) \in Nat /\ Counted(cRxLock) \in Nat
         /\ uxMessagesWaiting \in 0 .. Length /\ Length \in Nat
         /\ Members(xTasksWaitingToSend) \in SUBSET Tasks
         /\ Members(xTasksWaitingToReceive) \in SUBSET Tasks
<1>1. Counted(cTxLock) \in Nat /\ Counted(cRxLock) \in Nat
  BY ConstantsAssumption, SMTT(20) DEF Types, LockTypes, Counted, UNLOCKED
<1>2. /\ Members(xTasksWaitingToSend) \in SUBSET Tasks
      /\ Members(xTasksWaitingToReceive) \in SUBSET Tasks
  BY MembersOf DEF Types, ListTypes
<1>3. Receiving \in SUBSET Tasks /\ Sending \in SUBSET Tasks
  BY DEF Receiving, Sending, Lookers
<1> QED
  BY <1>1, <1>2, <1>3, ConstantsAssumption DEF Ring

(* Nothing that matters to the receivers gets worse.                       *)
LEMMA ReceiversKept ==
  ASSUME Types, Ring, Types', Ring', ReceiversWoken,
         xTasksWaitingToReceive' # <<>> => xTasksWaitingToReceive # <<>>,
         Receiving \subseteq Receiving', uxMessagesWaiting' <= uxMessagesWaiting,
         Counted(cTxLock') = Counted(cTxLock)
  PROVE  ReceiversWoken'
<1>1. Receiving \in SUBSET Tasks /\ Receiving' \in SUBSET Tasks
  BY DEF Receiving, Lookers
<1>2. /\ Cardinality(Receiving) \in Nat /\ Cardinality(Receiving') \in Nat
      /\ Cardinality(Receiving) <= Cardinality(Receiving')
  BY <1>1, CountKept
<1>3. /\ Counted(cTxLock) \in Nat /\ uxMessagesWaiting \in 0 .. Length
      /\ uxMessagesWaiting' \in 0 .. Length /\ Length \in Nat
  BY CountTypes DEF Ring
<1> QED
  BY <1>2, <1>3, SMTT(20) DEF ReceiversWoken

(* Nothing that matters to the senders gets worse.                         *)
LEMMA SendersKept ==
  ASSUME Types, Ring, Types', Ring', SendersWoken,
         xTasksWaitingToSend' # <<>> => xTasksWaitingToSend # <<>>,
         Sending \subseteq Sending', uxMessagesWaiting <= uxMessagesWaiting',
         Counted(cRxLock') = Counted(cRxLock)
  PROVE  SendersWoken'
<1>1. Sending \in SUBSET Tasks /\ Sending' \in SUBSET Tasks
  BY DEF Sending, Lookers
<1>2. /\ Cardinality(Sending) \in Nat /\ Cardinality(Sending') \in Nat
      /\ Cardinality(Sending) <= Cardinality(Sending')
  BY <1>1, CountKept
<1>3. /\ Counted(cRxLock) \in Nat /\ uxMessagesWaiting \in 0 .. Length
      /\ uxMessagesWaiting' \in 0 .. Length /\ Length \in Nat
  BY CountTypes DEF Ring
<1> QED
  BY <1>2, <1>3, SMTT(20) DEF SendersWoken

(* Nobody needs to look at an empty queue, or at a full one.               *)
LEMMA NothingToLookFor ==
  ASSUME Types', Ring'
  PROVE  /\ uxMessagesWaiting' = 0 => ReceiversWoken'
         /\ uxMessagesWaiting' = Length => SendersWoken'
<1>1. Receiving' \in SUBSET Tasks /\ Sending' \in SUBSET Tasks
  BY DEF Receiving, Sending, Lookers
<1>2. Cardinality(Receiving') \in Nat /\ Cardinality(Sending') \in Nat
  BY <1>1, CountKept
<1>3. Counted(cTxLock') \in Nat /\ Counted(cRxLock') \in Nat /\ Length \in Nat
  BY ConstantsAssumption, SMTT(20) DEF Types, LockTypes, Counted, UNLOCKED
<1> QED
  BY <1>2, <1>3, SMTT(20) DEF ReceiversWoken, SendersWoken

(* A woken task has yet to look: it is at the start of its loop, or        *)
(* pending.                                                                *)
LEMMA WokenLook ==
  ASSUME Types, Sched, Queued, NEW ts \in SUBSET Tasks, Woken(ts),
         ts \subseteq Members(xTasksWaitingToSend) \cup Members(xTasksWaitingToReceive)
  PROVE  /\ \A h \in ts : /\ list[h] # "ready"
                          /\ \/ suspender = None /\ pc[h] = "try"
                             \/ suspender # None /\ h \in xPendingReadyList'
         /\ xPendingReadyList \subseteq xPendingReadyList'
<1>1. \A h \in ts : list[h] # "ready"
  BY DEF Queued, Waiting
<1>2. suspender = None => \A h \in ts : pc[h] = "try"
  BY <1>1, ConstantsAssumption DEF Sched, Locked
<1>3. suspender # None => xPendingReadyList' = xPendingReadyList \cup ts
  BY DEF Woken
<1>4. suspender = None => xPendingReadyList' = xPendingReadyList
  BY DEF Woken
<1> QED
  BY <1>1, <1>2, <1>3, <1>4

(* The first of the receivers is woken: it has yet to look.                *)
LEMMA ReceiverLooks ==
  ASSUME Types, Sched, Queued, WakeReceiver
  PROVE  /\ UNCHANGED xTasksWaitingToSend /\ xPendingReadyList \subseteq xPendingReadyList'
         /\ Members(xTasksWaitingToReceive') \subseteq Members(xTasksWaitingToReceive)
         /\ xTasksWaitingToReceive' # <<>> => xTasksWaitingToReceive # <<>>
         /\ xTasksWaitingToReceive # <<>> =>
              \E h \in Tasks : /\ h \in Members(xTasksWaitingToReceive)
                               /\ h \notin Members(xTasksWaitingToReceive')
                               /\ call[h] \in Receives /\ list[h] # "ready"
                               /\ \/ suspender = None /\ pc[h] = "try"
                                  \/ suspender # None /\ h \in xPendingReadyList'
<1> DEFINE q == xTasksWaitingToReceive
           ts == First(q)
<1>1. q \in Seq(Tasks) /\ Distinct(q) /\ Members(q) \in SUBSET Tasks
  BY MembersOf DEF Types, ListTypes, Queued, Waiting
<1>2. Woken(ts) /\ xTasksWaitingToReceive' = Rest(q) /\ UNCHANGED xTasksWaitingToSend
  BY DEF WakeReceiver
<1>3. /\ ts \in SUBSET Members(q)
      /\ Members(Rest(q)) = Members(q) \ ts
      /\ q # <<>> => ts = {Head(q)} /\ Head(q) \in Members(q)
  BY <1>1, FirstAndRest
<1>4. q = <<>> => Rest(q) = <<>>
  BY DEF Rest
<1>5. \A h \in Members(q) : call[h] \in Receives
  BY DEF Queued, Waiting
<1> HIDE DEF q, ts
<1>6. /\ ts \in SUBSET Tasks
      /\ ts \subseteq Members(xTasksWaitingToSend) \cup Members(xTasksWaitingToReceive)
  BY <1>1, <1>3 DEF q
<1>7. /\ \A h \in ts : /\ list[h] # "ready"
                       /\ \/ suspender = None /\ pc[h] = "try"
                          \/ suspender # None /\ h \in xPendingReadyList'
      /\ xPendingReadyList \subseteq xPendingReadyList'
  BY <1>2, <1>6, WokenLook
<1>8. ASSUME q # <<>>
      PROVE  \E h \in Tasks : /\ h \in Members(q) /\ h \notin Members(Rest(q))
                              /\ call[h] \in Receives /\ list[h] # "ready"
                              /\ \/ suspender = None /\ pc[h] = "try"
                                 \/ suspender # None /\ h \in xPendingReadyList'
  <2>1. Head(q) \in Tasks /\ Head(q) \in ts /\ Head(q) \in Members(q)
    BY <1>1, <1>3, <1>8
  <2> QED
    BY <1>3, <1>5, <1>7, <2>1
<1> QED
  BY <1>2, <1>3, <1>4, <1>7, <1>8 DEF q

(* The first of the senders is woken: it has yet to look.                  *)
LEMMA SenderLooks ==
  ASSUME Types, Sched, Queued, WakeSender
  PROVE  /\ UNCHANGED xTasksWaitingToReceive /\ xPendingReadyList \subseteq xPendingReadyList'
         /\ Members(xTasksWaitingToSend') \subseteq Members(xTasksWaitingToSend)
         /\ xTasksWaitingToSend' # <<>> => xTasksWaitingToSend # <<>>
         /\ xTasksWaitingToSend # <<>> =>
              \E h \in Tasks : /\ h \in Members(xTasksWaitingToSend)
                               /\ h \notin Members(xTasksWaitingToSend')
                               /\ call[h] \in Sends /\ list[h] # "ready"
                               /\ \/ suspender = None /\ pc[h] = "try"
                                  \/ suspender # None /\ h \in xPendingReadyList'
<1> DEFINE q == xTasksWaitingToSend
           ts == First(q)
<1>1. q \in Seq(Tasks) /\ Distinct(q) /\ Members(q) \in SUBSET Tasks
  BY MembersOf DEF Types, ListTypes, Queued, Waiting
<1>2. Woken(ts) /\ xTasksWaitingToSend' = Rest(q) /\ UNCHANGED xTasksWaitingToReceive
  BY DEF WakeSender
<1>3. /\ ts \in SUBSET Members(q)
      /\ Members(Rest(q)) = Members(q) \ ts
      /\ q # <<>> => ts = {Head(q)} /\ Head(q) \in Members(q)
  BY <1>1, FirstAndRest
<1>4. q = <<>> => Rest(q) = <<>>
  BY DEF Rest
<1>5. \A h \in Members(q) : call[h] \in Sends
  BY DEF Queued, Waiting
<1> HIDE DEF q, ts
<1>6. /\ ts \in SUBSET Tasks
      /\ ts \subseteq Members(xTasksWaitingToSend) \cup Members(xTasksWaitingToReceive)
  BY <1>1, <1>3 DEF q
<1>7. /\ \A h \in ts : /\ list[h] # "ready"
                       /\ \/ suspender = None /\ pc[h] = "try"
                          \/ suspender # None /\ h \in xPendingReadyList'
      /\ xPendingReadyList \subseteq xPendingReadyList'
  BY <1>2, <1>6, WokenLook
<1>8. ASSUME q # <<>>
      PROVE  \E h \in Tasks : /\ h \in Members(q) /\ h \notin Members(Rest(q))
                              /\ call[h] \in Sends /\ list[h] # "ready"
                              /\ \/ suspender = None /\ pc[h] = "try"
                                 \/ suspender # None /\ h \in xPendingReadyList'
  <2>1. Head(q) \in Tasks /\ Head(q) \in ts /\ Head(q) \in Members(q)
    BY <1>1, <1>3, <1>8
  <2> QED
    BY <1>3, <1>5, <1>7, <2>1
<1> QED
  BY <1>2, <1>3, <1>4, <1>7, <1>8 DEF q

(* A call that returns takes no other task from those that look.           *)
LEMMA ReturnLooks ==
  ASSUME Types, Sched, Args, NEW t \in Tasks, At(t, "try"), Return(t), UNCHANGED schedVars
  PROVE  /\ suspender = None /\ list[t] = "ready" /\ pc[t] = "try"
         /\ \A u \in Tasks \ {t} : pc'[u] = pc[u] /\ call'[u] = call[u]
         /\ Resetting => Resetting'
         /\ Counted(cTxLock) = 0 /\ Counted(cRxLock) = 0
<1>1. suspender = None /\ list[t] = "ready" /\ pc[t] = "try"
  BY RunsWhere, SMTT(20) DEF Locked
<1>2. pc' = [pc EXCEPT ![t] = "idle"] /\ call' = [call EXCEPT ![t] = None]
  BY DEF Return, Goto
<1>3. \A u \in Tasks \ {t} : pc'[u] = pc[u] /\ call'[u] = call[u]
  BY <1>2 DEF Types, CallTypes, Args
<1>4. Resetting => Resetting'
  BY <1>2, ConstantsAssumption DEF Args, Resetting, CallNames
<1>5. Counted(cTxLock) = 0 /\ Counted(cRxLock) = 0
  BY <1>1, ConstantsAssumption DEF Counted, Sched
<1> QED
  BY <1>1, <1>3, <1>4, <1>5

(* A send that is served needs one receiver more to look.                  *)
LEMMA SendWoken ==
  ASSUME Types, Sched, Queued, Args, Ring, EnoughWoken, Types', Ring',
         NEW t \in Tasks, xQueueGenericSend(t)
  PROVE  EnoughWoken'
<1>1. /\ At(t, "try") /\ call[t] \in Sends /\ WakeReceiver /\ Return(t)
      /\ uxMessagesWaiting' = uxMessagesWaiting + 1
      /\ UNCHANGED <<lockVars, schedVars>>
  BY DEF xQueueGenericSend, prvCopyDataToQueue
<1>2. /\ suspender = None /\ list[t] = "ready" /\ pc[t] = "try"
      /\ \A u \in Tasks \ {t} : pc'[u] = pc[u] /\ call'[u] = call[u]
      /\ Resetting'
      /\ Counted(cTxLock) = 0 /\ Counted(cRxLock) = 0
  BY <1>1, ReturnLooks DEF EnoughWoken
<1>3. /\ UNCHANGED xTasksWaitingToSend /\ xPendingReadyList \subseteq xPendingReadyList'
      /\ Members(xTasksWaitingToReceive') \subseteq Members(xTasksWaitingToReceive)
      /\ xTasksWaitingToReceive' # <<>> => xTasksWaitingToReceive # <<>>
  BY <1>1, ReceiverLooks
<1>4. Counted(cTxLock') = 0 /\ Counted(cRxLock') = 0
  BY <1>1, <1>2 DEF lockVars
<1>5. call[t] \notin Receives
  BY <1>1 DEF Sends, Receives
<1>6. ReceiversWoken'
  <2> SUFFICES ASSUME xTasksWaitingToReceive' # <<>>
               PROVE  Cardinality(Receiving') + Counted(cTxLock') >= uxMessagesWaiting'
    BY DEF ReceiversWoken
  <2>1. xTasksWaitingToReceive # <<>>
    BY <1>3
  <2>2. PICK h \in Tasks : /\ h \in Members(xTasksWaitingToReceive)
                           /\ h \notin Members(xTasksWaitingToReceive')
                           /\ call[h] \in Receives /\ list[h] # "ready"
                           /\ pc[h] = "try"
    BY <1>1, <1>2, <2>1, ReceiverLooks
  <2>3. Receiving \subseteq Receiving'
    BY <1>2, <1>3, <1>5 DEF Receiving, Lookers
  <2>4. h \in Receiving' /\ h \notin Receiving
    BY <1>2, <2>2 DEF Receiving, Lookers
  <2>5. Receiving \in SUBSET Tasks /\ Receiving' \in SUBSET Tasks
    BY DEF Receiving, Lookers
  <2>6. /\ Cardinality(Receiving) \in Nat /\ Cardinality(Receiving') \in Nat
        /\ Cardinality(Receiving) + 1 <= Cardinality(Receiving')
    BY <2>3, <2>4, <2>5, CountMore
  <2>7. Cardinality(Receiving) >= uxMessagesWaiting
    BY <1>2, <2>1, <2>6, SMTT(20) DEF EnoughWoken, ReceiversWoken
  <2> QED
    BY <1>1, <1>4, <2>6, <2>7, CountTypes, SMTT(20)
<1>7. SendersWoken'
  <2> SUFFICES ASSUME "reset" \notin Calls, xTasksWaitingToSend' # <<>>
               PROVE  Cardinality(Sending') + Counted(cRxLock') >= Length - uxMessagesWaiting'
    BY DEF SendersWoken
  <2>1. Sending \ {t} \subseteq Sending'
    BY <1>2, <1>3 DEF Sending, Lookers
  <2>2. Sending \in SUBSET Tasks /\ Sending' \in SUBSET Tasks
    BY DEF Sending, Lookers
  <2>3. /\ Cardinality(Sending) \in Nat /\ Cardinality(Sending') \in Nat
        /\ Cardinality(Sending) <= Cardinality(Sending') + 1
    BY <2>1, <2>2, CountLess
  <2>4. Cardinality(Sending) >= Length - uxMessagesWaiting
    BY <1>2, <1>3, <2>3, CountTypes, SMTT(20) DEF EnoughWoken, SendersWoken
  <2> QED
    BY <1>1, <1>4, <2>3, <2>4, CountTypes, SMTT(20)
<1> QED
  BY <1>2, <1>6, <1>7 DEF EnoughWoken

(* A receive that is served needs one sender more to look.                 *)
LEMMA ReceiveWoken ==
  ASSUME Types, Sched, Queued, Args, Ring, EnoughWoken, Types', Ring',
         NEW t \in Tasks, xQueueGenericReceive(t)
  PROVE  EnoughWoken'
<1>1. /\ At(t, "try") /\ Return(t) /\ call[t] \in Receives
      /\ UNCHANGED <<lockVars, schedVars>>
  BY DEF xQueueGenericReceive, Receives
<1>2. /\ suspender = None /\ list[t] = "ready" /\ pc[t] = "try"
      /\ \A u \in Tasks \ {t} : pc'[u] = pc[u] /\ call'[u] = call[u]
      /\ Resetting'
      /\ Counted(cTxLock) = 0 /\ Counted(cRxLock) = 0
  BY <1>1, ReturnLooks DEF EnoughWoken
<1>3. Counted(cTxLock') = 0 /\ Counted(cRxLock') = 0
  BY <1>1, <1>2 DEF lockVars
<1>4. call[t] \notin Sends
  BY <1>1 DEF Sends, Receives
<1>5. /\ Receiving \in SUBSET Tasks /\ Receiving' \in SUBSET Tasks
      /\ Sending \in SUBSET Tasks /\ Sending' \in SUBSET Tasks
  BY DEF Receiving, Sending, Lookers
<1>6. CASE prvCopyDataFromQueue /\ WakeSender
  <2>1. uxMessagesWaiting' = uxMessagesWaiting - 1
    BY <1>6 DEF prvCopyDataFromQueue
  <2>2. /\ UNCHANGED xTasksWaitingToReceive /\ xPendingReadyList \subseteq xPendingReadyList'
        /\ Members(xTasksWaitingToSend') \subseteq Members(xTasksWaitingToSend)
        /\ xTasksWaitingToSend' # <<>> => xTasksWaitingToSend # <<>>
    BY <1>6, SenderLooks
  <2>3. ReceiversWoken'
    <3> SUFFICES ASSUME xTasksWaitingToReceive' # <<>>
                 PROVE  Cardinality(Receiving') + Counted(cTxLock') >= uxMessagesWaiting'
      BY DEF ReceiversWoken
    <3>1. Receiving \ {t} \subseteq Receiving'
      BY <1>2, <2>2 DEF Receiving, Lookers
    <3>2. /\ Cardinality(Receiving) \in Nat /\ Cardinality(Receiving') \in Nat
          /\ Cardinality(Receiving) <= Cardinality(Receiving') + 1
      BY <1>5, <3>1, CountLess
    <3>3. Cardinality(Receiving) >= uxMessagesWaiting
      BY <1>2, <2>2, <3>2, SMTT(20) DEF EnoughWoken, ReceiversWoken
    <3> QED
      BY <1>3, <2>1, <3>2, <3>3, CountTypes, SMTT(20)
  <2>4. SendersWoken'
    <3> SUFFICES ASSUME "reset" \notin Calls, xTasksWaitingToSend' # <<>>
                 PROVE  Cardinality(Sending') + Counted(cRxLock') >= Length - uxMessagesWaiting'
      BY DEF SendersWoken
    <3>1. xTasksWaitingToSend # <<>>
      BY <2>2
    <3>2. PICK h \in Tasks : /\ h \in Members(xTasksWaitingToSend)
                             /\ h \notin Members(xTasksWaitingToSend')
                             /\ call[h] \in Sends /\ list[h] # "ready"
                             /\ pc[h] = "try"
      BY <1>2, <1>6, <3>1, SenderLooks
    <3>3. Sending \subseteq Sending'
      BY <1>2, <1>4, <2>2 DEF Sending, Lookers
    <3>4. h \in Sending' /\ h \notin Sending
      BY <1>2, <3>2 DEF Sending, Lookers
    <3>5. /\ Cardinality(Sending) \in Nat /\ Cardinality(Sending') \in Nat
          /\ Cardinality(Sending) + 1 <= Cardinality(Sending')
      BY <1>5, <3>3, <3>4, CountMore
    <3>6. Cardinality(Sending) >= Length - uxMessagesWaiting
      BY <1>2, <3>1, <3>5, CountTypes, SMTT(20) DEF EnoughWoken, SendersWoken
    <3> QED
      BY <1>3, <2>1, <3>5, <3>6, CountTypes, SMTT(20)
  <2> QED
    BY <1>2, <2>3, <2>4 DEF EnoughWoken
<1>7. CASE Peek /\ WakeReceiver
  <2>1. uxMessagesWaiting' = uxMessagesWaiting
    BY <1>7 DEF Peek
  <2>2. /\ UNCHANGED xTasksWaitingToSend /\ xPendingReadyList \subseteq xPendingReadyList'
        /\ Members(xTasksWaitingToReceive') \subseteq Members(xTasksWaitingToReceive)
        /\ xTasksWaitingToReceive' # <<>> => xTasksWaitingToReceive # <<>>
    BY <1>7, ReceiverLooks
  <2>3. ReceiversWoken'
    <3> SUFFICES ASSUME xTasksWaitingToReceive' # <<>>
                 PROVE  Cardinality(Receiving') + Counted(cTxLock') >= uxMessagesWaiting'
      BY DEF ReceiversWoken
    <3>1. xTasksWaitingToReceive # <<>>
      BY <2>2
    <3>2. PICK h \in Tasks : /\ h \in Members(xTasksWaitingToReceive)
                             /\ h \notin Members(xTasksWaitingToReceive')
                             /\ call[h] \in Receives /\ list[h] # "ready"
                             /\ pc[h] = "try"
      BY <1>2, <1>7, <3>1, ReceiverLooks
    <3>3. Receiving \ {t} \subseteq Receiving'
      BY <1>2, <2>2 DEF Receiving, Lookers
    <3>4. h \in Receiving' /\ h \notin Receiving
      BY <1>2, <3>2 DEF Receiving, Lookers
    <3>5. /\ Cardinality(Receiving) \in Nat /\ Cardinality(Receiving') \in Nat
          /\ Cardinality(Receiving) <= Cardinality(Receiving')
      BY <1>5, <3>3, <3>4, CountSwap
    <3>6. Cardinality(Receiving) >= uxMessagesWaiting
      BY <1>2, <3>1, <3>5, SMTT(20) DEF EnoughWoken, ReceiversWoken
    <3> QED
      BY <1>3, <2>1, <3>5, <3>6, CountTypes, SMTT(20)
  <2>4. SendersWoken'
    <3>1. Sending \subseteq Sending'
      BY <1>2, <1>4, <2>2 DEF Sending, Lookers
    <3>2. uxMessagesWaiting <= uxMessagesWaiting'
      BY <2>1, CountTypes, SMTT(20)
    <3> QED
      BY <1>2, <1>3, <2>2, <3>1, <3>2, SendersKept DEF EnoughWoken
  <2> QED
    BY <1>2, <2>3, <2>4 DEF EnoughWoken
<1> QED
  BY <1>6, <1>7 DEF xQueueGenericReceive

(* A reset needs no receiver; senders that have room are not counted then. *)
LEMMA ResetWoken ==
  ASSUME Types, Sched, Queued, Args, Ring, EnoughWoken, Types', Ring',
         NEW t \in Tasks, xQueueGenericReset(t)
  PROVE  EnoughWoken'
<1>1. /\ At(t, "try") /\ Return(t) /\ call[t] = "reset" /\ uxMessagesWaiting' = 0
      /\ UNCHANGED schedVars
  BY DEF xQueueGenericReset
<1>2. Resetting'
  BY <1>1, ReturnLooks DEF EnoughWoken
<1>3. "reset" \in Calls
  BY <1>1 DEF EnoughWoken, Resetting
<1> QED
  BY <1>1, <1>2, <1>3, NothingToLookFor DEF EnoughWoken, SendersWoken

(* A task that finds nothing stops looking, and rightly so.                *)
LEMMA BlockedWoken ==
  ASSUME Types, Sched, Queued, Args, Ring, EnoughWoken, Types', Ring',
         NEW t \in Tasks, FailAtOnce(t) \/ vTaskSetTimeOutState(t)
  PROVE  EnoughWoken'
<1>1. /\ At(t, "try") /\ Blocked(t)
      /\ UNCHANGED <<ringVars, lockVars, waitVars, listVars, schedVars>>
  BY DEF FailAtOnce, vTaskSetTimeOutState
<1>2. pc[t] = "try"
  BY <1>1, RunsWhere
<1>3. /\ \A u \in Tasks \ {t} : pc'[u] = pc[u] /\ call'[u] = call[u]
      /\ Resetting'
  <2>1. CASE FailAtOnce(t)
    BY <2>1, ReturnLooks DEF FailAtOnce, EnoughWoken
  <2>2. CASE vTaskSetTimeOutState(t)
    BY <2>2 DEF vTaskSetTimeOutState, Goto, argVars, Types, CallTypes, EnoughWoken, Resetting
  <2> QED
    BY <2>1, <2>2
<1>4. /\ uxMessagesWaiting' = uxMessagesWaiting /\ uxMessagesWaiting \in Nat
      /\ cTxLock' = cTxLock /\ cRxLock' = cRxLock
      /\ xTasksWaitingToSend' = xTasksWaitingToSend
      /\ xTasksWaitingToReceive' = xTasksWaitingToReceive
      /\ xPendingReadyList' = xPendingReadyList
  BY <1>1, CountTypes, SMTT(20) DEF ringVars, lockVars, waitVars, listVars
<1>5. ReceiversWoken'
  <2>1. CASE call[t] \in Sends
    <3>1. Receiving \subseteq Receiving'
      BY <1>3, <1>4, <2>1 DEF Receiving, Lookers, Sends, Receives
    <3> QED
      BY <1>4, <3>1, ReceiversKept, SMTT(20) DEF EnoughWoken
  <2>2. CASE call[t] \notin Sends
    BY <1>1, <1>4, <2>2, NothingToLookFor DEF Blocked, Empty
  <2> QED
    BY <2>1, <2>2
<1>6. SendersWoken'
  <2>1. CASE call[t] \notin Sends
    <3>1. Sending \subseteq Sending'
      BY <1>3, <1>4, <2>1 DEF Sending, Lookers
    <3> QED
      BY <1>4, <3>1, SendersKept, SMTT(20) DEF EnoughWoken
  <2>2. CASE call[t] \in Sends
    BY <1>1, <1>4, <2>2, NothingToLookFor DEF Blocked, Full
  <2> QED
    BY <2>1, <2>2
<1> QED
  BY <1>3, <1>5, <1>6 DEF EnoughWoken

(* A task that waits found nothing, after the queue was locked.            *)
LEMMA TestWoken ==
  ASSUME Types, Sched, Queued, Args, Ring, EnoughWoken, Types', Ring',
         NEW t \in Tasks, TestAgain(t)
  PROVE  EnoughWoken'
<1>1. /\ At(t, "test") /\ Goto(t, "unlockTx")
      /\ UNCHANGED <<ringVars, lockVars, xPendingReadyList, argVars>>
  BY DEF TestAgain
<1>2. pc[t] = "test"
  BY <1>1, RunsWhere
<1>3. /\ \A u \in Tasks \ {t} : pc'[u] = pc[u]
      /\ UNCHANGED call /\ Resetting'
  BY <1>1 DEF Goto, argVars, Types, CallTypes, EnoughWoken, Resetting
<1>4. /\ uxMessagesWaiting' = uxMessagesWaiting /\ uxMessagesWaiting \in Nat
      /\ cTxLock' = cTxLock /\ cRxLock' = cRxLock
      /\ xPendingReadyList' = xPendingReadyList
  BY <1>1, CountTypes, SMTT(20) DEF ringVars, lockVars
<1>5. ReceiversWoken'
  <2>1. CASE UNCHANGED xTasksWaitingToReceive
    <3>1. Receiving \subseteq Receiving'
      BY <1>2, <1>3, <1>4, <2>1 DEF Receiving, Lookers
    <3> QED
      BY <1>4, <2>1, <3>1, ReceiversKept, SMTT(20) DEF EnoughWoken
  <2>2. CASE Blocked(t) /\ call[t] \notin Sends
    BY <1>4, <2>2, NothingToLookFor DEF Blocked, Empty
  <2> QED
    BY <2>1, <2>2 DEF TestAgain, vTaskPlaceOnEventList, waitVars
<1>6. SendersWoken'
  <2>1. CASE UNCHANGED xTasksWaitingToSend
    <3>1. Sending \subseteq Sending'
      BY <1>2, <1>3, <1>4, <2>1 DEF Sending, Lookers
    <3> QED
      BY <1>4, <2>1, <3>1, SendersKept, SMTT(20) DEF EnoughWoken
  <2>2. CASE Blocked(t) /\ call[t] \in Sends
    BY <1>4, <2>2, NothingToLookFor DEF Blocked, Full
  <2> QED
    BY <2>1, <2>2 DEF TestAgain, vTaskPlaceOnEventList, waitVars
<1> QED
  BY <1>3, <1>5, <1>6 DEF EnoughWoken

(* prvUnlockQueue wakes as many receivers as interrupts sent items.        *)
LEMMA UnlockTxWoken ==
  ASSUME Types, Sched, Queued, Args, Ring, EnoughWoken, Types', Ring',
         NEW t \in Tasks, prvUnlockQueueTx(t)
  PROVE  EnoughWoken'
<1> DEFINE q == xTasksWaitingToReceive
           w == Front(q, cTxLock)
<1>1. /\ At(t, "unlockTx") /\ Goto(t, "unlockRx") /\ Woken(w)
      /\ xTasksWaitingToReceive' = Behind(q, cTxLock) /\ cTxLock' = UNLOCKED
      /\ UNCHANGED <<ringVars, cRxLock, xTasksWaitingToSend, argVars>>
  BY DEF prvUnlockQueueTx
<1>2. pc[t] = "unlockTx" /\ suspender = t
  BY <1>1, RunsWhere DEF Locked
<1>3. cTxLock \in Nat /\ Counted(cTxLock) = cTxLock /\ Counted(cTxLock') = 0
  BY <1>1, <1>2, ConstantsAssumption, SMTT(20) DEF Sched, Types, LockTypes, Counted, UNLOCKED
<1>4. q \in Seq(Tasks) /\ Distinct(q) /\ Members(q) \in SUBSET Tasks
  BY MembersOf DEF Types, ListTypes, Queued, Waiting
<1>5. /\ w \in SUBSET Members(q)
      /\ Members(xTasksWaitingToReceive') = Members(q) \ w
      /\ xTasksWaitingToReceive' # <<>> => Cardinality(w) >= cTxLock
  BY <1>1, <1>3, <1>4, FrontAndBehind
<1>6. \A h \in Members(q) : call[h] \in Receives
  BY DEF Queued, Waiting
<1>7. xTasksWaitingToReceive' # <<>> => q # <<>>
  <2>1. xTasksWaitingToReceive' \in Seq(Tasks)
    BY DEF Types, ListTypes
  <2> HIDE DEF q, w
  <2>2. xTasksWaitingToReceive' # <<>> => Members(xTasksWaitingToReceive') # {}
    BY <2>1, MembersOf, SMTT(20)
  <2>3. q = <<>> => Members(q) = {}
    BY <1>4, MembersOf
  <2> QED
    BY <1>5, <2>2, <2>3
<1> HIDE DEF q, w
<1>8. /\ w \in SUBSET Tasks
      /\ w \subseteq Members(xTasksWaitingToSend) \cup Members(xTasksWaitingToReceive)
  BY <1>4, <1>5 DEF q
<1>9. w \subseteq xPendingReadyList' /\ xPendingReadyList \subseteq xPendingReadyList'
  BY <1>1, <1>2, <1>8, WokenLook, ConstantsAssumption
<1>10. /\ \A u \in Tasks \ {t} : pc'[u] = pc[u]
       /\ UNCHANGED call /\ Resetting'
  BY <1>1 DEF Goto, argVars, Types, CallTypes, EnoughWoken, Resetting
<1>11. uxMessagesWaiting' = uxMessagesWaiting /\ uxMessagesWaiting \in Nat
  BY <1>1, CountTypes, SMTT(20) DEF ringVars
<1>12. ReceiversWoken'
  <2> SUFFICES ASSUME xTasksWaitingToReceive' # <<>>
               PROVE  Cardinality(Receiving') + Counted(cTxLock') >= uxMessagesWaiting'
    BY DEF ReceiversWoken
  <2>1. Receiving \subseteq Receiving'
    BY <1>2, <1>5, <1>9, <1>10 DEF Receiving, Lookers, q
  <2>2. w \in SUBSET Receiving'
    BY <1>5, <1>6, <1>8, <1>9, <1>10 DEF Receiving, Lookers
  <2>3. Receiving \cap w = {}
    BY <1>5 DEF Receiving, Lookers, q
  <2>4. Receiving \in SUBSET Tasks /\ Receiving' \in SUBSET Tasks
    BY DEF Receiving, Lookers
  <2>5. /\ Cardinality(Receiving) \in Nat /\ Cardinality(Receiving') \in Nat
        /\ Cardinality(w) \in Nat
        /\ Cardinality(Receiving) + Cardinality(w) <= Cardinality(Receiving')
    BY <2>1, <2>2, <2>3, <2>4, CountAll
  <2>6. Cardinality(Receiving) + cTxLock >= uxMessagesWaiting
    BY <1>3, <1>7 DEF EnoughWoken, ReceiversWoken, q
  <2> QED
    BY <1>3, <1>5, <1>11, <2>5, <2>6, SMTT(20)
<1>13. SendersWoken'
  <2>1. Sending \subseteq Sending'
    BY <1>1, <1>2, <1>9, <1>10 DEF Sending, Lookers
  <2>2. uxMessagesWaiting <= uxMessagesWaiting'
    BY <1>11, SMTT(20)
  <2> QED
    BY <1>1, <2>1, <2>2, SendersKept DEF EnoughWoken
<1> QED
  BY <1>10, <1>12, <1>13 DEF EnoughWoken

(* prvUnlockQueue wakes as many senders as interrupts received items.      *)
LEMMA UnlockRxWoken ==
  ASSUME Types, Sched, Queued, Args, Ring, EnoughWoken, Types', Ring',
         NEW t \in Tasks, prvUnlockQueueRx(t)
  PROVE  EnoughWoken'
<1> DEFINE q == xTasksWaitingToSend
           w == Front(q, cRxLock)
<1>1. /\ At(t, "unlockRx") /\ Goto(t, "resume") /\ Woken(w)
      /\ xTasksWaitingToSend' = Behind(q, cRxLock) /\ cRxLock' = UNLOCKED
      /\ UNCHANGED <<ringVars, cTxLock, xTasksWaitingToReceive, argVars>>
  BY DEF prvUnlockQueueRx
<1>2. pc[t] = "unlockRx" /\ suspender = t
  BY <1>1, RunsWhere DEF Locked
<1>3. cRxLock \in Nat /\ Counted(cRxLock) = cRxLock /\ Counted(cRxLock') = 0
  BY <1>1, <1>2, ConstantsAssumption, SMTT(20) DEF Sched, Types, LockTypes, Counted, UNLOCKED
<1>4. q \in Seq(Tasks) /\ Distinct(q) /\ Members(q) \in SUBSET Tasks
  BY MembersOf DEF Types, ListTypes, Queued, Waiting
<1>5. /\ w \in SUBSET Members(q)
      /\ Members(xTasksWaitingToSend') = Members(q) \ w
      /\ xTasksWaitingToSend' # <<>> => Cardinality(w) >= cRxLock
  BY <1>1, <1>3, <1>4, FrontAndBehind
<1>6. \A h \in Members(q) : call[h] \in Sends
  BY DEF Queued, Waiting
<1>7. xTasksWaitingToSend' # <<>> => q # <<>>
  <2>1. xTasksWaitingToSend' \in Seq(Tasks)
    BY DEF Types, ListTypes
  <2> HIDE DEF q, w
  <2>2. xTasksWaitingToSend' # <<>> => Members(xTasksWaitingToSend') # {}
    BY <2>1, MembersOf, SMTT(20)
  <2>3. q = <<>> => Members(q) = {}
    BY <1>4, MembersOf
  <2> QED
    BY <1>5, <2>2, <2>3
<1> HIDE DEF q, w
<1>8. /\ w \in SUBSET Tasks
      /\ w \subseteq Members(xTasksWaitingToSend) \cup Members(xTasksWaitingToReceive)
  BY <1>4, <1>5 DEF q
<1>9. w \subseteq xPendingReadyList' /\ xPendingReadyList \subseteq xPendingReadyList'
  BY <1>1, <1>2, <1>8, WokenLook, ConstantsAssumption
<1>10. /\ \A u \in Tasks \ {t} : pc'[u] = pc[u]
       /\ UNCHANGED call /\ Resetting'
  BY <1>1 DEF Goto, argVars, Types, CallTypes, EnoughWoken, Resetting
<1>11. uxMessagesWaiting' = uxMessagesWaiting /\ uxMessagesWaiting \in Nat
  BY <1>1, CountTypes, SMTT(20) DEF ringVars
<1>12. SendersWoken'
  <2> SUFFICES ASSUME "reset" \notin Calls, xTasksWaitingToSend' # <<>>
               PROVE  Cardinality(Sending') + Counted(cRxLock') >= Length - uxMessagesWaiting'
    BY DEF SendersWoken
  <2>1. Sending \subseteq Sending'
    BY <1>2, <1>5, <1>9, <1>10 DEF Sending, Lookers, q
  <2>2. w \in SUBSET Sending'
    BY <1>5, <1>6, <1>8, <1>9, <1>10 DEF Sending, Lookers
  <2>3. Sending \cap w = {}
    BY <1>5 DEF Sending, Lookers, q
  <2>4. Sending \in SUBSET Tasks /\ Sending' \in SUBSET Tasks
    BY DEF Sending, Lookers
  <2>5. /\ Cardinality(Sending) \in Nat /\ Cardinality(Sending') \in Nat
        /\ Cardinality(w) \in Nat
        /\ Cardinality(Sending) + Cardinality(w) <= Cardinality(Sending')
    BY <2>1, <2>2, <2>3, <2>4, CountAll
  <2>6. Cardinality(Sending) + cRxLock >= Length - uxMessagesWaiting
    BY <1>3, <1>7 DEF EnoughWoken, SendersWoken, q
  <2> QED
    BY <1>3, <1>5, <1>11, <2>5, <2>6, CountTypes, SMTT(20)
<1>13. ReceiversWoken'
  <2>1. Receiving \subseteq Receiving'
    BY <1>1, <1>2, <1>9, <1>10 DEF Receiving, Lookers
  <2>2. uxMessagesWaiting' <= uxMessagesWaiting
    BY <1>11, SMTT(20)
  <2> QED
    BY <1>1, <2>1, <2>2, ReceiversKept DEF EnoughWoken
<1> QED
  BY <1>10, <1>12, <1>13 DEF EnoughWoken

(* Nobody stops looking, and the event lists only get shorter.             *)
LEMMA StillWoken ==
  ASSUME Types, Sched, Ring, EnoughWoken, Types', Ring',
         UNCHANGED <<ringVars, call>>,
         Counted(cTxLock') = Counted(cTxLock), Counted(cRxLock') = Counted(cRxLock),
         Members(xTasksWaitingToSend') \subseteq Members(xTasksWaitingToSend),
         Members(xTasksWaitingToReceive') \subseteq Members(xTasksWaitingToReceive),
         \A u \in Tasks : pc[u] = "try" \/ u \in xPendingReadyList
                            => pc'[u] = "try" \/ u \in xPendingReadyList'
  PROVE  EnoughWoken'
<1>1. Receiving \subseteq Receiving' /\ Sending \subseteq Sending'
  BY DEF Receiving, Sending, Lookers
<1>2. uxMessagesWaiting' = uxMessagesWaiting /\ uxMessagesWaiting \in Nat
  BY CountTypes, SMTT(20) DEF ringVars
<1>3. /\ xTasksWaitingToSend \in Seq(Tasks) /\ xTasksWaitingToSend' \in Seq(Tasks)
      /\ xTasksWaitingToReceive \in Seq(Tasks) /\ xTasksWaitingToReceive' \in Seq(Tasks)
  BY DEF Types, ListTypes
<1>4. /\ xTasksWaitingToSend' # <<>> => Members(xTasksWaitingToSend') # {}
      /\ xTasksWaitingToReceive' # <<>> => Members(xTasksWaitingToReceive') # {}
      /\ xTasksWaitingToSend = <<>> => Members(xTasksWaitingToSend) = {}
      /\ xTasksWaitingToReceive = <<>> => Members(xTasksWaitingToReceive) = {}
  BY <1>3, MembersOf, SMTT(20)
<1>5. /\ xTasksWaitingToSend' # <<>> => xTasksWaitingToSend # <<>>
      /\ xTasksWaitingToReceive' # <<>> => xTasksWaitingToReceive # <<>>
  BY <1>4
<1>6. uxMessagesWaiting' <= uxMessagesWaiting /\ uxMessagesWaiting <= uxMessagesWaiting'
  BY <1>2, SMTT(20)
<1>7. ReceiversWoken' /\ SendersWoken'
  BY <1>1, <1>5, <1>6, ReceiversKept, SendersKept DEF EnoughWoken
<1> QED
  BY <1>7 DEF EnoughWoken, Resetting

(* The pending tasks look once the scheduler is resumed.                   *)
LEMMA ResumeWoken ==
  ASSUME Types, Sched, Queued, Ring, EnoughWoken, Types', Ring',
         NEW t \in Tasks, xTaskResumeAll(t)
  PROVE  EnoughWoken'
<1>1. /\ At(t, "resume") /\ Goto(t, IF expired THEN "late" ELSE "try")
      /\ UNCHANGED <<ringVars, lockVars, argVars>>
  BY DEF xTaskResumeAll
<1>2. pc[t] = "resume" /\ suspender = t
  BY <1>1, RunsWhere DEF Locked
<1>3. /\ Members(xTasksWaitingToSend') \subseteq Members(xTasksWaitingToSend)
      /\ Members(xTasksWaitingToReceive') \subseteq Members(xTasksWaitingToReceive)
  BY ResumeWaits
<1>4. \A u \in Tasks \ {t} : pc'[u] = pc[u]
  BY <1>1 DEF Goto, Types, CallTypes
<1>5. ~expired => pc'[t] = "try"
  BY <1>1 DEF Goto, Types, CallTypes
<1>6. \A u \in xPendingReadyList : u \in Tasks /\ list[u] # "ready"
  BY DEF Queued, Waiting, Types, ListTypes
<1>7. \A u \in Tasks \ {t} : u \in xPendingReadyList => pc[u] = "try"
  BY <1>2, <1>6 DEF Sched, Locked
<1>8. t \in xPendingReadyList => ~expired
  BY <1>2, <1>6 DEF Sched, Locked
<1> QED
  BY <1>1, <1>2, <1>3, <1>4, <1>5, <1>7, <1>8, StillWoken DEF lockVars, argVars

(* Steps that change neither the queue nor who looks.                      *)
LEMMA QuietWoken ==
  ASSUME Types, Sched, Queued, Ring, Args, EnoughWoken, Types', Ring',
         NEW t \in Tasks, \/ vTaskSuspendAll(t) \/ LockAndCheck(t) \/ Enter(t)
                          \/ TimedOut(t)
  PROVE  EnoughWoken'
<1>1. CASE vTaskSuspendAll(t) \/ LockAndCheck(t)
  <2>1. /\ \E p, r \in Places : At(t, p) /\ p # "try" /\ Goto(t, r)
        /\ UNCHANGED <<ringVars, waitVars, listVars, argVars>>
    <3>1. CASE vTaskSuspendAll(t)
      BY <3>1 DEF vTaskSuspendAll, Places
    <3>2. CASE LockAndCheck(t)
      BY <3>2 DEF LockAndCheck, xTaskCheckForTimeOut, Places
    <3> QED
      BY <1>1, <3>1, <3>2
  <2>2. Counted(cTxLock') = Counted(cTxLock) /\ Counted(cRxLock') = Counted(cRxLock)
    BY <1>1 DEF vTaskSuspendAll, LockAndCheck, prvLockQueue, lockVars, Counted, UNLOCKED,
       UNMODIFIED
  <2>3. pc[t] # "try" /\ \A u \in Tasks \ {t} : pc'[u] = pc[u]
    BY <2>1 DEF At, Goto, Types, CallTypes
  <2> QED
    BY <2>1, <2>2, <2>3, StillWoken DEF waitVars, listVars, argVars
<1>2. CASE Enter(t) \/ TimedOut(t)
  <2>1. UNCHANGED <<ringVars, lockVars, waitVars, listVars>>
    BY <1>2 DEF Enter, TimedOut
  <2>2. /\ pc[t] \in {"idle", "late"} /\ list[t] = "ready" /\ suspender = None
    <3>1. At(t, "idle") \/ At(t, "late")
      BY <1>2 DEF Enter, TimedOut
    <3> QED
      BY <3>1, RunsWhere, SMTT(20) DEF Locked
  <2>3. /\ \A u \in Tasks \ {t} : pc'[u] = pc[u] /\ call'[u] = call[u]
    BY <1>2 DEF Enter, TimedOut, Return, Goto, Types, CallTypes, Args, argVars
  <2>4. call'[t] \in Calls \/ call'[t] = None \/ call'[t] = call[t]
    BY <1>2, ConstantsAssumption DEF Enter, TimedOut, Return, Args, argVars
  <2>5. Resetting'
    BY <2>3, <2>4, ConstantsAssumption DEF EnoughWoken, Resetting, CallNames
  <2>6. t \notin xPendingReadyList
    BY <2>2 DEF Queued, Waiting
  <2>7. Receiving \subseteq Receiving' /\ Sending \subseteq Sending'
    BY <2>1, <2>2, <2>3, <2>6 DEF Receiving, Sending, Lookers, waitVars, listVars
  <2>8. uxMessagesWaiting' <= uxMessagesWaiting /\ uxMessagesWaiting <= uxMessagesWaiting'
    BY <2>1, CountTypes, SMTT(20) DEF ringVars
  <2>9. ReceiversWoken' /\ SendersWoken'
    BY <2>1, <2>7, <2>8, ReceiversKept, SendersKept DEF EnoughWoken, lockVars, waitVars
  <2> QED
    BY <2>5, <2>9 DEF EnoughWoken
<1> QED
  BY <1>1, <1>2

(* An interrupt wakes a task, or counts.                                   *)
LEMMA SendFromISRWoken ==
  ASSUME Types, Sched, Queued, Ring, EnoughWoken, Types', Ring', xQueueGenericSendFromISR
  PROVE  EnoughWoken'
<1>1. /\ uxMessagesWaiting' = uxMessagesWaiting + 1
      /\ UNCHANGED <<cRxLock, pc, argVars>>
  BY DEF xQueueGenericSendFromISR, prvCopyDataToQueue
<1>2. /\ Receiving \in SUBSET Tasks /\ Receiving' \in SUBSET Tasks
      /\ UNCHANGED call /\ Resetting'
  BY <1>1 DEF Receiving, Lookers, argVars, EnoughWoken, Resetting
<1>3. uxMessagesWaiting <= uxMessagesWaiting' /\ uxMessagesWaiting \in Nat
  BY <1>1, CountTypes, SMTT(20)
<1>4. CASE cTxLock = UNLOCKED /\ WakeReceiver /\ UNCHANGED cTxLock
  <2>1. /\ UNCHANGED xTasksWaitingToSend /\ xPendingReadyList \subseteq xPendingReadyList'
        /\ Members(xTasksWaitingToReceive') \subseteq Members(xTasksWaitingToReceive)
        /\ xTasksWaitingToReceive' # <<>> => xTasksWaitingToReceive # <<>>
    BY <1>4, ReceiverLooks
  <2>2. Counted(cTxLock) = 0 /\ Counted(cTxLock') = 0
    BY <1>4 DEF Counted
  <2>3. ReceiversWoken'
    <3> SUFFICES ASSUME xTasksWaitingToReceive' # <<>>
                 PROVE  Cardinality(Receiving') + Counted(cTxLock') >= uxMessagesWaiting'
      BY DEF ReceiversWoken
    <3>1. xTasksWaitingToReceive # <<>>
      BY <2>1
    <3>2. PICK h \in Tasks : /\ h \in Members(xTasksWaitingToReceive)
                             /\ h \notin Members(xTasksWaitingToReceive')
                             /\ call[h] \in Receives
                             /\ pc[h] = "try" \/ h \in xPendingReadyList'
      BY <1>4, <3>1, ReceiverLooks
    <3>3. Receiving \subseteq Receiving'
      BY <1>1, <1>2, <2>1 DEF Receiving, Lookers
    <3>4. h \in Receiving' /\ h \notin Receiving
      BY <1>1, <1>2, <3>2 DEF Receiving, Lookers
    <3>5. /\ Cardinality(Receiving) \in Nat /\ Cardinality(Receiving') \in Nat
          /\ Cardinality(Receiving) + 1 <= Cardinality(Receiving')
      BY <1>2, <3>3, <3>4, CountMore
    <3>6. Cardinality(Receiving) >= uxMessagesWaiting
      BY <2>2, <3>1, <3>5, SMTT(20) DEF EnoughWoken, ReceiversWoken
    <3> QED
      BY <1>1, <1>3, <2>2, <3>5, <3>6, SMTT(20)
  <2>4. SendersWoken'
    <3>1. Sending \subseteq Sending'
      BY <1>1, <1>2, <2>1 DEF Sending, Lookers
    <3> QED
      BY <1>1, <1>3, <2>1, <3>1, SendersKept DEF EnoughWoken
  <2> QED
    BY <1>2, <2>3, <2>4 DEF EnoughWoken
<1>5. CASE cTxLock # UNLOCKED /\ cTxLock' = cTxLock + 1 /\ UNCHANGED <<waitVars, listVars>>
  <2>1. /\ Counted(cTxLock') = Counted(cTxLock) + 1 /\ Counted(cTxLock) \in Nat
    BY <1>5, ConstantsAssumption, SMTT(20) DEF Counted, UNLOCKED, Types, LockTypes
  <2>2. /\ UNCHANGED xTasksWaitingToSend /\ UNCHANGED xTasksWaitingToReceive
        /\ UNCHANGED xPendingReadyList
    BY <1>5 DEF waitVars, listVars
  <2>3. Receiving' = Receiving /\ Sending' = Sending
    BY <1>1, <1>2, <2>2 DEF Receiving, Sending, Lookers
  <2>4. Cardinality(Receiving) \in Nat
    BY <1>2, CountKept
  <2>5. ReceiversWoken'
    BY <1>1, <1>3, <2>1, <2>2, <2>3, <2>4, SMTT(20) DEF EnoughWoken, ReceiversWoken
  <2>6. SendersWoken'
    BY <1>1, <1>3, <2>2, <2>3, SendersKept DEF EnoughWoken
  <2> QED
    BY <1>2, <2>5, <2>6 DEF EnoughWoken
<1> QED
  BY <1>4, <1>5 DEF xQueueGenericSendFromISR

(* So does an interrupt that receives.                                     *)
LEMMA ReceiveFromISRWoken ==
  ASSUME Types, Sched, Queued, Ring, EnoughWoken, Types', Ring', xQueueReceiveFromISR
  PROVE  EnoughWoken'
<1>1. /\ uxMessagesWaiting' = uxMessagesWaiting - 1
      /\ UNCHANGED <<cTxLock, pc, argVars>>
  BY DEF xQueueReceiveFromISR, prvCopyDataFromQueue
<1>2. /\ Sending \in SUBSET Tasks /\ Sending' \in SUBSET Tasks
      /\ UNCHANGED call /\ Resetting'
  BY <1>1 DEF Sending, Lookers, argVars, EnoughWoken, Resetting
<1>3. /\ uxMessagesWaiting' <= uxMessagesWaiting /\ uxMessagesWaiting \in Nat
      /\ Length \in Nat
  BY <1>1, CountTypes, SMTT(20)
<1>4. CASE cRxLock = UNLOCKED /\ WakeSender /\ UNCHANGED cRxLock
  <2>1. /\ UNCHANGED xTasksWaitingToReceive /\ xPendingReadyList \subseteq xPendingReadyList'
        /\ Members(xTasksWaitingToSend') \subseteq Members(xTasksWaitingToSend)
        /\ xTasksWaitingToSend' # <<>> => xTasksWaitingToSend # <<>>
    BY <1>4, SenderLooks
  <2>2. Counted(cRxLock) = 0 /\ Counted(cRxLock') = 0
    BY <1>4 DEF Counted
  <2>3. SendersWoken'
    <3> SUFFICES ASSUME "reset" \notin Calls, xTasksWaitingToSend' # <<>>
                 PROVE  Cardinality(Sending') + Counted(cRxLock') >= Length - uxMessagesWaiting'
      BY DEF SendersWoken
    <3>1. xTasksWaitingToSend # <<>>
      BY <2>1
    <3>2. PICK h \in Tasks : /\ h \in Members(xTasksWaitingToSend)
                             /\ h \notin Members(xTasksWaitingToSend')
                             /\ call[h] \in Sends
                             /\ pc[h] = "try" \/ h \in xPendingReadyList'
      BY <1>4, <3>1, SenderLooks
    <3>3. Sending \subseteq Sending'
      BY <1>1, <1>2, <2>1 DEF Sending, Lookers
    <3>4. h \in Sending' /\ h \notin Sending
      BY <1>1, <1>2, <3>2 DEF Sending, Lookers
    <3>5. /\ Cardinality(Sending) \in Nat /\ Cardinality(Sending') \in Nat
          /\ Cardinality(Sending) + 1 <= Cardinality(Sending')
      BY <1>2, <3>3, <3>4, CountMore
    <3>6. Cardinality(Sending) >= Length - uxMessagesWaiting
      BY <1>3, <2>2, <3>1, <3>5, SMTT(20) DEF EnoughWoken, SendersWoken
    <3> QED
      BY <1>1, <1>3, <2>2, <3>5, <3>6, SMTT(20)
  <2>4. ReceiversWoken'
    <3>1. Receiving \subseteq Receiving'
      BY <1>1, <1>2, <2>1 DEF Receiving, Lookers
    <3> QED
      BY <1>1, <1>3, <2>1, <3>1, ReceiversKept DEF EnoughWoken
  <2> QED
    BY <1>2, <2>3, <2>4 DEF EnoughWoken
<1>5. CASE cRxLock # UNLOCKED /\ cRxLock' = cRxLock + 1 /\ UNCHANGED <<waitVars, listVars>>
  <2>1. /\ Counted(cRxLock') = Counted(cRxLock) + 1 /\ Counted(cRxLock) \in Nat
    BY <1>5, ConstantsAssumption, SMTT(20) DEF Counted, UNLOCKED, Types, LockTypes
  <2>2. /\ UNCHANGED xTasksWaitingToSend /\ UNCHANGED xTasksWaitingToReceive
        /\ UNCHANGED xPendingReadyList
    BY <1>5 DEF waitVars, listVars
  <2>3. Receiving' = Receiving /\ Sending' = Sending
    BY <1>1, <1>2, <2>2 DEF Receiving, Sending, Lookers
  <2>4. Cardinality(Sending) \in Nat
    BY <1>2, CountKept
  <2>5. SendersWoken'
    BY <1>1, <1>3, <2>1, <2>2, <2>3, <2>4, SMTT(20) DEF EnoughWoken, SendersWoken
  <2>6. ReceiversWoken'
    BY <1>1, <1>3, <2>2, <2>3, ReceiversKept DEF EnoughWoken
  <2> QED
    BY <1>2, <2>5, <2>6 DEF EnoughWoken
<1> QED
  BY <1>4, <1>5 DEF xQueueReceiveFromISR

(* Every step keeps enough tasks looking.                                  *)
LEMMA StepWoken ==
  ASSUME IInv, Types, Sched, Queued, EnoughWoken, IInv', Types', [Next]_vars
  PROVE  EnoughWoken'
<1>0. Args /\ Ring /\ Ring'
  BY DEF IInv
<1>1. ASSUME NEW t \in Tasks, Enter(t) \/ Step(t) PROVE EnoughWoken'
  BY <1>0, <1>1, SendWoken, ReceiveWoken, ResetWoken, BlockedWoken, TestWoken,
     UnlockTxWoken, UnlockRxWoken, ResumeWoken, QuietWoken DEF Step
<1>2. CASE Tick
  <2>1. UNCHANGED <<ringVars, lockVars, xPendingReadyList, pc, argVars>>
    BY <1>2 DEF Tick
  <2>2. /\ Members(xTasksWaitingToSend') \subseteq Members(xTasksWaitingToSend)
        /\ Members(xTasksWaitingToReceive') \subseteq Members(xTasksWaitingToReceive)
    BY <1>2, RunTickWaits
  <2> QED
    BY <1>0, <2>1, <2>2, StillWoken DEF lockVars, argVars
<1>3. CASE UNCHANGED vars
  BY <1>0, <1>3, StillWoken DEF vars, lockVars, argVars, waitVars, listVars
<1> QED
  BY <1>0, <1>1, <1>2, <1>3, SendFromISRWoken, ReceiveFromISRWoken DEF Next

(* At the start nobody has to look.                                        *)
LEMMA InitWoken == Init => EnoughWoken
BY ConstantsAssumption
DEF Init, EnoughWoken, ReceiversWoken, SendersWoken, Resetting, CallNames

(* Enough tasks look, for all time.                                        *)
LEMMA WokenInvariance == Spec => [](IInv /\ Types /\ Sched /\ Queued /\ EnoughWoken)
<1>1. EnoughWoken /\ (IInv /\ Types /\ Sched /\ Queued) /\ (IInv /\ Types /\ Sched /\ Queued)'
        /\ [Next]_vars => EnoughWoken'
  BY StepWoken
<1> QED
  BY <1>1, QueuedInvariance, InitWoken, PTL DEF Spec

(* One of the tasks that look is ready, while the scheduler runs.          *)
LEMMA LookerInside ==
  ASSUME Types, Sched, Queued, suspender = None
  PROVE  /\ Cardinality(Receiving) > 0 => Inside(Receives)
         /\ Cardinality(Sending) > 0 => Inside(Sends)
<1>1. xPendingReadyList = {}
  BY DEF Sched
<1>2. ASSUME Cardinality(Receiving) > 0 PROVE Inside(Receives)
  <2>1. PICK t : t \in Receiving
    BY <1>2, FS_EmptySet, SMTT(20)
  <2>2. t \in Tasks /\ call[t] \in Receives /\ t \notin Members(xTasksWaitingToReceive)
    BY <2>1 DEF Receiving, Lookers
  <2>3. list[t] = "ready"
    BY <1>1, <2>2 DEF Queued, Waiting, Sends, Receives
  <2> QED
    BY <2>2, <2>3 DEF Inside
<1>3. ASSUME Cardinality(Sending) > 0 PROVE Inside(Sends)
  <2>1. PICK t : t \in Sending
    BY <1>3, FS_EmptySet, SMTT(20)
  <2>2. t \in Tasks /\ call[t] \in Sends /\ t \notin Members(xTasksWaitingToSend)
    BY <2>1 DEF Sending, Lookers
  <2>3. list[t] = "ready"
    BY <1>1, <2>2 DEF Queued, Waiting, Sends, Receives
  <2> QED
    BY <2>2, <2>3 DEF Inside
<1> QED
  BY <1>2, <1>3

(* No wakeup of a receiver is lost: while an item waits and the scheduler  *)
(* runs, a task that waits to receive is not alone, one is about to look   *)
(* (xQueueGenericReceive, prvUnlockQueue, xQueueGenericSendFromISR).       *)
THEOREM ReceiversAreWoken == Spec => []NoReceiverLeftWaiting
<1>1. ASSUME IInv, Types, Sched, Queued, EnoughWoken PROVE NoReceiverLeftWaiting
  <2> SUFFICES ASSUME suspender = None, ~Empty, xTasksWaitingToReceive # <<>>
               PROVE  Inside(Receives)
    BY DEF NoReceiverLeftWaiting, Receives
  <2>1. Counted(cTxLock) = 0
    BY <1>1, ConstantsAssumption DEF Sched, Counted
  <2>2. uxMessagesWaiting \in Nat /\ uxMessagesWaiting # 0
    BY <1>1, CountTypes, SMTT(20) DEF Empty, IInv
  <2>3. Receiving \in SUBSET Tasks
    BY DEF Receiving, Lookers
  <2>4. Cardinality(Receiving) \in Nat
    BY <2>3, CountKept
  <2>5. Cardinality(Receiving) > 0
    BY <1>1, <2>1, <2>2, <2>4, SMTT(20) DEF EnoughWoken, ReceiversWoken
  <2> QED
    BY <1>1, <2>5, LookerInside
<1> QED
  BY <1>1, WokenInvariance, PTL

(* No wakeup of a sender is lost either, as long as no task resets the     *)
(* queue: xQueueGenericReset frees every place and wakes one sender.       *)
THEOREM SendersAreWoken == Spec => []("reset" \notin Calls => NoSenderLeftWaiting)
<1>1. ASSUME IInv, Types, Sched, Queued, EnoughWoken
      PROVE  "reset" \notin Calls => NoSenderLeftWaiting
  <2> SUFFICES ASSUME "reset" \notin Calls, suspender = None, ~Full,
                      xTasksWaitingToSend # <<>>
               PROVE  Inside(Sends)
    BY DEF NoSenderLeftWaiting
  <2>1. Counted(cRxLock) = 0
    BY <1>1, ConstantsAssumption DEF Sched, Counted
  <2>2. uxMessagesWaiting \in 0 .. Length /\ uxMessagesWaiting # Length /\ Length \in Nat
    BY <1>1, CountTypes DEF Full, IInv
  <2>3. Sending \in SUBSET Tasks
    BY DEF Sending, Lookers
  <2>4. Cardinality(Sending) \in Nat
    BY <2>3, CountKept
  <2>5. Cardinality(Sending) > 0
    BY <1>1, <2>1, <2>2, <2>4, SMTT(20) DEF EnoughWoken, SendersWoken
  <2> QED
    BY <1>1, <2>5, LookerInside
<1> QED
  BY <1>1, WokenInvariance, PTL
=============================================================================
