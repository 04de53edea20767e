---------------------------- MODULE QueueProofs -----------------------------
(***************************************************************************)
(* The ring of a FreeRTOS queue implements the bounded sequence of         *)
(* QueueSpec, for every length, set of items and set of tasks; and every   *)
(* variable of the queue and of the kernel keeps its type.                 *)
(*                                                                         *)
(* For the ring the inductive invariant ties its two ends to the count:    *)
(* the next item is written one cell beyond the last one that waits.       *)
(* Without it a send could overwrite an item that was not yet received.    *)
(*                                                                         *)
(* For the types it adds Sched: who may be between vTaskSuspendAll and     *)
(* xTaskResumeAll, and when the queue is locked. The pended ticks, the     *)
(* event lists that a tick shortens and the ordered insertion into a list  *)
(* are recursive; what they keep is shown by induction over a set of       *)
(* numbers.                                                                *)
(***************************************************************************)
EXTENDS Queue, WellFoundedInduction, TLAPS

(* Leaves are for Zenon, unless they say SMT.                              *)
USE ZenonT(30)

(* The pointers and the count agree.                                       *)
Ring ==
  /\ store \in [Indices -> Items] /\ got \in Items
  /\ pcWriteTo \in Indices /\ pcReadFrom \in Indices
  /\ uxMessagesWaiting \in 0 .. Length
  /\ pcWriteTo = Up(Wrap(pcReadFrom + uxMessagesWaiting))

(* A task that sends has an item to send.                                  *)
Args ==
  /\ call \in [Tasks -> CallNames \cup {None}]
  /\ item \in [Tasks -> Items \cup {None}]
  /\ \A t \in Tasks : call[t] \in Sends => item[t] \in Items

IInv == Ring /\ Args

(* A new queue is an empty sequence.                                       *)
LEMMA InitFifo == Init => IInv /\ Fifo!Init
<1> SUFFICES ASSUME Init PROVE IInv /\ Fifo!Init
  OBVIOUS
<1>1. Ring
  <2>1. PICK x \in Items : store = [k \in Indices |-> x] /\ got = x
    BY DEF Init
  <2> QED
    BY <2>1, ConstantsAssumption, SMTT(20) DEF Init, Ring, Indices, Up, Wrap
<1>2. Args
  BY ConstantsAssumption DEF Init, Args, Sends, CallNames
<1>3. Contents = <<>>
  BY SMTT(20) DEF Init, Contents
<1> QED
  BY <1>1, <1>2, <1>3 DEF IInv, Ring, Fifo!Init

(* Every step of a task, of the tick or of an interrupt is one of the      *)
(* abstract queue, or none.                                                *)
LEMMA StepFifo ==
  ASSUME IInv, [Next]_vars
  PROVE  IInv' /\ [Fifo!Next]_<<Contents, got>>
(* Every cell counted from the read position is one of the ring.           *)
<1>WrapIndex. ASSUME NEW p \in Indices, NEW m \in 0 .. Length, NEW k \in 1 .. m
      PROVE  Wrap(p + k) \in Indices
  BY <1>WrapIndex, ConstantsAssumption, SMTT(20) DEF Indices, Wrap
(* The sequence the ring stands for.                                       *)
<1>ContentsSeq. ASSUME Ring
      PROVE  /\ Contents \in Seq(Items) /\ Len(Contents) = uxMessagesWaiting
             /\ \A k \in 1 .. uxMessagesWaiting : Contents[k] = store[Wrap(pcReadFrom + k)]
  <2> USE <1>ContentsSeq
  <2>1. \A k \in 1 .. uxMessagesWaiting : Wrap(pcReadFrom + k) \in Indices
    BY <1>WrapIndex DEF Ring
  <2>2. Contents \in [1 .. uxMessagesWaiting -> Items]
    BY <2>1 DEF Contents, Ring
  <2>3. uxMessagesWaiting \in Nat
    BY ConstantsAssumption, SMTT(20) DEF Ring
  <2> QED
    BY <2>2, <2>3, SMTT(20) DEF Contents
(* The same after a step.                                                  *)
<1>ContentsSeqNext. ASSUME Ring'
      PROVE  Contents' \in Seq(Items) /\ Len(Contents') = uxMessagesWaiting'
  <2> USE <1>ContentsSeqNext
  <2>1. /\ store' \in [Indices -> Items] /\ pcReadFrom' \in Indices
        /\ uxMessagesWaiting' \in 0 .. Length
    BY DEF Ring, Indices
  <2>2. \A k \in 1 .. uxMessagesWaiting' : Wrap(pcReadFrom' + k) \in Indices
    BY <2>1, <1>WrapIndex
  <2>3. Contents' = [k \in 1 .. uxMessagesWaiting' |-> store'[Wrap(pcReadFrom' + k)]]
    BY DEF Contents, Wrap
  <2>4. Contents' \in [1 .. uxMessagesWaiting' -> Items]
    BY <2>1, <2>2, <2>3
  <2>5. uxMessagesWaiting' \in Nat
    BY <2>1, ConstantsAssumption, SMTT(20)
  <2> QED
    BY <2>4, <2>5, SMTT(20)
(* Sequences with the same items are the same.                             *)
<1>SameSequence. ASSUME NEW s \in Seq(Items), NEW t \in Seq(Items), NEW m \in Nat,
             Len(s) = m, Len(t) = m, \A k \in 1 .. m : s[k] = t[k]
      PROVE  s = t
  BY <1>SameSequence, SMTT(20)
(* An item stored at pcWriteTo is the last one of the sequence.            *)
<1>SendToBack. ASSUME Ring, ~Full, NEW x \in Items, prvCopyDataToQueue(x, FALSE)
      PROVE  Ring' /\ Contents' = Append(Contents, x) /\ got' = got
  <2> USE <1>SendToBack
  <2> DEFINE n == uxMessagesWaiting
  <2>1. /\ store' = [store EXCEPT ![pcWriteTo] = x] /\ pcWriteTo' = Up(pcWriteTo)
        /\ pcReadFrom' = pcReadFrom /\ n' = n + 1 /\ got' = got
    BY DEF prvCopyDataToQueue
  <2>2. n \in 0 .. Length - 1
    BY ConstantsAssumption, SMTT(20) DEF Ring, Full
  <2>3. pcWriteTo = Wrap(pcReadFrom + (n + 1))
    BY <2>2, ConstantsAssumption, SMTT(20) DEF Ring, Indices, Up, Wrap
  <2>4. Ring'
    BY <2>1, <2>2, <2>3, ConstantsAssumption, SMTT(20) DEF Ring, Indices, Up, Wrap
  <2>5. \A k \in 1 .. n : Wrap(pcReadFrom + k) \in Indices \ {pcWriteTo}
    BY <2>2, <2>3, ConstantsAssumption, SMTT(20) DEF Ring, Indices, Wrap
  <2>6. \A k \in 1 .. n + 1 : Contents'[k] = Append(Contents, x)[k]
    <3> TAKE k \in 1 .. n + 1
    <3>1. Contents'[k] = store'[Wrap(pcReadFrom + k)]
      <4>1. Contents' = [j \in 1 .. n + 1 |-> store'[Wrap(pcReadFrom + j)]]
        BY <2>1, SMTT(20) DEF Contents, Wrap
      <4> QED
        BY <4>1
    <3>2. CASE k = n + 1
      BY <3>1, <3>2, <2>1, <2>2, <2>3, <1>ContentsSeq, SMTT(20) DEF Ring
    <3>3. CASE k \in 1 .. n
      BY <3>1, <3>3, <2>1, <2>2, <2>5, <1>ContentsSeq, SMTT(20) DEF Ring
    <3>4. k = n + 1 \/ k \in 1 .. n
      BY <2>2, ConstantsAssumption, SMTT(20)
    <3> QED
      BY <3>2, <3>3, <3>4
  <2>7. Contents' \in Seq(Items) /\ Len(Contents') = n + 1
    BY <2>4, <2>1, <1>ContentsSeqNext
  <2>8. Append(Contents, x) \in Seq(Items) /\ Len(Append(Contents, x)) = n + 1
    BY <1>ContentsSeq, SMTT(20)
  <2>9. n + 1 \in Nat
    BY <2>2, ConstantsAssumption, SMTT(20)
  <2>10. Contents' = Append(Contents, x)
    BY <2>6, <2>7, <2>8, <2>9, <1>SameSequence
  <2> QED
    BY <2>1, <2>4, <2>10
(* An item stored at pcReadFrom, which then moves back, is the first one.  *)
<1>SendToFront. ASSUME Ring, ~Full, NEW x \in Items, prvCopyDataToQueue(x, TRUE)
      PROVE  Ring' /\ Contents' = <<x>> \o Contents /\ got' = got
  <2> USE <1>SendToFront
  <2> DEFINE n == uxMessagesWaiting
  <2>1. /\ store' = [store EXCEPT ![pcReadFrom] = x] /\ pcWriteTo' = pcWriteTo
        /\ pcReadFrom' = Down(pcReadFrom) /\ n' = n + 1 /\ got' = got
    BY DEF prvCopyDataToQueue
  <2>2. n \in 0 .. Length - 1
    BY ConstantsAssumption, SMTT(20) DEF Ring, Full
  <2>3. Down(pcReadFrom) \in Indices /\ Wrap(Down(pcReadFrom) + 1) = pcReadFrom
    BY ConstantsAssumption, SMTT(20) DEF Ring, Indices, Down, Wrap
  <2>4. \A k \in 1 .. n : /\ Wrap(Down(pcReadFrom) + (k + 1)) = Wrap(pcReadFrom + k)
                          /\ Wrap(pcReadFrom + k) \in Indices \ {pcReadFrom}
    BY <2>2, ConstantsAssumption, SMTT(20) DEF Ring, Indices, Down, Wrap
  <2>5. Ring'
    BY <2>1, <2>2, <2>3, ConstantsAssumption, SMTT(20) DEF Ring, Indices, Up, Down, Wrap
  <2>6. Contents' = [k \in 1 .. n + 1 |-> store'[Wrap(Down(pcReadFrom) + k)]]
    BY <2>1, SMTT(20) DEF Contents, Wrap
  <2>7. Contents' \in Seq(Items) /\ Len(Contents') = n + 1
    BY <2>5, <2>1, <1>ContentsSeqNext
  <2>8. /\ <<x>> \o Contents \in Seq(Items) /\ Len(<<x>> \o Contents) = n + 1
        /\ (<<x>> \o Contents)[1] = x
        /\ \A k \in 1 .. n : (<<x>> \o Contents)[k + 1] = Contents[k]
    BY <1>ContentsSeq, <2>2, SMTT(20)
  <2>9. Contents'[1] = x
    BY <2>6, <2>1, <2>2, <2>3, SMTT(20) DEF Ring
  <2>10. \A k \in 1 .. n : Contents'[k + 1] = Contents[k]
    BY <2>6, <2>1, <2>2, <2>4, <1>ContentsSeq, SMTT(20) DEF Ring
  <2>11. \A k \in 1 .. n + 1 : Contents'[k] = (<<x>> \o Contents)[k]
    <3> TAKE k \in 1 .. n + 1
    <3>1. CASE k = 1
      BY <3>1, <2>8, <2>9
    <3>2. CASE k # 1
      <4>1. k - 1 \in 1 .. n /\ k = (k - 1) + 1
        BY <3>2, <2>2, SMTT(20)
      <4> QED
        BY <4>1, <2>8, <2>10
    <3> QED
      BY <3>1, <3>2
  <2>12. n + 1 \in Nat
    BY <2>2, ConstantsAssumption, SMTT(20)
  <2>13. Contents' = <<x>> \o Contents
    BY <2>7, <2>8, <2>11, <2>12, <1>SameSequence
  <2> QED
    BY <2>1, <2>5, <2>13
(* The item that is copied out is the first one, and the rest stays.       *)
<1>TakeFromFront. ASSUME Ring, ~Empty, prvCopyDataFromQueue
      PROVE  Ring' /\ Contents # <<>> /\ got' = Head(Contents) /\ Contents' = Tail(Contents)
  <2> USE <1>TakeFromFront
  <2> DEFINE n == uxMessagesWaiting
  <2>1. /\ store' = store /\ pcWriteTo' = pcWriteTo /\ pcReadFrom' = Up(pcReadFrom)
        /\ n' = n - 1 /\ got' = store[Up(pcReadFrom)]
    BY DEF prvCopyDataFromQueue
  <2>2. n \in 1 .. Length
    BY ConstantsAssumption, SMTT(20) DEF Ring, Empty
  <2>3. Up(pcReadFrom) \in Indices /\ Up(pcReadFrom) = Wrap(pcReadFrom + 1)
    BY ConstantsAssumption, SMTT(20) DEF Ring, Indices, Up, Wrap
  <2>4. \A k \in 1 .. n - 1 : Wrap(Up(pcReadFrom) + k) = Wrap(pcReadFrom + (k + 1))
    BY <2>2, ConstantsAssumption, SMTT(20) DEF Ring, Indices, Up, Wrap
  <2>5. Ring'
    BY <2>1, <2>2, <2>3, ConstantsAssumption, SMTT(20) DEF Ring, Indices, Up, Wrap
  <2>6. Contents' = [k \in 1 .. n - 1 |-> store[Wrap(Up(pcReadFrom) + k)]]
    BY <2>1 DEF Contents, Wrap
  <2>7. Contents' \in Seq(Items) /\ Len(Contents') = n - 1
    BY <2>5, <2>1, <1>ContentsSeqNext
  <2>8. /\ Contents # <<>> /\ Head(Contents) = Contents[1]
        /\ Tail(Contents) \in Seq(Items) /\ Len(Tail(Contents)) = n - 1
        /\ \A k \in 1 .. n - 1 : Tail(Contents)[k] = Contents[k + 1]
    BY <1>ContentsSeq, <2>2, SMTT(20)
  <2>9. got' = Head(Contents)
    BY <2>1, <2>2, <2>3, <2>8, <1>ContentsSeq, SMTT(20)
  <2>10. \A k \in 1 .. n - 1 : Contents'[k] = Tail(Contents)[k]
    BY <2>6, <2>4, <2>8, <2>2, <1>ContentsSeq, SMTT(20)
  <2>11. n - 1 \in Nat
    BY <2>2, ConstantsAssumption, SMTT(20)
  <2>12. Contents' = Tail(Contents)
    BY <2>7, <2>8, <2>10, <2>11, <1>SameSequence
  <2> QED
    BY <2>5, <2>8, <2>9, <2>12
(* The item that is looked at is the first one, and all of them stay.      *)
<1>PeekAtFront. ASSUME Ring, ~Empty, Peek
      PROVE  Ring' /\ Contents # <<>> /\ got' = Head(Contents) /\ Contents' = Contents
  <2> USE <1>PeekAtFront
  <2>1. uxMessagesWaiting \in 1 .. Length
    BY ConstantsAssumption, SMTT(20) DEF Ring, Empty
  <2>2. Up(pcReadFrom) \in Indices /\ Up(pcReadFrom) = Wrap(pcReadFrom + 1)
    BY ConstantsAssumption, SMTT(20) DEF Ring, Indices, Up, Wrap
  <2>3. Ring'
    BY <2>2 DEF Ring, Peek, Up, Wrap
  <2>4. Contents' = Contents
    BY DEF Peek, Contents, Wrap
  <2>5. Contents # <<>> /\ Head(Contents) = Contents[1]
    BY <1>ContentsSeq, <2>1, SMTT(20)
  <2>6. got' = Head(Contents)
    BY <2>1, <2>2, <2>5, <1>ContentsSeq, SMTT(20) DEF Peek
  <2> QED
    BY <2>3, <2>4, <2>5, <2>6
(* What leaves the ring alone leaves the sequence alone.                   *)
<1>RingUnchanged. ASSUME Ring, UNCHANGED ringVars
      PROVE  Ring' /\ Contents' = Contents /\ got' = got
  BY <1>RingUnchanged DEF Ring, ringVars, Contents, Up, Wrap
(* A call that returns forgets its item.                                   *)
<1>ReturnArgs. ASSUME Args, NEW t \in Tasks, Return(t)
      PROVE  Args'
  BY <1>ReturnArgs, ConstantsAssumption DEF Args, Return, Sends, CallNames
(* A task that puts an item in, or an interrupt that does.                 *)
<1>SendStep. ASSUME Ring, ~Full, NEW x \in Items, NEW toFront \in BOOLEAN,
             prvCopyDataToQueue(x, toFront)
      PROVE  Ring' /\ Fifo!Next
  <2> USE <1>SendStep
  <2>1. Ring' /\ Contents' \in {Append(Contents, x), <<x>> \o Contents} /\ got' = got
    BY <1>SendToBack, <1>SendToFront
  <2>2. Len(Contents) < Length
    BY <1>ContentsSeq, ConstantsAssumption, SMTT(20) DEF Full, Ring
  <2> QED
    BY <2>1, <2>2 DEF Fifo!Next, Fifo!SendToBack, Fifo!SendToFront, Fifo!Room
(* One that takes an item out, or looks at it.                             *)
<1>ReceiveStep. ASSUME Ring, ~Empty, prvCopyDataFromQueue \/ Peek
      PROVE  Ring' /\ Fifo!Next
  BY <1>ReceiveStep, <1>TakeFromFront, <1>PeekAtFront DEF Fifo!Next, Fifo!Receive, Fifo!Peek
<1> USE DEF IInv
<1>1. ASSUME UNCHANGED ringVars, Args'
      PROVE  IInv' /\ [Fifo!Next]_<<Contents, got>>
  BY <1>1, <1>RingUnchanged
<1>2. CASE UNCHANGED vars
  BY <1>1, <1>2 DEF vars, ringVars, argVars, Args
<1>3. CASE Tick \/ \E t \in Tasks : \/ vTaskSuspendAll(t) \/ LockAndCheck(t)
                                    \/ TestAgain(t) \/ prvUnlockQueueTx(t)
                                    \/ prvUnlockQueueRx(t) \/ xTaskResumeAll(t)
                                    \/ vTaskSetTimeOutState(t)
  <2>1. UNCHANGED ringVars /\ UNCHANGED argVars
    BY <1>3 DEF Tick, vTaskSuspendAll, LockAndCheck, TestAgain, prvUnlockQueueTx,
      prvUnlockQueueRx, xTaskResumeAll, vTaskSetTimeOutState
  <2> QED
    BY <2>1, <1>1 DEF argVars, Args
<1>4. ASSUME NEW t \in Tasks, Enter(t)
      PROVE  IInv' /\ [Fifo!Next]_<<Contents, got>>
  BY <1>1, <1>4, ConstantsAssumption, SMTT(20) DEF Enter, Args, CallNames
<1>5. ASSUME NEW t \in Tasks, FailAtOnce(t) \/ TimedOut(t)
      PROVE  IInv' /\ [Fifo!Next]_<<Contents, got>>
  BY <1>1, <1>5, <1>ReturnArgs DEF FailAtOnce, TimedOut, argVars, Args
<1>6. ASSUME NEW t \in Tasks, xQueueGenericSend(t)
      PROVE  IInv' /\ [Fifo!Next]_<<Contents, got>>
  <2>1. Args' /\ ~Full /\ item[t] \in Items
    BY <1>6, <1>ReturnArgs DEF xQueueGenericSend, Args
  <2>2. prvCopyDataToQueue(item[t], call[t] = "sendToFront")
    BY <1>6 DEF xQueueGenericSend
  <2> QED
    BY <2>1, <2>2, <1>SendStep
<1>7. ASSUME NEW t \in Tasks, xQueueGenericReceive(t)
      PROVE  IInv' /\ [Fifo!Next]_<<Contents, got>>
  BY <1>7, <1>ReturnArgs, <1>ReceiveStep DEF xQueueGenericReceive
<1>8. ASSUME NEW t \in Tasks, xQueueGenericReset(t)
      PROVE  IInv' /\ [Fifo!Next]_<<Contents, got>>
  <2>1. Args' /\ got' = got /\ uxMessagesWaiting' = 0
    BY <1>8, <1>ReturnArgs DEF xQueueGenericReset
  <2>2. Ring'
    BY <1>8, ConstantsAssumption, SMTT(20) DEF xQueueGenericReset, Ring, Indices, Up, Wrap
  <2>3. Contents' = <<>>
    BY <2>1, SMTT(20) DEF Contents
  <2> QED
    BY <2>1, <2>2, <2>3 DEF Fifo!Next, Fifo!Reset
<1>9. CASE xQueueGenericSendFromISR
  BY <1>9, <1>SendStep DEF xQueueGenericSendFromISR, argVars, Args
<1>10. CASE xQueueReceiveFromISR
  BY <1>10, <1>ReceiveStep DEF xQueueReceiveFromISR, argVars, Args
<1> QED
  BY <1>2, <1>3, <1>4, <1>5, <1>6, <1>7, <1>8, <1>9, <1>10 DEF Next, Step

(* Sends, receives, peeks and resets of any number of tasks and of         *)
(* interrupts, blocking or not, act on the ring as on one bounded sequence: *)
(* no item is lost, repeated, overwritten or delivered out of order.       *)
THEOREM RingIsFifo == Spec => ImplementsFifo
<1>1. Init => IInv /\ Fifo!Init
  BY InitFifo
<1>2. IInv /\ [Next]_vars => IInv' /\ [Fifo!Next]_<<Contents, got>>
  BY StepFifo
<1> QED
  BY <1>1, <1>2, PTL DEF Spec, ImplementsFifo, Fifo!Spec

-----------------------------------------------------------------------------
(* Induction, lists and remainders.                                        *)

(* The order of the naturals.                                              *)
Less == {s \in Nat \X Nat : s[1] < s[2]}

(* Induction over the naturals, on a set.                                  *)
LEMMA SetInduction ==
  ASSUME NEW S, 0 \in S, \A n \in Nat : n \in S => n + 1 \in S
  PROVE  Nat \subseteq S
<1> SUFFICES ASSUME Nat \ S # {} PROVE FALSE
  OBVIOUS
<1>0. IsWellFoundedOn(Less, Nat)
  BY NatLessThanWellFounded DEF OpToRel, Less
<1>1. PICK x \in Nat \ S : \A y \in Nat \ S : ~(<<y, x>> \in Less)
  BY <1>0, WFMin
<1>2. x # 0 /\ x - 1 \in Nat
  BY <1>1, SMTT(20)
<1>3. <<x - 1, x>> \in Nat \X Nat /\ x - 1 < x
  BY <1>2, SMTT(20)
<1>4. <<x - 1, x>> \in Less
  BY <1>3 DEF Less
<1>5. x - 1 \in S
  BY <1>1, <1>2, <1>4
<1> QED
  BY <1>1, <1>2, <1>5, SMTT(20)

(* Without, one item of the list after the other.                          *)
LEMMA WithoutDef ==
  ASSUME NEW q, Len(q) \in Nat, NEW ts
  PROVE  \E f : /\ f[0] = <<>>
                /\ \A n \in 1 .. Len(q) :
                     f[n] = IF q[n] \in ts THEN f[n - 1] ELSE Append(f[n - 1], q[n])
                /\ Without(q, ts) = f[Len(q)]
<1> DEFINE H(n, v) == IF q[n] \in ts THEN v ELSE Append(v, q[n])
           F(f, m) == [n \in 0 .. m |-> IF n = 0 THEN <<>> ELSE H(n, f[n - 1])]
           S == {m \in Nat : \E f : f = F(f, m)}
<1>0. Without(q, ts) = (CHOOSE h : h = F(h, Len(q)))[Len(q)]
  BY DEF Without
<1> HIDE DEF H
<1>1. 0 \in S
  <2> DEFINE f == [n \in 0 .. 0 |-> <<>>]
  <2>1. f = F(f, 0)
    BY SMTT(20)
  <2> QED
    BY <2>1
<1>2. ASSUME NEW m \in Nat, m \in S PROVE m + 1 \in S
  <2>1. PICK f : f = F(f, m)
    BY <1>2
  <2> DEFINE g == F(f, m + 1)
  <2>2. ASSUME NEW n \in 0 .. m PROVE g[n] = f[n]
    <3>1. n \in 0 .. m + 1
      BY SMTT(20)
    <3>2. g[n] = IF n = 0 THEN <<>> ELSE H(n, f[n - 1])
      BY <3>1
    <3>3. F(f, m)[n] = IF n = 0 THEN <<>> ELSE H(n, f[n - 1])
      OBVIOUS
    <3> QED
      BY <3>2, <3>3, <2>1
  <2>3. ASSUME NEW n \in 0 .. m + 1
        PROVE  F(f, m + 1)[n] = F(g, m + 1)[n]
    <3>1. n # 0 => n - 1 \in 0 .. m
      BY SMTT(20)
    <3>2. n # 0 => f[n - 1] = g[n - 1]
      BY <3>1, <2>2
    <3> HIDE DEF g
    <3> QED
      BY <3>2
  <2>4. g = F(g, m + 1)
    BY <2>3
  <2> HIDE DEF F
  <2> QED
    BY <2>4, SMTT(20)
<1> HIDE DEF S
<1>3. Len(q) \in S
  BY <1>1, <1>2, SetInduction
<1>4. PICK f : f = F(f, Len(q))
  BY <1>3 DEF S
<1> DEFINE c == CHOOSE h : h = F(h, Len(q))
<1>5. c = F(c, Len(q))
  BY <1>4
<1> HIDE DEF c
<1>6. c[0] = <<>> /\ \A n \in 1 .. Len(q) : c[n] = H(n, c[n - 1])
  BY <1>5, SMTT(20)
<1> QED
  BY <1>0, <1>6 DEF c, H

(* No task is in a list twice.                                             *)
Distinct(q) == \A i, j \in DOMAIN q : q[i] = q[j] => i = j

(* Taking tasks out of an event list takes out these and no others.        *)
LEMMA WithoutFacts ==
  ASSUME NEW T, NEW q \in Seq(T), NEW ts
  PROVE  /\ Without(q, ts) \in Seq(T)
         /\ \A x : x \in Members(Without(q, ts)) <=> x \in Members(q) /\ x \notin ts
         /\ Distinct(q) => Distinct(Without(q, ts))
<1>0. Len(q) \in Nat /\ DOMAIN q = 1 .. Len(q)
  BY SMTT(20)
<1>1. PICK f : /\ f[0] = <<>>
               /\ \A n \in 1 .. Len(q) :
                    f[n] = IF q[n] \in ts THEN f[n - 1] ELSE Append(f[n - 1], q[n])
               /\ Without(q, ts) = f[Len(q)]
  BY <1>0, WithoutDef
<1> DEFINE Upto(n) ==
             /\ f[n] \in Seq(T)
             /\ \A x : x \in Members(f[n]) <=> \E k \in 1 .. n : x = q[k] /\ x \notin ts
             /\ Distinct(q) => Distinct(f[n])
           S == {n \in Nat : n <= Len(q) => Upto(n)}
<1>2. 0 \in S
  <2>1. Upto(0)
    BY <1>1, SMTT(20) DEF Members, Distinct
  <2> QED
    BY <2>1
<1>3. ASSUME NEW n \in Nat, n \in S PROVE n + 1 \in S
  <2> SUFFICES ASSUME n + 1 <= Len(q) PROVE Upto(n + 1)
    BY SMTT(20)
  <2>1. Upto(n)
    BY <1>3, <1>0, SMTT(20)
  <2>2. n + 1 \in 1 .. Len(q) /\ (n + 1) - 1 = n /\ q[n + 1] \in T
    BY <1>0, SMTT(20)
  <2>3. f[n + 1] = IF q[n + 1] \in ts THEN f[n] ELSE Append(f[n], q[n + 1])
    BY <1>1, <2>2
  <2>4. CASE q[n + 1] \in ts
    <3>1. f[n + 1] = f[n]
      BY <2>3, <2>4
    <3>2. \A x : (\E k \in 1 .. n : x = q[k] /\ x \notin ts)
                   <=> \E k \in 1 .. n + 1 : x = q[k] /\ x \notin ts
      BY <2>4, SMTT(20)
    <3> QED
      BY <2>1, <3>1, <3>2
  <2>5. CASE q[n + 1] \notin ts
    <3> DEFINE s == f[n]
               r == f[n + 1]
    <3>1. s \in Seq(T) /\ r = Append(s, q[n + 1])
      BY <2>1, <2>3, <2>5
    <3> HIDE DEF s, r
    <3>2. /\ r \in Seq(T) /\ DOMAIN r = 1 .. Len(s) + 1 /\ DOMAIN s = 1 .. Len(s)
          /\ \A k \in 1 .. Len(s) : r[k] = s[k]
          /\ r[Len(s) + 1] = q[n + 1] /\ Len(s) \in Nat
      BY <2>2, <3>1, SMTT(20)
    <3>3. \A x : x \in Members(r) <=> x \in Members(s) \/ x = q[n + 1]
      <4> TAKE x
      <4>1. x \in Members(r) => x \in Members(s) \/ x = q[n + 1]
        <5> SUFFICES ASSUME NEW k \in 1 .. Len(s) + 1, x = r[k]
                     PROVE  x \in Members(s) \/ x = q[n + 1]
          BY <3>2 DEF Members
        <5>1. k = Len(s) + 1 \/ k \in 1 .. Len(s)
          BY <3>2, SMTT(20)
        <5> QED
          BY <3>2, <5>1 DEF Members
      <4>2. x \in Members(s) => x \in Members(r)
        <5> SUFFICES ASSUME NEW k \in 1 .. Len(s), x = s[k]
                     PROVE  x \in Members(r)
          BY <3>2 DEF Members
        <5>1. k \in 1 .. Len(s) + 1
          BY <3>2, SMTT(20)
        <5> QED
          BY <3>2, <5>1 DEF Members
      <4>3. q[n + 1] \in Members(r)
        <5>1. Len(s) + 1 \in 1 .. Len(s) + 1
          BY <3>2, SMTT(20)
        <5> QED
          BY <3>2, <5>1 DEF Members
      <4> QED
        BY <4>1, <4>2, <4>3
    <3>4. \A x : x \in Members(s) <=> \E k \in 1 .. n : x = q[k] /\ x \notin ts
      BY <2>1 DEF s
    <3>5. \A x : x \in Members(r) <=> \E k \in 1 .. n + 1 : x = q[k] /\ x \notin ts
      BY <2>5, <3>3, <3>4, SMTT(20)
    <3>6. ASSUME Distinct(q) PROVE Distinct(r)
      <4>1. Distinct(s)
        BY <2>1, <3>6 DEF s
      <4>2. \A k \in 1 .. Len(s) : s[k] # q[n + 1]
        <5> SUFFICES ASSUME NEW k \in 1 .. Len(s), s[k] = q[n + 1] PROVE FALSE
          OBVIOUS
        <5>1. q[n + 1] \in Members(s)
          BY <3>2 DEF Members
        <5>2. PICK j \in 1 .. n : q[n + 1] = q[j]
          BY <3>4, <5>1
        <5> QED
          BY <1>0, <2>2, <3>6, <5>2, SMTT(20) DEF Distinct
      <4> QED
        BY <3>2, <4>1, <4>2, SMTT(20) DEF Distinct
    <3> QED
      BY <3>2, <3>5, <3>6 DEF r
  <2> QED
    BY <2>4, <2>5
<1> HIDE DEF S
<1>4. Len(q) \in S
  BY <1>0, <1>2, <1>3, SetInduction
<1>5. Upto(Len(q))
  BY <1>0, <1>4, SMTT(20) DEF S
<1>6. \A x : x \in Members(q) <=> \E k \in 1 .. Len(q) : x = q[k]
  BY <1>0 DEF Members
<1> QED
  BY <1>1, <1>5, <1>6

(* What each tick keeps, the pended ticks keep that xTaskResumeAll counts. *)
LEMMA TickedInduction ==
  ASSUME NEW k, NEW n \in 0 .. MaxPended, NEW S, k \in S[0],
         \A i \in 0 .. n - 1 : \A j \in S[i] : xTaskIncrementTick(j) \in S[i + 1]
  PROVE  Ticked(k, n) \in S[n]
<1> DEFINE H(v) == xTaskIncrementTick(v)
           F(f, m) == [i \in 0 .. m |-> IF i = 0 THEN k ELSE H(f[i - 1])]
           D == {m \in Nat : \E f : f = F(f, m)}
<1>0. Ticked(k, n) = (CHOOSE h : h = F(h, MaxPended))[n]
  BY DEF Ticked
<1> HIDE DEF H
<1>1. 0 \in D
  <2> DEFINE f == [i \in 0 .. 0 |-> k]
  <2>1. f = F(f, 0)
    BY SMTT(20)
  <2> QED
    BY <2>1
<1>2. ASSUME NEW m \in Nat, m \in D PROVE m + 1 \in D
  <2>1. PICK f : f = F(f, m)
    BY <1>2
  <2> DEFINE g == F(f, m + 1)
  <2>2. ASSUME NEW i \in 0 .. m PROVE g[i] = f[i]
    <3>1. i \in 0 .. m + 1
      BY SMTT(20)
    <3>2. g[i] = IF i = 0 THEN k ELSE H(f[i - 1])
      BY <3>1
    <3>3. F(f, m)[i] = IF i = 0 THEN k ELSE H(f[i - 1])
      OBVIOUS
    <3> QED
      BY <3>2, <3>3, <2>1
  <2>3. ASSUME NEW i \in 0 .. m + 1
        PROVE  F(f, m + 1)[i] = F(g, m + 1)[i]
    <3>1. i # 0 => i - 1 \in 0 .. m
      BY SMTT(20)
    <3>2. i # 0 => f[i - 1] = g[i - 1]
      BY <3>1, <2>2
    <3> HIDE DEF g
    <3> QED
      BY <3>2
  <2>4. g = F(g, m + 1)
    BY <2>3
  <2> HIDE DEF F
  <2> QED
    BY <2>4, SMTT(20)
<1> HIDE DEF D
<1>3. MaxPended \in D
  BY <1>1, <1>2, SetInduction, ConstantsAssumption
<1>4. PICK f : f = F(f, MaxPended)
  BY <1>3 DEF D
<1> DEFINE c == CHOOSE h : h = F(h, MaxPended)
<1>5. c = F(c, MaxPended)
  BY <1>4
<1> HIDE DEF c
<1>6. c[0] = k /\ \A i \in 1 .. MaxPended : c[i] = H(c[i - 1])
  BY <1>5, ConstantsAssumption, SMTT(20)
<1> HIDE DEF F
<1> DEFINE R == {i \in Nat : i <= n => c[i] \in S[i]}
<1>7. 0 \in R
  BY <1>6
<1>8. ASSUME NEW i \in Nat, i \in R PROVE i + 1 \in R
  <2> SUFFICES ASSUME i + 1 <= n PROVE c[i + 1] \in S[i + 1]
    BY SMTT(20)
  <2>1. i \in 0 .. n - 1 /\ i + 1 \in 1 .. MaxPended /\ (i + 1) - 1 = i
    BY ConstantsAssumption, SMTT(20)
  <2>2. c[i] \in S[i]
    BY <1>8, <2>1, SMTT(20)
  <2>3. H(c[i]) \in S[i + 1]
    BY <2>1, <2>2 DEF H
  <2> QED
    BY <1>6, <2>1, <2>3
<1> HIDE DEF R
<1>9. n \in R /\ n \in Nat
  BY <1>7, <1>8, SetInduction, SMTT(20)
<1>10. c[n] \in S[n]
  BY <1>9, SMTT(20) DEF R
<1> QED
  BY <1>0, <1>10 DEF c

(* A set of naturals that is not empty has a least element.                *)
LEMMA LeastElement ==
  ASSUME NEW S \in SUBSET Nat, S # {}
  PROVE  \E n \in S : \A m \in S : n <= m
<1>0. IsWellFoundedOn(Less, Nat)
  BY NatLessThanWellFounded DEF OpToRel, Less
<1>1. PICK n \in S : \A m \in S : ~(<<m, n>> \in Less)
  BY <1>0, WFMin
<1>2. ASSUME NEW m \in S PROVE n <= m
  <2>1. m \in Nat /\ n \in Nat /\ <<m, n>>[1] = m /\ <<m, n>>[2] = n
    OBVIOUS
  <2>2. <<m, n>> \in Nat \X Nat /\ <<m, n>> \notin Less
    BY <1>1
  <2>3. ~(m < n)
    BY <2>1, <2>2 DEF Less
  <2> QED
    BY <2>1, <2>3, SMTT(20)
<1> QED
  BY <1>2

(* Remainders of the tick count.                                           *)
LEMMA Modulo ==
  ASSUME NEW a \in Int, NEW d \in Nat \ {0}
  PROVE  /\ a % d \in 0 .. d - 1
         /\ a \in 0 .. d - 1 => a % d = a
         /\ a - d \in 0 .. d - 1 => a % d = a - d
         /\ a + d \in 0 .. d - 1 => a % d = a + d
<1>1. a % d \in 0 .. d - 1
  BY SMTT(20)
<1>2. a \in 0 .. d - 1 => a % d = a
  BY SMTT(20)
<1>3. a - d \in 0 .. d - 1 => a % d = a - d
  BY SMTT(20)
<1>4. a + d \in 0 .. d - 1 => a % d = a + d
  BY SMTT(20)
<1> QED
  BY <1>1, <1>2, <1>3, <1>4

(* The tick count takes the values up to portMAX_DELAY.                    *)
LEMMA TickModulo == TickMod \in Nat \ {0} /\ MaxDelay \in Nat /\ MaxDelay = TickMod - 1
BY ConstantsAssumption, SMTT(20) DEF MaxDelay

(* The lists a task can be in.                                             *)
ListNames == {"ready", "delayed", "overflow", "suspended"}

(* What a kernel state holds.                                              *)
KernelType ==
  [tick : 0 .. MaxDelay, next : 0 .. MaxDelay, list : [Tasks -> ListNames],
   toSend : Seq(Tasks), toReceive : Seq(Tasks), wrapped : [Tasks -> BOOLEAN],
   due : [Tasks -> 0 .. MaxDelay]]

(* The next tick of a kernel state: the count, the lists after a wrap, the *)
(* time the next task is due, and the tasks that are.                      *)
Now(k) == (k.tick + 1) % TickMod
Lists(k) == IF Now(k) = 0 THEN Switched(k.list) ELSE k.list
NextAt(k) == IF Now(k) = 0 THEN NextUnblock(Lists(k)) ELSE k.next
UpAt(k) == IF Now(k) < NextAt(k) THEN {}
           ELSE {t \in Tasks : Lists(k)[t] = "delayed" /\ wake[t] <= Now(k)}

(* prvResetNextTaskUnblockTime finds the first of the delayed tasks.       *)
LEMMA NextUnblockFirst ==
  ASSUME wake \in [Tasks -> 0 .. MaxDelay], NEW l
  PROVE  /\ NextUnblock(l) \in 0 .. MaxDelay
         /\ \A t \in Tasks : l[t] = "delayed" => NextUnblock(l) <= wake[t]
<1> DEFINE times == {wake[t] : t \in {u \in Tasks : l[u] = "delayed"}}
<1>0. NextUnblock(l) = IF times = {} THEN MaxDelay
                       ELSE CHOOSE n \in times : \A m \in times : n <= m
  BY DEF NextUnblock
<1>1. times \in SUBSET (0 .. MaxDelay) /\ MaxDelay \in Nat
  BY TickModulo
<1>2. \A t \in Tasks : l[t] = "delayed" => wake[t] \in times
  OBVIOUS
<1> HIDE DEF times
<1>3. CASE times = {}
  BY <1>0, <1>1, <1>2, <1>3, SMTT(20)
<1>4. CASE times # {}
  <2>1. times \in SUBSET Nat
    BY <1>1, SMTT(20)
  <2>2. \E n \in times : \A m \in times : n <= m
    BY <1>4, <2>1, LeastElement
  <2>3. NextUnblock(l) \in times /\ \A m \in times : NextUnblock(l) <= m
    BY <1>0, <1>4, <2>2
  <2> QED
    BY <1>1, <1>2, <2>3
<1> QED
  BY <1>3, <1>4

(* xTaskIncrementTick field by field.                                      *)
LEMMA TickIs ==
  ASSUME NEW k, NEW x, x = xTaskIncrementTick(k)
  PROVE  /\ x.tick = Now(k)
         /\ x.list = [t \in Tasks |-> IF t \in UpAt(k) THEN "ready" ELSE Lists(k)[t]]
         /\ x.next = IF Now(k) < NextAt(k) THEN NextAt(k) ELSE NextUnblock(x.list)
         /\ x.toSend = Without(k.toSend, UpAt(k))
         /\ x.toReceive = Without(k.toReceive, UpAt(k))
         /\ x.wrapped =
              [t \in Tasks |-> k.wrapped[t] \/ (Now(k) = 0 /\ xEntryTimeSet[t])]
         /\ x.due = [t \in Tasks |-> IF k.due[t] > 0 THEN k.due[t] - 1 ELSE 0]
         /\ x = [tick |-> x.tick, next |-> x.next, list |-> x.list,
                 toSend |-> x.toSend, toReceive |-> x.toReceive,
                 wrapped |-> x.wrapped, due |-> x.due]
BY DEF xTaskIncrementTick, Now, Lists, NextAt, UpAt

(* A tick keeps the types.                                                 *)
LEMMA TickType ==
  ASSUME wake \in [Tasks -> 0 .. MaxDelay], xEntryTimeSet \in [Tasks -> BOOLEAN],
         NEW k \in KernelType, NEW x, x = xTaskIncrementTick(k)
  PROVE  /\ x \in KernelType
         /\ Now(k) \in 0 .. MaxDelay /\ NextAt(k) \in 0 .. MaxDelay
         /\ Lists(k) \in [Tasks -> ListNames]
         /\ \A t \in Tasks : x.list[t] # "ready" => k.list[t] # "ready"
<1>0. /\ x.tick = Now(k)
      /\ x.list = [t \in Tasks |-> IF t \in UpAt(k) THEN "ready" ELSE Lists(k)[t]]
      /\ x.next = IF Now(k) < NextAt(k) THEN NextAt(k) ELSE NextUnblock(x.list)
      /\ x.toSend = Without(k.toSend, UpAt(k))
      /\ x.toReceive = Without(k.toReceive, UpAt(k))
      /\ x.wrapped = [t \in Tasks |-> k.wrapped[t] \/ (Now(k) = 0 /\ xEntryTimeSet[t])]
      /\ x.due = [t \in Tasks |-> IF k.due[t] > 0 THEN k.due[t] - 1 ELSE 0]
      /\ x = [tick |-> x.tick, next |-> x.next, list |-> x.list, toSend |-> x.toSend,
              toReceive |-> x.toReceive, wrapped |-> x.wrapped, due |-> x.due]
  BY TickIs, SMTT(20)
<1>1. /\ k.tick \in 0 .. MaxDelay /\ k.next \in 0 .. MaxDelay
      /\ k.list \in [Tasks -> ListNames]
      /\ k.toSend \in Seq(Tasks) /\ k.toReceive \in Seq(Tasks)
      /\ k.wrapped \in [Tasks -> BOOLEAN] /\ k.due \in [Tasks -> 0 .. MaxDelay]
  BY DEF KernelType
<1>2. Now(k) \in 0 .. MaxDelay
  <2>1. k.tick + 1 \in Int
    BY <1>1, TickModulo, SMTT(20)
  <2> QED
    BY <2>1, TickModulo, Modulo DEF Now
<1>3. Switched(k.list) \in [Tasks -> ListNames]
  BY <1>1 DEF Switched, ListNames
<1>4. Lists(k) \in [Tasks -> ListNames]
  BY <1>1, <1>3 DEF Lists
<1>5. NextAt(k) \in 0 .. MaxDelay
  BY <1>1, NextUnblockFirst DEF NextAt
<1>6. x.list \in [Tasks -> ListNames]
  BY <1>4, <1>0 DEF ListNames
<1>7. x.next \in 0 .. MaxDelay
  BY <1>5, <1>0, NextUnblockFirst
<1>8. x.toSend \in Seq(Tasks) /\ x.toReceive \in Seq(Tasks)
  BY <1>1, <1>0, WithoutFacts, SMTT(20)
<1>9. x.wrapped \in [Tasks -> BOOLEAN]
  BY <1>1, <1>0
<1>10. x.due \in [Tasks -> 0 .. MaxDelay]
  BY <1>1, <1>0, TickModulo, SMTT(20)
<1>11. x.tick \in 0 .. MaxDelay
  BY <1>2, <1>0
<1>13. \A t \in Tasks : Lists(k)[t] # "ready" => k.list[t] # "ready"
  BY <1>1 DEF Lists, Switched
<1>14. \A t \in Tasks : x.list[t] # "ready" => k.list[t] # "ready"
  BY <1>13, <1>0
<1>15. x \in KernelType
  BY <1>6, <1>7, <1>8, <1>9, <1>10, <1>11, <1>0 DEF KernelType
<1> QED
  BY <1>2, <1>4, <1>5, <1>14, <1>15

(* Where in a call a task can be.                                          *)
Places == {"idle", "try", "suspend", "lock", "test", "unlockTx", "unlockRx",
           "resume", "late"}

(* The types of the variables, in groups.                                  *)
TimeTypes ==
  /\ xTicksToWait \in [Tasks -> 0 .. MaxDelay]
  /\ xTimeOnEntering \in [Tasks -> 0 .. MaxDelay]
  /\ xEntryTimeSet \in [Tasks -> BOOLEAN] /\ wrapped \in [Tasks -> BOOLEAN]
  /\ wake \in [Tasks -> 0 .. MaxDelay] /\ due \in [Tasks -> 0 .. MaxDelay]

ListTypes ==
  /\ list \in [Tasks -> ListNames] /\ xPendingReadyList \in SUBSET Tasks
  /\ xTasksWaitingToSend \in Seq(Tasks) /\ xTasksWaitingToReceive \in Seq(Tasks)

TickTypes ==
  /\ xTickCount \in 0 .. MaxDelay /\ xNextTaskUnblockTime \in 0 .. MaxDelay
  /\ uxPendedTicks \in 0 .. MaxPended

LockTypes ==
  /\ cRxLock \in UNLOCKED .. MaxLock /\ cTxLock \in UNLOCKED .. MaxLock

CallTypes ==
  /\ suspender \in Tasks \cup {None}
  /\ pc \in [Tasks -> Places] /\ expired \in BOOLEAN

Types == TimeTypes /\ ListTypes /\ TickTypes /\ LockTypes /\ CallTypes

(* The kernel state has its type.                                          *)
LEMMA KernelTyped ==
  ASSUME Types
  PROVE  Kernel \in KernelType
BY DEF Types, TimeTypes, ListTypes, TickTypes, Kernel, KernelType

(* The kernel state from which the pended ticks are counted.               *)
Resumed ==
  LET l == [u \in Tasks |-> IF u \in xPendingReadyList THEN "ready" ELSE list[u]]
  IN  [Kernel EXCEPT !.list = l,
                     !.next = IF xPendingReadyList = {} THEN xNextTaskUnblockTime
                              ELSE NextUnblock(l)]

(* The state xTaskResumeAll counts from, field by field.                   *)
LEMMA ResumedIs ==
  ASSUME Types
  PROVE  /\ Resumed \in KernelType
         /\ Resumed.tick = xTickCount /\ Resumed.wrapped = wrapped /\ Resumed.due = due
         /\ Resumed.toSend = xTasksWaitingToSend
         /\ Resumed.toReceive = xTasksWaitingToReceive
         /\ Resumed.list =
              [u \in Tasks |-> IF u \in xPendingReadyList THEN "ready" ELSE list[u]]
         /\ Resumed.next = IF xPendingReadyList = {} THEN xNextTaskUnblockTime
                           ELSE NextUnblock(Resumed.list)
<1> DEFINE l == [u \in Tasks |-> IF u \in xPendingReadyList THEN "ready" ELSE list[u]]
           n == IF xPendingReadyList = {} THEN xNextTaskUnblockTime
                ELSE NextUnblock(l)
<1>1. l \in [Tasks -> ListNames]
  BY DEF Types, ListTypes, ListNames
<1>2. n \in 0 .. MaxDelay
  <2>1. NextUnblock(l) \in 0 .. MaxDelay
    BY NextUnblockFirst DEF Types, TimeTypes
  <2> QED
    BY <2>1 DEF Types, TickTypes
<1>3. Resumed = [Kernel EXCEPT !.list = l, !.next = n]
  BY DEF Resumed
<1> HIDE DEF l, n
<1>4. Kernel \in KernelType
  BY KernelTyped
<1>5. Resumed \in KernelType
  BY <1>1, <1>2, <1>3, <1>4 DEF KernelType
<1>6. /\ Resumed.tick = xTickCount /\ Resumed.wrapped = wrapped /\ Resumed.due = due
      /\ Resumed.toSend = xTasksWaitingToSend
      /\ Resumed.toReceive = xTasksWaitingToReceive
      /\ Resumed.list = l /\ Resumed.next = n
  BY <1>3 DEF Kernel
<1> QED
  BY <1>5, <1>6 DEF l, n

(* xTaskResumeAll counts the pended ticks from there.                      *)
LEMMA ResumesTicked ==
  ASSUME NEW t \in Tasks, xTaskResumeAll(t)
  PROVE  BecomesKernel(Ticked(Resumed, uxPendedTicks))
BY DEF xTaskResumeAll, Resumed

-----------------------------------------------------------------------------
(* The scheduler and the lock of the queue.                                *)

(* Where the scheduler is suspended.                                       *)
Locked == {"lock", "test", "unlockTx", "unlockRx", "resume"}

(* How the scheduler, the lock of the queue and the place of each task     *)
(* hang together.  Only the task that suspended the scheduler is between   *)
(* vTaskSuspendAll and xTaskResumeAll; the queue is locked between         *)
(* prvLockQueue and prvUnlockQueue.                                        *)
Sched ==
  /\ \A t \in Tasks : pc[t] \in Locked <=> suspender = t
  /\ suspender = None => uxPendedTicks = 0 /\ xPendingReadyList = {} /\ ~expired
  /\ cTxLock # UNLOCKED => suspender \in Tasks /\ pc[suspender] \in {"test", "unlockTx"}
  /\ cRxLock # UNLOCKED => /\ suspender \in Tasks
                           /\ pc[suspender] \in {"test", "unlockTx", "unlockRx"}
  /\ \A t \in Tasks :
       /\ pc[t] \in {"test", "unlockTx"} => cTxLock # UNLOCKED
       /\ pc[t] \in {"test", "unlockTx", "unlockRx"} => cRxLock # UNLOCKED
       /\ list[t] # "ready" => pc[t] \in {"unlockTx", "unlockRx", "resume", "try"}
       /\ pc[t] \in {"lock", "test"} => ~expired
       /\ pc[t] \in Locked /\ expired => list[t] = "ready"
       /\ pc[t] = "idle" <=> call[t] = None
       /\ pc[t] \in Locked \cup {"suspend", "late"} => call[t] # "reset"

(* Who can run: the task that suspended the scheduler, or else a ready     *)
(* one.                                                                    *)
LEMMA RunsWhere ==
  ASSUME Types, Sched, NEW t \in Tasks, NEW p, At(t, p)
  PROVE  /\ pc[t] = p
         /\ p \in Locked => suspender = t
         /\ p \notin Locked => suspender = None /\ list[t] = "ready"
BY DEF Types, CallTypes, Sched, At, Runs

(* A part of a sequence, item by item.                                     *)
LEMMA PartIs ==
  ASSUME NEW T, NEW s \in Seq(T), NEW m \in 1 .. Len(s) + 1, NEW n \in m - 1 .. Len(s)
  PROVE  /\ SubSeq(s, m, n) \in Seq(T) /\ Len(SubSeq(s, m, n)) = n - m + 1
         /\ \A k \in 1 .. n - m + 1 : SubSeq(s, m, n)[k] = s[m + k - 1]
<1>1. SubSeq(s, m, n) \in Seq(T)
  BY SMTT(20)
<1>2. Len(SubSeq(s, m, n)) = n - m + 1
  BY SMTT(20)
<1>3. \A k \in 1 .. n - m + 1 : SubSeq(s, m, n)[k] = s[m + k - 1]
  BY SMTT(20)
<1> QED BY <1>1, <1>2, <1>3

(* vListInsert adds the task and loses nobody.                             *)
LEMMA InsertFacts ==
  ASSUME NEW q \in Seq(Tasks), NEW t \in Tasks
  PROVE  /\ Insert(q, t) \in Seq(Tasks)
         /\ \A x : x \in Members(Insert(q, t)) <=> x \in Members(q) \/ x = t
         /\ Distinct(q) /\ t \notin Members(q) => Distinct(Insert(q, t))
(* vListInsert puts one task into the list, between two parts of it.       *)
<1>InsertWhere. \E n \in 0 .. Len(q) :
                  Insert(q, t) = SubSeq(q, 1, n) \o <<t>> \o SubSeq(q, n + 1, Len(q))
  <2> DEFINE Here(k) == /\ \A j \in 1 .. k : Prio[q[j]] >= Prio[t]
                        /\ k < Len(q) => Prio[q[k + 1]] < Prio[t]
             n == CHOOSE k \in 0 .. Len(q) : Here(k)
             S == {k \in 0 .. Len(q) : k < Len(q) => Prio[q[k + 1]] < Prio[t]}
  <2>1. Len(q) \in Nat /\ \A k \in 1 .. Len(q) : Prio[q[k]] \in Nat /\ Prio[t] \in Nat
    BY ConstantsAssumption, SMTT(20)
  <2>2. S \in SUBSET Nat /\ Len(q) \in S
    BY <2>1, SMTT(20)
  <2>3. PICK m \in S : \A k \in S : m <= k
    BY <2>2, LeastElement
  <2>4. ASSUME NEW j \in 1 .. m PROVE Prio[q[j]] >= Prio[t]
    <3>1. m \in 0 .. Len(q) /\ j - 1 \in 0 .. Len(q) /\ j - 1 < Len(q) /\ j - 1 + 1 = j /\ j - 1 < m
      BY <2>1, <2>3, SMTT(20)
    <3>2. j - 1 \notin S
      BY <3>1, <2>3, SMTT(20)
    <3>3. ~(Prio[q[j]] < Prio[t]) /\ j \in 1 .. Len(q)
      BY <3>1, <3>2, SMTT(20)
    <3> QED
      BY <2>1, <3>3, SMTT(20)
  <2>5. m \in 0 .. Len(q) /\ Here(m)
    BY <2>3, <2>4
  <2>6. n \in 0 .. Len(q)
    BY <2>5
  <2>7. Insert(q, t) = SubSeq(q, 1, n) \o <<t>> \o SubSeq(q, n + 1, Len(q))
    BY DEF Insert
  <2> HIDE DEF n
  <2> QED
    BY <2>6, <2>7
(* Concatenation, item by item.                                            *)
<1>ConcatIs. ASSUME NEW T, NEW s \in Seq(T), NEW u \in Seq(T)
      PROVE  /\ s \o u \in Seq(T) /\ Len(s \o u) = Len(s) + Len(u)
             /\ \A k \in 1 .. Len(s) : (s \o u)[k] = s[k]
             /\ \A k \in 1 .. Len(u) : (s \o u)[Len(s) + k] = u[k]
  BY <1>ConcatIs, SMTT(20)
<1>1. PICK n \in 0 .. Len(q) :
        Insert(q, t) = SubSeq(q, 1, n) \o <<t>> \o SubSeq(q, n + 1, Len(q))
  BY <1>InsertWhere
<1> DEFINE r == Insert(q, t)
           m == Len(q)
<1>2. m \in Nat /\ n \in Nat /\ n <= m /\ DOMAIN q = 1 .. m
  BY SMTT(20)
<1> DEFINE a == SubSeq(q, 1, n)
           b == SubSeq(q, n + 1, m)
           c == a \o <<t>>
<1>3. /\ a \in Seq(Tasks) /\ Len(a) = n /\ \A k \in 1 .. n : a[k] = q[k]
  <2>1. 1 \in 1 .. Len(q) + 1 /\ n \in 1 - 1 .. Len(q) /\ n - 1 + 1 = n
    BY <1>2, SMTT(20)
  <2>2. a \in Seq(Tasks) /\ Len(a) = n - 1 + 1 /\ \A k \in 1 .. n - 1 + 1 : a[k] = q[1 + k - 1]
    BY <2>1, PartIs
  <2> QED
    BY <1>2, <2>2, SMTT(20)
<1>4. /\ b \in Seq(Tasks) /\ Len(b) = m - n /\ \A k \in 1 .. m - n : b[k] = q[n + k]
  <2>1. n + 1 \in 1 .. Len(q) + 1 /\ m \in (n + 1) - 1 .. Len(q) /\ m - (n + 1) + 1 = m - n
    BY <1>2, SMTT(20)
  <2>2. /\ b \in Seq(Tasks) /\ Len(b) = m - (n + 1) + 1
        /\ \A k \in 1 .. m - (n + 1) + 1 : b[k] = q[(n + 1) + k - 1]
    BY <2>1, PartIs
  <2>3. \A k \in 1 .. m - n : (n + 1) + k - 1 = n + k
    BY <1>2, SMTT(20)
  <2> HIDE DEF b, m
  <2> QED
    BY <2>1, <2>2, <2>3
<1>5. r = c \o b
  BY <1>1
<1> HIDE DEF r, m, a, b
<1>6. /\ c \in Seq(Tasks) /\ Len(c) = n + 1 /\ c[n + 1] = t
      /\ \A k \in 1 .. n : c[k] = q[k]
  <2>1. <<t>> \in Seq(Tasks) /\ Len(<<t>>) = 1 /\ <<t>>[1] = t
    BY SMTT(20)
  <2>2. /\ c \in Seq(Tasks) /\ Len(c) = n + 1
        /\ \A k \in 1 .. n : c[k] = a[k]
        /\ \A k \in 1 .. 1 : c[n + k] = <<t>>[k]
    BY <1>3, <2>1, <1>ConcatIs, SMTT(20)
  <2> HIDE DEF c
  <2> QED
    BY <1>3, <2>1, <2>2, SMTT(20)
<1> HIDE DEF c
<1>10. /\ r \in Seq(Tasks) /\ Len(r) = (n + 1) + (m - n)
       /\ \A k \in 1 .. n + 1 : r[k] = c[k]
       /\ \A k \in 1 .. m - n : r[(n + 1) + k] = b[k]
  <2>1. /\ c \o b \in Seq(Tasks) /\ Len(c \o b) = Len(c) + Len(b)
        /\ \A k \in 1 .. Len(c) : (c \o b)[k] = c[k]
        /\ \A k \in 1 .. Len(b) : (c \o b)[Len(c) + k] = b[k]
    <3>1. c \in Seq(Tasks) /\ b \in Seq(Tasks)
      BY <1>4, <1>6
    <3> QED
      BY <3>1, SMTT(20)
  <2> QED
    BY <1>4, <1>5, <1>6, <2>1
<1>11. r \in Seq(Tasks) /\ Len(r) = m + 1 /\ DOMAIN r = 1 .. m + 1
  BY <1>2, <1>10, SMTT(20)
<1>12. /\ \A k \in 1 .. n : r[k] = q[k]
       /\ r[n + 1] = t
       /\ \A k \in 1 .. m - n : r[(n + 1) + k] = q[n + k]
  <2>1. n + 1 \in 1 .. n + 1 /\ \A k \in 1 .. n : k \in 1 .. n + 1
    BY <1>2, SMTT(20)
  <2> QED
    BY <1>4, <1>6, <1>10, <2>1
<1>13. ASSUME NEW k \in 1 .. m + 1
       PROVE  r[k] = IF k <= n THEN q[k] ELSE IF k = n + 1 THEN t ELSE q[k - 1]
  <2>1. CASE k <= n
    BY <1>2, <1>12, <2>1, SMTT(20)
  <2>2. CASE k = n + 1
    BY <1>2, <1>12, <2>2, SMTT(20)
  <2>3. CASE k > n + 1
    <3> DEFINE j == k - (n + 1)
    <3>1. j \in 1 .. m - n /\ n + j = k - 1 /\ (n + 1) + j = k
      BY <1>2, <2>3, SMTT(20)
    <3> HIDE DEF j
    <3>2. r[(n + 1) + j] = q[n + j]
      BY <1>12, <3>1
    <3> QED
      BY <1>2, <2>3, <3>1, <3>2, SMTT(20)
  <2> QED
    BY <1>2, <2>1, <2>2, <2>3, SMTT(20)
<1>7. \A x : x \in Members(r) => x \in Members(q) \/ x = t
  BY <1>2, <1>11, <1>13, SMTT(20) DEF Members
<1>8. \A x : x \in Members(q) \/ x = t => x \in Members(r)
  <2>1. t \in Members(r)
    <3>1. n + 1 \in 1 .. m + 1
      BY <1>2, SMTT(20)
    <3> QED
      BY <3>1, <1>2, <1>11, <1>13, SMTT(20) DEF Members
  <2>2. ASSUME NEW k \in 1 .. m PROVE q[k] \in Members(r)
    <3>1. CASE k <= n
      BY <3>1, <1>2, <1>11, <1>13, SMTT(20) DEF Members
    <3>2. CASE k > n
      <4>1. k + 1 \in 1 .. m + 1 /\ r[k + 1] = q[k]
        BY <3>2, <1>2, <1>13, SMTT(20)
      <4> QED
        BY <4>1, <1>11 DEF Members
    <3> QED
      BY <3>1, <3>2, <1>2, SMTT(20)
  <2> QED
    BY <2>1, <2>2, <1>2 DEF Members
<1>9. ASSUME Distinct(q), t \notin Members(q) PROVE Distinct(r)
  <2>1. \A k \in 1 .. m : q[k] # t
    BY <1>2, <1>9 DEF Members
  <2> SUFFICES ASSUME NEW i \in 1 .. m + 1, NEW j \in 1 .. m + 1, r[i] = r[j]
               PROVE  i = j
    BY <1>11 DEF Distinct
  <2>2. \A k \in 1 .. m + 1 : k > n + 1 => k - 1 \in 1 .. m
    BY <1>2, SMTT(20)
  <2>3. \A k \in 1 .. m + 1 : k <= n => k \in 1 .. m
    BY <1>2, SMTT(20)
  <2>4. \A x, y \in 1 .. m : q[x] = q[y] => x = y
    BY <1>2, <1>9 DEF Distinct
  <2> QED
    BY <1>2, <1>13, <2>1, <2>2, <2>3, <2>4, SMTT(20)
<1> QED
  BY <1>11, <1>7, <1>8, <1>9 DEF r

-----------------------------------------------------------------------------
(* Every step keeps the types.                                             *)

(* The types hold at the start, and nobody has the scheduler.              *)
LEMMA InitTypes == Init => Types /\ Sched
<1> SUFFICES ASSUME Init PROVE Types /\ Sched
  OBVIOUS
<1>1. 0 \in 0 .. MaxDelay /\ MaxDelay \in 0 .. MaxDelay /\ 0 \in 0 .. MaxPended
  BY TickModulo, ConstantsAssumption, SMTT(20)
<1>2. UNLOCKED \in UNLOCKED .. MaxLock
  BY ConstantsAssumption, SMTT(20) DEF UNLOCKED
<1>3. Types
  <2>1. TimeTypes
    BY <1>1 DEF Init, TimeTypes
  <2>2. ListTypes
    BY SMTT(20) DEF Init, ListTypes, ListNames
  <2>3. TickTypes /\ LockTypes
    BY <1>1, <1>2 DEF Init, TickTypes, LockTypes
  <2>4. CallTypes
    BY DEF Init, CallTypes, Places
  <2> QED
    BY <2>1, <2>2, <2>3, <2>4 DEF Types
<1>4. Sched
  BY ConstantsAssumption DEF Init, Sched, Locked
<1> QED
  BY <1>3, <1>4

(* vTaskPlaceOnEventList takes the calling task, and no other, off the     *)
(* ready list.                                                             *)
LEMMA PlaceTypes ==
  ASSUME Types, NEW t \in Tasks, vTaskPlaceOnEventList(t)
  PROVE  /\ xTasksWaitingToSend' \in Seq(Tasks) /\ xTasksWaitingToReceive' \in Seq(Tasks)
         /\ list' \in [Tasks -> ListNames] /\ wake' \in [Tasks -> 0 .. MaxDelay]
         /\ xNextTaskUnblockTime' \in 0 .. MaxDelay
         /\ \A u \in Tasks \ {t} : list'[u] = list[u]
         /\ list'[t] # "ready"
<1> DEFINE until == (xTickCount + xTicksToWait[t]) % TickMod
<1>1. xTickCount + xTicksToWait[t] \in Int
  BY TickModulo, SMTT(20) DEF Types, TimeTypes, TickTypes
<1>2. until \in 0 .. MaxDelay
  BY <1>1, TickModulo, Modulo
<1>3. \/ /\ list' = [list EXCEPT ![t] = "suspended"]
         /\ UNCHANGED <<wake, xNextTaskUnblockTime>>
      \/ /\ wake' = [wake EXCEPT ![t] = until]
         /\ list' = [list EXCEPT ![t] = IF until < xTickCount THEN "overflow"
                                        ELSE "delayed"]
         /\ xNextTaskUnblockTime' =
              IF until >= xTickCount /\ until < xNextTaskUnblockTime
              THEN until ELSE xNextTaskUnblockTime
  BY DEF vTaskPlaceOnEventList, prvAddCurrentTaskToDelayedList
<1> HIDE DEF until
<1>4. xTasksWaitingToSend' \in Seq(Tasks) /\ xTasksWaitingToReceive' \in Seq(Tasks)
  BY InsertFacts DEF vTaskPlaceOnEventList, Types, ListTypes
<1> QED
  BY <1>2, <1>3, <1>4 DEF Types, ListTypes, TimeTypes, TickTypes, ListNames

(* Every step keeps the types and the scheduler's state.                   *)
LEMMA StepTypes ==
  ASSUME IInv, Types, Sched, [Next]_vars
  PROVE  Types' /\ Sched'
(* A kernel state of the right type leaves the variables well typed.       *)
<1>KernelBecomes. ASSUME NEW k \in KernelType, BecomesKernel(k)
      PROVE  /\ list' \in [Tasks -> ListNames]
             /\ xTasksWaitingToSend' \in Seq(Tasks)
             /\ xTasksWaitingToReceive' \in Seq(Tasks)
             /\ wrapped' \in [Tasks -> BOOLEAN] /\ due' \in [Tasks -> 0 .. MaxDelay]
             /\ xTickCount' \in 0 .. MaxDelay /\ xNextTaskUnblockTime' \in 0 .. MaxDelay
             /\ Kernel' = k
  BY <1>KernelBecomes DEF KernelType, BecomesKernel, Kernel
(* After the pended ticks no task sleeps that did not.                     *)
<1>TickedType. ASSUME Types, NEW k \in KernelType
      PROVE  /\ Ticked(k, uxPendedTicks) \in KernelType
             /\ \A t \in Tasks : Ticked(k, uxPendedTicks).list[t] # "ready"
                                   => k.list[t] # "ready"
  <2> USE <1>TickedType
  <2> DEFINE G == {j \in KernelType : \A t \in Tasks : j.list[t] # "ready"
                                                         => k.list[t] # "ready"}
             S == [i \in 0 .. uxPendedTicks |-> G]
  <2>0. uxPendedTicks \in 0 .. MaxPended /\ uxPendedTicks \in Nat /\ MaxPended \in Nat
    BY ConstantsAssumption, SMTT(20) DEF Types, TickTypes
  <2>1. ASSUME NEW j \in G PROVE xTaskIncrementTick(j) \in G
    <3>1. wake \in [Tasks -> 0 .. MaxDelay] /\ xEntryTimeSet \in [Tasks -> BOOLEAN]
      BY DEF Types, TimeTypes
    <3>2. /\ xTaskIncrementTick(j) \in KernelType
          /\ \A t \in Tasks : xTaskIncrementTick(j).list[t] # "ready"
                                => j.list[t] # "ready"
      BY <3>1, TickType
    <3> QED
      BY <3>2
  <2>2. k \in G
    OBVIOUS
  <2> HIDE DEF G
  <2>3. k \in S[0]
    BY <2>0, <2>2, SMTT(20)
  <2>4. \A i \in 0 .. uxPendedTicks - 1 : \A j \in S[i] : xTaskIncrementTick(j) \in S[i + 1]
    BY <2>0, <2>1, SMTT(20)
  <2>5. S[uxPendedTicks] = G
    BY <2>0, SMTT(20)
  <2> HIDE DEF S
  <2>6. Ticked(k, uxPendedTicks) \in S[uxPendedTicks]
    BY <2>0, <2>3, <2>4, TickedInduction
  <2> QED
    BY <2>5, <2>6 DEF G
(* A step of a task while the scheduler runs.                              *)
<1>FreeStep. ASSUME Types, Sched, Args, NEW t \in Tasks, suspender = None, list[t] = "ready",
             NEW p \in {"idle", "try", "suspend", "late"},
             Goto(t, p), NEW c \in CallNames \cup {None}, call' = [call EXCEPT ![t] = c],
             c = None <=> p = "idle", p \in {"suspend", "late"} => c # "reset",
             UNCHANGED <<suspender, uxPendedTicks, xPendingReadyList, expired>>,
             cTxLock' = UNLOCKED, cRxLock' = UNLOCKED,
             \A u \in Tasks : list'[u] # "ready" => list[u] # "ready"
      PROVE  Sched'
  <2> USE <1>FreeStep
  <2>1. \A u \in Tasks : pc[u] \notin Locked
    BY ConstantsAssumption DEF Sched
  <2>2. pc' = [pc EXCEPT ![t] = p] /\ pc \in [Tasks -> Places]
    BY DEF Goto, Types, CallTypes
  <2>3. \A u \in Tasks : pc'[u] \notin Locked
    BY <2>1, <2>2 DEF Locked
  <2>4. \A u \in Tasks : list'[u] # "ready" => u # t /\ pc'[u] = pc[u]
    BY <2>2
  <2>5. \A u \in Tasks : list'[u] # "ready" => pc'[u] \in {"unlockTx", "unlockRx", "resume", "try"}
    BY <2>4 DEF Sched
  <2>6. \A u \in Tasks : /\ pc'[u] = "idle" <=> call'[u] = None
                         /\ pc'[u] \in {"suspend", "late"} => call'[u] # "reset"
    BY <2>2 DEF Sched, Args
  <2> QED
    BY <2>3, <2>5, <2>6, ConstantsAssumption DEF Sched, Locked
(* Waking tasks blocks none.                                               *)
<1>WokenReady. ASSUME ListTypes, NEW ts \in SUBSET Tasks, Woken(ts)
      PROVE  /\ list' \in [Tasks -> ListNames] /\ xPendingReadyList' \in SUBSET Tasks
             /\ \A u \in Tasks : list'[u] # "ready" => list[u] # "ready"
             /\ suspender = None => UNCHANGED xPendingReadyList
  BY <1>WokenReady DEF Woken, ListTypes, ListNames
(* The head and the tail of an event list.                                 *)
<1>FirstRest. ASSUME NEW q \in Seq(Tasks)
      PROVE  First(q) \in SUBSET Tasks /\ Rest(q) \in Seq(Tasks)
  BY <1>FirstRest, SMTT(20) DEF First, Rest
(* Waking the first waiter keeps the lists well typed.                     *)
<1>WakeTypes. ASSUME ListTypes, WakeReceiver \/ WakeSender
      PROVE  /\ ListTypes'
             /\ \A u \in Tasks : list'[u] # "ready" => list[u] # "ready"
             /\ suspender = None => UNCHANGED xPendingReadyList
  <2> USE <1>WakeTypes
  <2>1. CASE WakeReceiver
    <3>1. /\ First(xTasksWaitingToReceive) \in SUBSET Tasks
          /\ Rest(xTasksWaitingToReceive) \in Seq(Tasks)
      BY <1>FirstRest DEF ListTypes
    <3> QED
      BY <2>1, <3>1, <1>WokenReady DEF WakeReceiver, ListTypes
  <2>2. CASE WakeSender
    <3>1. /\ First(xTasksWaitingToSend) \in SUBSET Tasks
          /\ Rest(xTasksWaitingToSend) \in Seq(Tasks)
      BY <1>FirstRest DEF ListTypes
    <3> QED
      BY <2>2, <3>1, <1>WokenReady DEF WakeSender, ListTypes
  <2> QED
    BY <2>1, <2>2
(* The first n tasks of an event list, and those behind them.              *)
<1>FrontBehind. ASSUME NEW q \in Seq(Tasks), NEW n \in Nat
      PROVE  Front(q, n) \in SUBSET Tasks /\ Behind(q, n) \in Seq(Tasks)
  <2> USE <1>FrontBehind
  <2>1. Len(q) \in Nat /\ Min2(n, Len(q)) \in 0 .. Len(q)
    BY SMTT(20) DEF Min2
  <2> QED
    BY <2>1, SMTT(20) DEF Front, Behind
(* A call that returns leaves its variables well typed.                    *)
<1>ReturnTypes. ASSUME TimeTypes, CallTypes, NEW t \in Tasks, Return(t),
             UNCHANGED <<suspender, expired>>
      PROVE  TimeTypes' /\ CallTypes'
  <2> USE <1>ReturnTypes
  <2>1. 0 \in 0 .. MaxDelay
    BY TickModulo, SMTT(20)
  <2>2. CallTypes'
    BY DEF Return, Goto, CallTypes, Places
  <2>3. TimeTypes'
    BY <2>1 DEF Return, TimeTypes
  <2> QED
    BY <2>2, <2>3
(* Calls that are served, or that fail at once, while the scheduler runs.  *)
<1>ServedTypes. ASSUME Types, Sched, Args, NEW t \in Tasks,
             \/ xQueueGenericSend(t) \/ xQueueGenericReceive(t)
             \/ xQueueGenericReset(t) \/ FailAtOnce(t)
      PROVE  Types' /\ Sched'
  <2> USE <1>ServedTypes
  <2>1. At(t, "try") /\ Return(t) /\ UNCHANGED <<tickVars, schedVars, expired>>
    BY DEF xQueueGenericSend, xQueueGenericReceive, xQueueGenericReset, FailAtOnce
  <2>2. suspender = None /\ list[t] = "ready"
    BY <2>1, RunsWhere, SMTT(20) DEF Locked
  <2>3. cTxLock = UNLOCKED /\ cRxLock = UNLOCKED
    BY <2>2, ConstantsAssumption DEF Sched
  <2>4. cTxLock' = UNLOCKED /\ cRxLock' = UNLOCKED
    BY <2>3 DEF xQueueGenericSend, xQueueGenericReceive, xQueueGenericReset, FailAtOnce,
       lockVars
  <2>5. /\ ListTypes' /\ UNCHANGED xPendingReadyList
        /\ \A u \in Tasks : list'[u] # "ready" => list[u] # "ready"
    <3>1. CASE WakeReceiver \/ WakeSender
      BY <2>2, <3>1, <1>WakeTypes DEF Types
    <3>2. CASE UNCHANGED <<waitVars, listVars>>
      BY <3>2 DEF Types, ListTypes, waitVars, listVars
    <3> QED
      BY <3>1, <3>2
      DEF xQueueGenericSend, xQueueGenericReceive, xQueueGenericReset, FailAtOnce
  <2>6. TimeTypes' /\ CallTypes'
    BY <2>1, <1>ReturnTypes DEF Types, schedVars
  <2>7. LockTypes' /\ TickTypes'
    BY <2>1, <2>3, <2>4 DEF Types, LockTypes, TickTypes, tickVars, schedVars
  <2>8. Sched'
    BY <2>1, <2>2, <2>4, <2>5, <1>FreeStep DEF Return, schedVars
  <2> QED
    BY <2>5, <2>6, <2>7, <2>8 DEF Types
(* A call that begins keeps the types and the scheduler's state.           *)
<1>EnterTypes. ASSUME Types, Sched, Args, NEW t \in Tasks, Enter(t)
      PROVE  Types' /\ Sched'
  <2> USE <1>EnterTypes
  <2>1. PICK c \in Calls, w \in Waits :
          /\ call' = [call EXCEPT ![t] = c]
          /\ xTicksToWait' = [xTicksToWait EXCEPT ![t] = w]
    BY DEF Enter
  <2>2. /\ At(t, "idle") /\ Goto(t, "try")
        /\ UNCHANGED <<lockVars, waitVars, tickVars, listVars, schedVars,
                       xEntryTimeSet, xTimeOnEntering, wrapped, wake, due, expired>>
    BY DEF Enter
  <2>3. suspender = None /\ list[t] = "ready"
    BY <2>2, RunsWhere, SMTT(20) DEF Locked
  <2>4. cTxLock = UNLOCKED /\ cRxLock = UNLOCKED
    BY <2>3, ConstantsAssumption DEF Sched
  <2>5. c \in CallNames /\ c # None /\ w \in 0 .. MaxDelay
    BY ConstantsAssumption
  <2>6. Sched'
    BY <2>1, <2>2, <2>3, <2>4, <2>5, <1>FreeStep DEF lockVars, listVars, schedVars
  <2>7. TimeTypes'
    BY <2>1, <2>2, <2>5 DEF Types, TimeTypes
  <2>8. ListTypes' /\ TickTypes' /\ LockTypes'
    BY <2>2 DEF Types, ListTypes, TickTypes, LockTypes, lockVars, waitVars, tickVars,
       listVars, schedVars
  <2>9. CallTypes'
    BY <2>2 DEF Types, CallTypes, Goto, Places, schedVars
  <2> QED
    BY <2>6, <2>7, <2>8, <2>9 DEF Types
(* So do noting the time and giving up.                                    *)
<1>TimeOutTypes. ASSUME Types, Sched, Args, NEW t \in Tasks, vTaskSetTimeOutState(t) \/ TimedOut(t)
      PROVE  Types' /\ Sched'
  <2> USE <1>TimeOutTypes
  <2>1. /\ At(t, "try") \/ At(t, "late")
        /\ UNCHANGED <<lockVars, waitVars, tickVars, listVars, schedVars, expired>>
    BY DEF vTaskSetTimeOutState, TimedOut
  <2>2. suspender = None /\ list[t] = "ready" /\ pc[t] \in {"try", "late"}
    BY <2>1, RunsWhere, SMTT(20) DEF Locked
  <2>3. cTxLock = UNLOCKED /\ cRxLock = UNLOCKED
    BY <2>2, ConstantsAssumption DEF Sched
  <2>4. ListTypes' /\ TickTypes' /\ LockTypes'
    BY <2>1 DEF Types, ListTypes, TickTypes, LockTypes, lockVars, waitVars, tickVars,
       listVars, schedVars
  <2>5. CASE TimedOut(t) /\ Return(t)
    <3>1. TimeTypes' /\ CallTypes'
      BY <2>1, <2>5, <1>ReturnTypes DEF Types, schedVars
    <3>2. Sched'
      BY <2>1, <2>2, <2>3, <2>5, <1>FreeStep DEF Return, lockVars, listVars, schedVars
    <3> QED
      BY <2>4, <3>1, <3>2 DEF Types
  <2>6. ASSUME NEW p \in {"try", "suspend"}, Goto(t, p), UNCHANGED call, TimeTypes',
               p = "suspend" => call[t] # "reset"
        PROVE  Types' /\ Sched'
    <3>1. call[t] \in CallNames \cup {None} /\ call' = [call EXCEPT ![t] = call[t]]
      BY <2>6 DEF Args
    <3>2. call[t] # None
      BY <2>2 DEF Sched
    <3>3. Sched'
      BY <2>1, <2>2, <2>3, <2>6, <3>1, <3>2, <1>FreeStep DEF lockVars, listVars, schedVars
    <3>4. CallTypes'
      BY <2>1, <2>6 DEF Types, CallTypes, Goto, Places, schedVars
    <3> QED
      BY <2>4, <2>6, <3>3, <3>4 DEF Types
  <2>7. CASE TimedOut(t) /\ ~Return(t)
    <3>1. Goto(t, "try") /\ UNCHANGED <<argVars, timeVars>>
      BY <2>7 DEF TimedOut
    <3> QED
      BY <2>6, <3>1 DEF Types, TimeTypes, argVars, timeVars
  <2>8. CASE vTaskSetTimeOutState(t)
    <3>1. Goto(t, "suspend") /\ UNCHANGED call /\ Blocked(t)
      BY <2>8 DEF vTaskSetTimeOutState, argVars
    <3>2. call[t] # "reset"
      BY <3>1 DEF Blocked, Sends
    <3>3. TimeTypes'
      BY <2>8 DEF vTaskSetTimeOutState, timeVars, Types, TimeTypes, TickTypes
    <3> QED
      BY <2>6, <3>1, <3>2, <3>3
  <2> QED
    BY <2>5, <2>7, <2>8
(* vTaskSuspendAll: one task has the scheduler.                            *)
<1>SuspendTypes. ASSUME Types, Sched, NEW t \in Tasks, vTaskSuspendAll(t)
      PROVE  Types' /\ Sched'
  <2> USE <1>SuspendTypes
  <2>1. /\ At(t, "suspend") /\ suspender' = t /\ Goto(t, "lock")
        /\ UNCHANGED <<lockVars, waitVars, tickVars, listVars, uxPendedTicks, argVars,
                       timeVars, expired>>
    BY DEF vTaskSuspendAll
  <2>2. suspender = None /\ list[t] = "ready" /\ pc[t] = "suspend"
    BY <2>1, RunsWhere, SMTT(20) DEF Locked
  <2>3. cTxLock = UNLOCKED /\ cRxLock = UNLOCKED /\ ~expired
        /\ \A u \in Tasks : pc[u] \notin Locked
    BY <2>2, ConstantsAssumption DEF Sched
  <2>4. Types'
    BY <2>1 DEF Types, TimeTypes, ListTypes, TickTypes, LockTypes, CallTypes, Goto, Places,
       lockVars, waitVars, tickVars, listVars, timeVars
  <2>5. pc' = [pc EXCEPT ![t] = "lock"] /\ pc \in [Tasks -> Places]
    BY <2>1 DEF Types, CallTypes, Goto
  <2>6. Sched'
    BY <2>1, <2>2, <2>3, <2>5, ConstantsAssumption
    DEF Sched, Locked, lockVars, listVars, argVars
  <2> QED
    BY <2>4, <2>6
(* prvLockQueue and xTaskCheckForTimeOut keep them.                        *)
<1>LockTypesStep. ASSUME Types, Sched, NEW t \in Tasks, LockAndCheck(t)
      PROVE  Types' /\ Sched'
  <2> USE <1>LockTypesStep
  <2> DEFINE e == xTimeOnEntering[t]
             w == xTicksToWait[t]
             elapsed == (xTickCount - e) % TickMod
             forever == w = MaxDelay
             inTime == forever \/ (~(wrapped[t] /\ xTickCount >= e) /\ elapsed < w)
  <2>1. /\ At(t, "lock") /\ prvLockQueue
        /\ UNCHANGED <<waitVars, tickVars, listVars, schedVars, argVars>>
        /\ UNCHANGED <<xEntryTimeSet, wake, due>>
    BY DEF LockAndCheck, xTaskCheckForTimeOut
  <2>2. /\ expired' = ~inTime
        /\ IF inTime /\ ~forever
             THEN /\ xTicksToWait' = [xTicksToWait EXCEPT ![t] = w - elapsed]
                  /\ xTimeOnEntering' = [xTimeOnEntering EXCEPT ![t] = xTickCount]
                  /\ wrapped' = [wrapped EXCEPT ![t] = FALSE]
             ELSE UNCHANGED <<xTicksToWait, xTimeOnEntering, wrapped>>
        /\ Goto(t, IF inTime THEN "test" ELSE "unlockTx")
    BY DEF LockAndCheck, xTaskCheckForTimeOut
  <2>3. suspender = t /\ pc[t] = "lock" /\ list[t] = "ready"
    BY <2>1, RunsWhere, SMTT(20) DEF Locked, Sched
  <2>4. e \in 0 .. MaxDelay /\ w \in 0 .. MaxDelay /\ xTickCount \in 0 .. MaxDelay
    BY DEF Types, TimeTypes, TickTypes
  <2>5. elapsed \in 0 .. MaxDelay
    <3>1. xTickCount - e \in Int
      BY <2>4, TickModulo, SMTT(20)
    <3> QED
      BY <3>1, TickModulo, Modulo
  <2> HIDE DEF elapsed
  <2>6. inTime /\ ~forever => w - elapsed \in 0 .. MaxDelay
    BY <2>4, <2>5, TickModulo, SMTT(20)
  <2>7. inTime \in BOOLEAN
    OBVIOUS
  <2> HIDE DEF inTime, forever, e, w
  <2>8. TimeTypes'
    <3>1. xTicksToWait' \in [Tasks -> 0 .. MaxDelay]
      BY <2>2, <2>6 DEF Types, TimeTypes
    <3>2. xTimeOnEntering' \in [Tasks -> 0 .. MaxDelay]
      BY <2>2, <2>4 DEF Types, TimeTypes
    <3>3. wrapped' \in [Tasks -> BOOLEAN]
      BY <2>2 DEF Types, TimeTypes
    <3> QED
      BY <2>1, <3>1, <3>2, <3>3 DEF Types, TimeTypes
  <2>9. LockTypes' /\ cTxLock' # UNLOCKED /\ cRxLock' # UNLOCKED
    BY <2>1, ConstantsAssumption, SMTT(20) DEF prvLockQueue, Types, LockTypes, UNLOCKED, UNMODIFIED
  <2>10. ListTypes' /\ TickTypes'
    BY <2>1 DEF Types, ListTypes, TickTypes, waitVars, tickVars, listVars, schedVars
  <2>11. pc' = [pc EXCEPT ![t] = IF inTime THEN "test" ELSE "unlockTx"]
         /\ pc \in [Tasks -> Places]
    BY <2>2 DEF Types, CallTypes, Goto
  <2>12. CallTypes'
    BY <2>1, <2>2, <2>7, <2>11 DEF Types, CallTypes, Places, schedVars
  <2>13. Sched'
    BY <2>1, <2>2, <2>3, <2>7, <2>9, <2>11, ConstantsAssumption
    DEF Sched, Locked, schedVars, listVars, argVars
  <2> QED
    BY <2>8, <2>9, <2>10, <2>12, <2>13 DEF Types
(* Blocking keeps them.                                                    *)
<1>TestTypes. ASSUME Types, Sched, NEW t \in Tasks, TestAgain(t)
      PROVE  Types' /\ Sched'
  <2> USE <1>TestTypes
  <2>1. /\ At(t, "test") /\ Goto(t, "unlockTx")
        /\ UNCHANGED <<lockVars, xTickCount, xPendingReadyList, schedVars, argVars,
                       xTicksToWait, xEntryTimeSet, xTimeOnEntering, wrapped, due, expired>>
    BY DEF TestAgain
  <2>2. suspender = t /\ pc[t] = "test" /\ ~expired
    BY <2>1, RunsWhere DEF Locked, Sched
  <2>3. /\ xTasksWaitingToSend' \in Seq(Tasks) /\ xTasksWaitingToReceive' \in Seq(Tasks)
        /\ list' \in [Tasks -> ListNames] /\ wake' \in [Tasks -> 0 .. MaxDelay]
        /\ xNextTaskUnblockTime' \in 0 .. MaxDelay
        /\ \A u \in Tasks \ {t} : list'[u] = list[u]
    <3>1. CASE vTaskPlaceOnEventList(t)
      BY <3>1, PlaceTypes
    <3>2. CASE UNCHANGED <<waitVars, list, wake, xNextTaskUnblockTime>>
      BY <3>2 DEF waitVars, Types, ListTypes, TimeTypes, TickTypes
    <3> QED
      BY <3>1, <3>2 DEF TestAgain
  <2>4. TimeTypes' /\ ListTypes' /\ TickTypes' /\ LockTypes'
    BY <2>1, <2>3 DEF Types, TimeTypes, ListTypes, TickTypes, LockTypes, lockVars, schedVars
  <2>5. pc' = [pc EXCEPT ![t] = "unlockTx"] /\ pc \in [Tasks -> Places]
    BY <2>1 DEF Types, CallTypes, Goto
  <2>6. CallTypes'
    BY <2>1, <2>5 DEF Types, CallTypes, Places, schedVars
  <2>7. Sched'
    BY <2>1, <2>2, <2>3, <2>5, ConstantsAssumption
    DEF Sched, Locked, lockVars, schedVars, argVars
  <2> QED
    BY <2>4, <2>6, <2>7 DEF Types
(* Both halves of prvUnlockQueue keep them.                                *)
<1>UnlockTypes. ASSUME Types, Sched, NEW t \in Tasks, prvUnlockQueueTx(t) \/ prvUnlockQueueRx(t)
      PROVE  Types' /\ Sched'
  <2> USE <1>UnlockTypes
  <2>1. CASE prvUnlockQueueTx(t)
    <3>1. /\ At(t, "unlockTx") /\ Goto(t, "unlockRx") /\ cTxLock' = UNLOCKED
          /\ UNCHANGED <<cRxLock, tickVars, schedVars, argVars, timeVars, expired>>
      BY <2>1 DEF prvUnlockQueueTx
    <3>2. suspender = t /\ pc[t] = "unlockTx" /\ cTxLock \in Nat
      BY <3>1, RunsWhere, ConstantsAssumption, SMTT(20)
        DEF Locked, Sched, Types, LockTypes, UNLOCKED
    <3>3. /\ Front(xTasksWaitingToReceive, cTxLock) \in SUBSET Tasks
          /\ Behind(xTasksWaitingToReceive, cTxLock) \in Seq(Tasks)
      BY <3>2, <1>FrontBehind DEF Types, ListTypes
    <3>4. ListTypes' /\ \A u \in Tasks : list'[u] # "ready" => list[u] # "ready"
      BY <2>1, <3>3, <1>WokenReady DEF prvUnlockQueueTx, Types, ListTypes
    <3>5. TimeTypes' /\ TickTypes' /\ LockTypes'
      BY <3>1, ConstantsAssumption, SMTT(20) DEF Types, TimeTypes, TickTypes, LockTypes, tickVars,
         schedVars, timeVars, UNLOCKED
    <3>6. pc' = [pc EXCEPT ![t] = "unlockRx"] /\ pc \in [Tasks -> Places]
      BY <3>1 DEF Types, CallTypes, Goto
    <3>7. CallTypes'
      BY <3>1, <3>6 DEF Types, CallTypes, Places, schedVars
    <3>8. Sched'
      BY <3>1, <3>2, <3>4, <3>6, ConstantsAssumption DEF Sched, Locked, schedVars, argVars
    <3> QED
      BY <3>4, <3>5, <3>7, <3>8 DEF Types
  <2>2. CASE prvUnlockQueueRx(t)
    <3>1. /\ At(t, "unlockRx") /\ Goto(t, "resume") /\ cRxLock' = UNLOCKED
          /\ UNCHANGED <<cTxLock, tickVars, schedVars, argVars, timeVars, expired>>
      BY <2>2 DEF prvUnlockQueueRx
    <3>0. suspender = t /\ pc[t] = "unlockRx"
      BY <3>1, RunsWhere DEF Locked
    <3>2. suspender = t /\ pc[t] = "unlockRx" /\ cRxLock \in Nat
      <4>1. cRxLock # UNLOCKED
        BY <3>0 DEF Sched
      <4> QED
        BY <3>0, <4>1, ConstantsAssumption, SMTT(20) DEF Types, LockTypes, UNLOCKED
    <3>3. /\ Front(xTasksWaitingToSend, cRxLock) \in SUBSET Tasks
          /\ Behind(xTasksWaitingToSend, cRxLock) \in Seq(Tasks)
      BY <3>2, <1>FrontBehind DEF Types, ListTypes
    <3>4. ListTypes' /\ \A u \in Tasks : list'[u] # "ready" => list[u] # "ready"
      BY <2>2, <3>3, <1>WokenReady DEF prvUnlockQueueRx, Types, ListTypes
    <3>5. TimeTypes' /\ TickTypes' /\ LockTypes'
      BY <3>1, ConstantsAssumption, SMTT(20) DEF Types, TimeTypes, TickTypes, LockTypes, tickVars,
         schedVars, timeVars, UNLOCKED
    <3>6. pc' = [pc EXCEPT ![t] = "resume"] /\ pc \in [Tasks -> Places]
      BY <3>1 DEF Types, CallTypes, Goto
    <3>7. CallTypes'
      BY <3>1, <3>6 DEF Types, CallTypes, Places, schedVars
    <3>8. Sched'
      BY <3>1, <3>2, <3>4, <3>6, ConstantsAssumption DEF Sched, Locked, schedVars, argVars
    <3> QED
      BY <3>4, <3>5, <3>7, <3>8 DEF Types
  <2> QED
    BY <2>1, <2>2
(* xTaskResumeAll gives the scheduler back, with nothing pended.           *)
<1>ResumeTypes. ASSUME Types, Sched, NEW t \in Tasks, xTaskResumeAll(t)
      PROVE  Types' /\ Sched'
  <2> USE <1>ResumeTypes
  <2> DEFINE k == Ticked(Resumed, uxPendedTicks)
  <2>1. /\ At(t, "resume") /\ Goto(t, IF expired THEN "late" ELSE "try")
        /\ xPendingReadyList' = {} /\ uxPendedTicks' = 0 /\ suspender' = None
        /\ expired' = FALSE
        /\ UNCHANGED <<lockVars, argVars, xTicksToWait, xEntryTimeSet, xTimeOnEntering, wake>>
    BY DEF xTaskResumeAll
  <2>2. suspender = t /\ pc[t] = "resume"
    BY <2>1, RunsWhere DEF Locked
  <2>3. BecomesKernel(k)
    BY ResumesTicked
  <2>4. /\ k \in KernelType
        /\ \A u \in Tasks : k.list[u] # "ready" => Resumed.list[u] # "ready"
    BY ResumedIs, <1>TickedType
  <2> HIDE DEF k
  <2>5. list' = k.list
    BY <2>3 DEF BecomesKernel
  <2>6. \A u \in Tasks : list'[u] # "ready" => list[u] # "ready"
    BY <2>4, <2>5, ResumedIs
  <2>7. 0 \in 0 .. MaxPended
    BY ConstantsAssumption, SMTT(20)
  <2>8. TimeTypes' /\ ListTypes' /\ TickTypes' /\ LockTypes'
    BY <2>1, <2>3, <2>4, <2>7, <1>KernelBecomes
    DEF Types, TimeTypes, ListTypes, TickTypes, LockTypes, lockVars
  <2>9. pc' = [pc EXCEPT ![t] = IF expired THEN "late" ELSE "try"] /\ pc \in [Tasks -> Places]
    BY <2>1 DEF Types, CallTypes, Goto
  <2>10. CallTypes'
    BY <2>1, <2>9 DEF Types, CallTypes, Places
  <2>11. cTxLock = UNLOCKED /\ cRxLock = UNLOCKED /\ \A u \in Tasks : pc'[u] \notin Locked
    BY <2>2, <2>9 DEF Sched, Locked
  <2>12. Sched'
    BY <2>1, <2>2, <2>6, <2>9, <2>11, ConstantsAssumption
       DEF Sched, Locked, lockVars, argVars
  <2> QED
    BY <2>8, <2>10, <2>12 DEF Types
(* The tick interrupt keeps them.                                          *)
<1>TickTypesStep. ASSUME Types, Sched, Tick
      PROVE  Types' /\ Sched'
  <2> USE <1>TickTypesStep
  <2>1. UNCHANGED <<lockVars, wake, xPendingReadyList, suspender, pc, argVars,
                    xTicksToWait, xEntryTimeSet, xTimeOnEntering, expired>>
    BY DEF Tick
  <2>2. CASE suspender = None /\ BecomesKernel(xTaskIncrementTick(Kernel))
                              /\ UNCHANGED uxPendedTicks
    <3> DEFINE k == xTaskIncrementTick(Kernel)
    <3>1. /\ k \in KernelType
          /\ \A u \in Tasks : k.list[u] # "ready" => Kernel.list[u] # "ready"
      BY KernelTyped, TickType DEF Types, TimeTypes
    <3>2. \A u \in Tasks : list'[u] # "ready" => list[u] # "ready"
      BY <2>2, <3>1 DEF BecomesKernel, Kernel
    <3> HIDE DEF k
    <3>3. Types'
      BY <2>1, <2>2, <3>1, <1>KernelBecomes
      DEF k, Types, TimeTypes, ListTypes, TickTypes, LockTypes, CallTypes, lockVars
    <3>4. Sched'
      BY <2>1, <2>2, <3>2 DEF Sched, lockVars, argVars
    <3> QED
      BY <3>3, <3>4
  <2>3. CASE /\ suspender # None /\ uxPendedTicks < MaxPended
             /\ uxPendedTicks' = uxPendedTicks + 1
             /\ UNCHANGED <<tickVars, list, waitVars, wrapped, due>>
    <3>1. TickTypes'
      BY <2>3, ConstantsAssumption, SMTT(20) DEF Types, TickTypes, tickVars
    <3>2. Types'
      BY <2>1, <2>3, <3>1
      DEF Types, TimeTypes, ListTypes, LockTypes, CallTypes, lockVars, waitVars
    <3>3. Sched'
      BY <2>1, <2>3 DEF Sched, lockVars, argVars
    <3> QED
      BY <3>2, <3>3
  <2> QED
    BY <2>2, <2>3 DEF Tick
(* The two FromISR calls keep them.                                        *)
<1>InterruptTypes. ASSUME Types, Sched, xQueueGenericSendFromISR \/ xQueueReceiveFromISR
      PROVE  Types' /\ Sched'
  <2> USE <1>InterruptTypes
  <2>1. UNCHANGED <<tickVars, schedVars, pc, argVars, timeVars, expired>>
    BY DEF xQueueGenericSendFromISR, xQueueReceiveFromISR
  <2>2. /\ ListTypes' /\ \A u \in Tasks : list'[u] # "ready" => list[u] # "ready"
        /\ suspender = None => UNCHANGED xPendingReadyList
    <3>1. CASE WakeReceiver \/ WakeSender
      BY <3>1, <1>WakeTypes DEF Types
    <3>2. CASE UNCHANGED <<waitVars, listVars>>
      BY <3>2 DEF Types, ListTypes, waitVars, listVars
    <3> QED
      BY <3>1, <3>2 DEF xQueueGenericSendFromISR, xQueueReceiveFromISR
  <2>3. /\ cTxLock' = UNLOCKED <=> cTxLock = UNLOCKED
        /\ cRxLock' = UNLOCKED <=> cRxLock = UNLOCKED
        /\ LockTypes'
    BY ConstantsAssumption, SMTT(20)
    DEF xQueueGenericSendFromISR, xQueueReceiveFromISR, Types, LockTypes, UNLOCKED
  <2>4. Types'
    BY <2>1, <2>2, <2>3
    DEF Types, TimeTypes, TickTypes, CallTypes, tickVars, schedVars, timeVars
  <2>5. Sched'
    BY <2>1, <2>2, <2>3 DEF Sched, schedVars, argVars
  <2> QED
    BY <2>4, <2>5
<1>0. Args
  BY DEF IInv
<1>1. ASSUME NEW t \in Tasks, Enter(t) \/ Step(t)
      PROVE  Types' /\ Sched'
  BY <1>0, <1>1, <1>EnterTypes, <1>ServedTypes, <1>TimeOutTypes, <1>SuspendTypes, <1>LockTypesStep,
     <1>TestTypes, <1>UnlockTypes, <1>ResumeTypes DEF Step
<1>2. CASE UNCHANGED vars
  BY <1>2 DEF vars, lockVars, waitVars, tickVars, listVars, schedVars, argVars, timeVars,
     Types, TimeTypes, ListTypes, TickTypes, LockTypes, CallTypes, Sched
<1> QED
  BY <1>1, <1>2, <1>TickTypesStep, <1>InterruptTypes DEF Next

(* The ring, the types and the scheduler's state, together.                *)
LEMMA TypesInvariance == Spec => [](IInv /\ Types /\ Sched)
<1>1. Init => IInv
  BY InitFifo
<1>2. IInv /\ [Next]_vars => IInv'
  BY StepFifo
<1> QED
  BY <1>1, <1>2, InitTypes, StepTypes, PTL DEF Spec

(* Every variable of the queue and of the kernel keeps its type.           *)
THEOREM QueueTypeCorrect == Spec => []TypeOK
<1>1. IInv /\ Types => TypeOK
  BY DEF IInv, Ring, Args, Types, TimeTypes, ListTypes, TickTypes, LockTypes, CallTypes,
     ListNames, Places, TypeOK
<1> QED
  BY <1>1, TypesInvariance, PTL
=============================================================================
