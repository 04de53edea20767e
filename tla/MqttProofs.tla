----------------------------- MODULE MqttProofs -----------------------------
(***************************************************************************)
(* The safety of examples/cpe439's network side, for every number of       *)
(* temperatures, colours, connections, queue lengths and windows.          *)
(***************************************************************************)
EXTENDS Mqtt, TLAPS

(* The packets that carry a colour.                                        *)
Colour == {"PUBLISH", "PUBLISH0"}
(* The packets the client sends.                                           *)
Requests == {"CONNECT", "SUBSCRIBE", "PUBLISH", "PUBACK", "PINGREQ", "TORN"}
Kinds == Requests \cup Colour \cup {"CONNACK", "SUBACK", "PINGRESP"}
Pkt == [type : Kinds, n : Nat \cup {Unread}]

(* The client record, and the state of one call of mqtt_yield.             *)
Client == [isconnected : BOOLEAN, ping_outstanding : BOOLEAN,
           fail_count : 0 .. MaxFail, ping_due : BOOLEAN, handlers : Nat]
Codes == Kinds \cup {"NOTHING", "FAILURE", "DISCONNECTED"}
State == [c : Client, out : Seq(Pkt), rc : Codes]

-----------------------------------------------------------------------------
(* Sequences.                                                              *)

(* An item of a sequence over S is in S.                                   *)
LEMMA ElementOfSeq ==
  ASSUME NEW S, NEW q \in Seq(S), NEW k \in 1 .. Len(q)
  PROVE  q[k] \in S
OBVIOUS

(* Head and Tail, item by item.                                            *)
LEMMA TailAt ==
  ASSUME NEW S, NEW q \in Seq(S), q # <<>>
  PROVE  /\ Head(q) \in S /\ Head(q) = q[1] /\ 1 \in 1 .. Len(q)
         /\ Tail(q) \in Seq(S) /\ Len(q) \in Nat \ {0} /\ Len(Tail(q)) = Len(q) - 1
         /\ \A k \in 1 .. Len(Tail(q)) : k + 1 \in 1 .. Len(q) /\ Tail(q)[k] = q[k + 1]
OBVIOUS

(* Append, item by item.                                                   *)
LEMMA AppendAt ==
  ASSUME NEW S, NEW q \in Seq(S), NEW x \in S
  PROVE  /\ Append(q, x) \in Seq(S) /\ Len(q) \in Nat /\ Len(Append(q, x)) = Len(q) + 1
         /\ \A k \in 1 .. Len(q) : Append(q, x)[k] = q[k]
         /\ Append(q, x)[Len(q) + 1] = x
         /\ \A k \in 1 .. Len(Append(q, x)) :
              k \in 1 .. Len(q) \/ (k = Len(q) + 1 /\ Append(q, x)[k] = x)
OBVIOUS

(* Concatenation, item by item.                                            *)
LEMMA ConcatAt ==
  ASSUME NEW S, NEW q \in Seq(S), NEW r \in Seq(S)
  PROVE  /\ q \o r \in Seq(S) /\ Len(q) \in Nat /\ Len(r) \in Nat
         /\ Len(q \o r) = Len(q) + Len(r) /\ DOMAIN (q \o r) = 1 .. Len(q) + Len(r)
         /\ \A k \in 1 .. Len(q) : (q \o r)[k] = q[k]
         /\ \A k \in Len(q) + 1 .. Len(q) + Len(r) : (q \o r)[k] = r[k - Len(q)]
OBVIOUS

(* A prefix, item by item.                                                 *)
LEMMA PrefixAt ==
  ASSUME NEW S, NEW q \in Seq(S), NEW m \in 0 .. Len(q)
  PROVE  /\ SubSeq(q, 1, m) \in Seq(S) /\ Len(SubSeq(q, 1, m)) = m
         /\ \A k \in 1 .. m : SubSeq(q, 1, m)[k] = q[k]
OBVIOUS

(* The numbers of q but 0 rise, above low and up to top.                   *)
Rising(q, low, top) ==
  \A k \in 1 .. Len(q) :
    q[k] <= top /\ (q[k] # 0 => low < q[k] /\ \A j \in 1 .. k - 1 : q[j] < q[k])

(* Numbers up to m are natural numbers.                                    *)
LEMMA SeqOfNat ==
  ASSUME NEW m, NEW q \in Seq(0 .. m)
  PROVE  q \in Seq(Nat)
<1>1. Len(q) \in Nat /\ q = [k \in 1 .. Len(q) |-> q[k]]
  OBVIOUS
<1>2. \A k \in 1 .. Len(q) : q[k] \in Nat
  <2> TAKE k \in 1 .. Len(q)
  <2>1. q[k] \in 0 .. m
    BY ElementOfSeq, Zenon
  <2> QED BY <2>1
<1> QED BY <1>1, <1>2

(* What is behind the head of a rising queue rises above the head.         *)
LEMMA RisingTail ==
  ASSUME NEW q \in Seq(Nat), q # <<>>, NEW low \in Nat, NEW top \in Nat, Rising(q, low, top)
  PROVE  /\ Head(q) # 0 => low < Head(q)
         /\ Head(q) <= top /\ Rising(Tail(q), Head(q), top)
<1>1. /\ Len(q) \in Nat /\ Head(q) = q[1] /\ 1 \in 1 .. Len(q)
      /\ Len(Tail(q)) \in Nat
      /\ \A k \in 1 .. Len(Tail(q)) : k + 1 \in 1 .. Len(q) /\ Tail(q)[k] = q[k + 1]
  BY TailAt
<1>2. ASSUME NEW k \in 1 .. Len(Tail(q))
      PROVE  /\ Tail(q)[k] <= top
             /\ Tail(q)[k] # 0 =>
                  Head(q) < Tail(q)[k] /\ \A j \in 1 .. k - 1 : Tail(q)[j] < Tail(q)[k]
  <2>1. \A j \in 1 .. k - 1 : j + 1 \in 1 .. (k + 1) - 1 /\ Tail(q)[j] = q[j + 1]
    BY <1>1
  <2>2. 1 \in 1 .. (k + 1) - 1
    BY <1>1
  <2> QED BY <1>1, <2>1, <2>2 DEF Rising
<1> QED BY <1>1, <1>2 DEF Rising

(* A queue rises on when the next number, or 0, is appended.               *)
LEMMA RisingAppend ==
  ASSUME NEW q \in Seq(Nat), NEW low \in Nat, NEW top \in Nat, Rising(q, low, top), low <= top,
         NEW x, NEW new, (x = 0 /\ new = top) \/ (x = top + 1 /\ new = top + 1)
  PROVE  Rising(Append(q, x), low, new)
<1> DEFINE r == Append(q, x)
<1>0. x \in Nat /\ new \in Nat /\ top <= new /\ x <= new
  OBVIOUS
<1>1. /\ Len(q) \in Nat /\ Len(r) = Len(q) + 1
      /\ \A k \in 1 .. Len(q) : r[k] = q[k] /\ q[k] \in Nat
      /\ \A k \in 1 .. Len(r) : k \in 1 .. Len(q) \/ (k = Len(q) + 1 /\ r[k] = x)
  BY <1>0, AppendAt, ElementOfSeq
<1> HIDE DEF r
<1>2. ASSUME NEW k \in 1 .. Len(r)
      PROVE  /\ r[k] <= new
             /\ r[k] # 0 => low < r[k] /\ \A j \in 1 .. k - 1 : r[j] < r[k]
  <2>1. \A j \in 1 .. k - 1 : j \in 1 .. Len(q) /\ r[j] = q[j] /\ q[j] \in Nat
    BY <1>1
  <2>2. CASE k \in 1 .. Len(q)
    <3>1. q[k] <= top /\ (q[k] # 0 => low < q[k] /\ \A j \in 1 .. k - 1 : q[j] < q[k])
      BY <2>2 DEF Rising
    <3> QED BY <1>0, <1>1, <2>1, <2>2, <3>1
  <2>3. CASE r[k] = x
    <3>1. \A j \in 1 .. k - 1 : q[j] <= top
      BY <2>1 DEF Rising
    <3> QED BY <1>0, <2>1, <2>3, <3>1
  <2> QED BY <1>1, <2>2, <2>3
<1> QED BY <1>2 DEF Rising, r

-----------------------------------------------------------------------------
(* The client.                                                             *)

(* What waitfor and mqtt_yield send on their own, whole or in part.        *)
Own == {"PUBACK", "PINGREQ", "TORN"}

(* It goes behind the packets on their way.                                *)
Extended(q, r) ==
  /\ r \in Seq(Pkt) /\ Len(q) <= Len(r) /\ Len(r) <= Window
  /\ \A k \in 1 .. Len(q) : r[k] = q[k]
  /\ \A k \in Len(q) + 1 .. Len(r) : r[k].type \in Own

Follows(s, r) ==
  /\ r \in State /\ Extended(s.out, r.out)
  /\ r.c.handlers = s.c.handlers /\ (r.c.isconnected => s.c.isconnected)
  /\ r.rc \in {s.rc, "FAILURE", "DISCONNECTED"}

(* What extends an extension extends the whole.                            *)
LEMMA ExtendedTrans ==
  ASSUME NEW p \in Seq(Pkt), NEW q \in Seq(Pkt), NEW r \in Seq(Pkt),
         Extended(p, q), Extended(q, r)
  PROVE  Extended(p, r)
<1>1. Len(p) \in Nat /\ Len(q) \in Nat /\ Len(r) \in Nat
  OBVIOUS
<1>2. \A k \in 1 .. Len(p) : k \in 1 .. Len(q) /\ r[k] = p[k]
  BY <1>1 DEF Extended
<1>3. \A k \in Len(p) + 1 .. Len(r) : r[k].type \in Own
  <2> TAKE k \in Len(p) + 1 .. Len(r)
  <2>1. CASE k <= Len(q)
    <3>1. k \in Len(p) + 1 .. Len(q) /\ k \in 1 .. Len(q)
      BY <1>1, <2>1
    <3> QED BY <3>1 DEF Extended
  <2>2. CASE k > Len(q)
    <3>1. k \in Len(q) + 1 .. Len(r)
      BY <1>1, <2>2
    <3> QED BY <3>1 DEF Extended
  <2> QED BY <1>1, <2>1, <2>2
<1> QED BY <1>1, <1>2, <1>3 DEF Extended

(* What send_packet writes: nothing, all of one packet or a part of it.    *)
LEMMA SendExtends ==
  ASSUME NEW s \in State, Len(s.out) <= Window, NEW p \in Pkt, p.type \in Own,
         NEW sent \in mqttwrite(s.out)
  PROVE  /\ send_packet(s, p, sent) \in State
         /\ Extended(s.out, send_packet(s, p, sent).out)
         /\ send_packet(s, p, sent).c.handlers = s.c.handlers
         /\ send_packet(s, p, sent).c.isconnected = s.c.isconnected
         /\ send_packet(s, p, sent).rc = s.rc
<1>0. s.c \in Client /\ s.out \in Seq(Pkt) /\ s.rc \in Codes /\ Len(s.out) \in Nat
  BY DEF State
<1>t. Packet("TORN", 0) \in Pkt /\ Packet("TORN", 0).type \in Own
  BY DEF Packet, Pkt, Kinds, Requests, Own
<1>a. ASSUME Len(s.out) < Window, NEW x \in Pkt, x.type \in Own
      PROVE  Append(s.out, x) \in Seq(Pkt) /\ Extended(s.out, Append(s.out, x))
  <2> DEFINE o == Append(s.out, x)
  <2>1. o \in Seq(Pkt) /\ Len(o) = Len(s.out) + 1 /\ o[Len(s.out) + 1] = x
        /\ \A k \in 1 .. Len(s.out) : o[k] = s.out[k]
    BY <1>0, AppendAt
  <2> HIDE DEF o
  <2>2. Extended(s.out, o)
    BY <1>0, <1>a, <2>1, ConstantsAssumption DEF Extended
  <2> QED BY <2>1, <2>2 DEF o
<1>1. CASE sent = "none"
  <2>1. send_packet(s, p, sent) = s
    BY <1>1 DEF send_packet
  <2>2. Extended(s.out, s.out)
    BY <1>0 DEF Extended
  <2> QED BY <1>0, <2>1, <2>2
<1>2. CASE sent = "all"
  <2> DEFINE d == [s.c EXCEPT !.ping_due = FALSE]
  <2> DEFINE o == Append(s.out, p)
  <2>1. send_packet(s, p, sent) = [s EXCEPT !.out = o, !.c.ping_due = FALSE]
    BY <1>2 DEF send_packet
  <2>2. send_packet(s, p, sent) = [c |-> d, out |-> o, rc |-> s.rc]
    BY <2>1, Zenon DEF State
  <2>3. Len(s.out) < Window
    BY <1>0, <1>2, ConstantsAssumption DEF mqttwrite, Full
  <2>4. o \in Seq(Pkt) /\ Extended(s.out, o)
    BY <1>a, <2>3
  <2>6. d \in Client /\ d.handlers = s.c.handlers /\ d.isconnected = s.c.isconnected
    BY <1>0, Zenon DEF Client
  <2> HIDE DEF d, o
  <2>7. send_packet(s, p, sent) \in State
    BY <1>0, <2>2, <2>4, <2>6 DEF State
  <2> QED BY <2>2, <2>4, <2>6, <2>7
<1>3. CASE sent = "part"
  <2> DEFINE o == Append(s.out, Packet("TORN", 0))
  <2>1. send_packet(s, p, sent) = [s EXCEPT !.out = o]
    BY <1>3 DEF send_packet
  <2>2. send_packet(s, p, sent) = [c |-> s.c, out |-> o, rc |-> s.rc]
    BY <2>1, Zenon DEF State
  <2>3. Len(s.out) < Window
    BY <1>0, <1>3, ConstantsAssumption DEF mqttwrite, Full
  <2>4. o \in Seq(Pkt) /\ Extended(s.out, o)
    BY <1>a, <1>t, <2>3
  <2> HIDE DEF o
  <2>7. send_packet(s, p, sent) \in State
    BY <1>0, <2>2, <2>4 DEF State
  <2> QED BY <2>2, <2>4, <2>7
<1>4. sent \in {"all", "part", "none"}
  BY DEF mqttwrite
<1> QED BY <1>1, <1>2, <1>3, <1>4

(* A client record that changes in the ways mqtt_yield may change it       *)
(* follows.                                                                *)
LEMMA FollowsRecord ==
  ASSUME NEW s \in State, NEW d \in Client, d.handlers = s.c.handlers,
         d.isconnected => s.c.isconnected, NEW o, Extended(s.out, o),
         NEW rc \in {s.rc, "FAILURE", "DISCONNECTED"}
  PROVE  Follows(s, [c |-> d, out |-> o, rc |-> rc])
<1>1. o \in Seq(Pkt) /\ rc \in Codes
  BY DEF Extended, State, Codes
<1>2. [c |-> d, out |-> o, rc |-> rc] \in State
  BY <1>1 DEF State
<1> QED BY <1>2 DEF Follows

(* Doing nothing follows.                                                  *)
LEMMA FollowsSelf ==
  ASSUME NEW s \in State, Len(s.out) <= Window
  PROVE  Extended(s.out, s.out) /\ Follows(s, s)
<1>1. s.out \in Seq(Pkt) /\ Len(s.out) \in Nat
  BY DEF State
<1>2. Extended(s.out, s.out)
  BY <1>1 DEF Extended
<1> QED BY <1>2 DEF Follows

(* One part of mqtt_yield after another follows.                           *)
LEMMA FollowsTrans ==
  ASSUME NEW s \in State, NEW h \in State, NEW r \in State, Follows(s, h), Follows(h, r)
  PROVE  Follows(s, r)
<1>1. s.out \in Seq(Pkt) /\ h.out \in Seq(Pkt) /\ r.out \in Seq(Pkt)
  BY DEF State
<1>2. Extended(s.out, r.out)
  BY <1>1, ExtendedTrans DEF Follows
<1> QED BY <1>2 DEF Follows

(* keepalive sends at most a ping, or fails.                               *)
LEMMA KeepaliveFollows ==
  ASSUME NEW s \in State, Len(s.out) <= Window, NEW sent \in mqttwrite(s.out)
  PROVE  Follows(s, keepalive(s, sent))
<1> DEFINE fails == s.c.fail_count + 1
<1>0. s.c \in Client /\ Extended(s.out, s.out) /\ s.c.fail_count \in 0 .. MaxFail
      /\ MaxFail \in Nat \ {0} /\ s.c.ping_due \in BOOLEAN /\ s.c.ping_outstanding \in BOOLEAN
  BY FollowsSelf, ConstantsAssumption DEF State, Client
<1>1. CASE ~s.c.ping_due
  BY <1>1, FollowsSelf DEF keepalive
<1>2. CASE s.c.ping_due /\ s.c.ping_outstanding /\ fails >= MaxFail
  <2> DEFINE d == [s.c EXCEPT !.fail_count = MaxFail]
  <2>1. keepalive(s, sent) = [s EXCEPT !.c.fail_count = MaxFail, !.rc = "DISCONNECTED"]
    BY <1>0, <1>2 DEF keepalive
  <2>2. keepalive(s, sent) = [c |-> d, out |-> s.out, rc |-> "DISCONNECTED"]
    BY <2>1, Zenon DEF State
  <2>3. d \in Client /\ d.handlers = s.c.handlers /\ d.isconnected = s.c.isconnected
    BY <1>0 DEF Client
  <2> HIDE DEF d
  <2> QED BY <1>0, <2>2, <2>3, FollowsRecord, Zenon
<1>3. CASE s.c.ping_due /\ s.c.ping_outstanding /\ fails < MaxFail
  <2> DEFINE d == [s.c EXCEPT !.fail_count = fails, !.ping_due = FALSE]
  <2>1. keepalive(s, sent) = [s EXCEPT !.c.fail_count = fails, !.c.ping_due = FALSE]
    BY <1>0, <1>3 DEF keepalive
  <2>2. keepalive(s, sent) = [c |-> d, out |-> s.out, rc |-> s.rc]
    BY <2>1, Zenon DEF State
  <2>3. d \in Client /\ d.handlers = s.c.handlers /\ d.isconnected = s.c.isconnected
    <3>1. fails \in 0 .. MaxFail
      BY <1>0, <1>3
    <3> HIDE DEF fails
    <3> QED BY <1>0, <3>1, Zenon DEF Client
  <2> HIDE DEF d
  <2> QED BY <1>0, <2>2, <2>3, FollowsRecord, Zenon
<1>4. CASE s.c.ping_due /\ ~s.c.ping_outstanding
  <2> DEFINE t == send_packet(s, Packet("PINGREQ", 0), sent)
  <2> DEFINE d == [t.c EXCEPT !.ping_outstanding = TRUE, !.ping_due = FALSE]
  <2>0. Packet("PINGREQ", 0) \in Pkt /\ Packet("PINGREQ", 0).type = "PINGREQ"
    BY DEF Packet, Pkt, Kinds, Requests
  <2>1. keepalive(s, sent) = [t EXCEPT !.c.ping_outstanding = TRUE, !.c.ping_due = FALSE]
    BY <1>0, <1>4 DEF keepalive
  <2>2. t \in State /\ Extended(s.out, t.out) /\ t.c.handlers = s.c.handlers
        /\ t.c.isconnected = s.c.isconnected /\ t.rc = s.rc
    BY <2>0, SendExtends DEF Own
  <2> HIDE DEF t
  <2>3. keepalive(s, sent) = [c |-> d, out |-> t.out, rc |-> s.rc]
    BY <2>1, <2>2, Zenon DEF State
  <2>4. t.c \in Client
    BY <2>2 DEF State
  <2>5. d \in Client /\ d.handlers = t.c.handlers /\ d.isconnected = t.c.isconnected
    BY <2>4, Zenon DEF Client
  <2> HIDE DEF d
  <2> QED BY <2>2, <2>3, <2>5, FollowsRecord, Zenon
<1>5. fails >= MaxFail \/ fails < MaxFail
  BY <1>0
<1> QED BY <1>0, <1>1, <1>2, <1>3, <1>4, <1>5

(* So does cycle for one packet: it acknowledges a PUBLISH, or fails.      *)
LEMMA HandledFollows ==
  ASSUME NEW s \in State, Len(s.out) <= Window, NEW type, NEW sent \in mqttwrite(s.out)
  PROVE  /\ Follows(s, Handled(s, type, sent))
         /\ type # "PUBLISH" => Handled(s, type, sent).out = s.out
<1>0. s.c \in Client /\ Extended(s.out, s.out) /\ MaxFail \in Nat \ {0}
  BY FollowsSelf, ConstantsAssumption DEF State
<1>1. CASE type = "PUBLISH"
  <2>0. Packet("PUBACK", 0) \in Pkt /\ Packet("PUBACK", 0).type = "PUBACK"
    BY DEF Packet, Pkt, Kinds, Requests
  <2> DEFINE t == send_packet(s, Packet("PUBACK", 0), sent)
  <2> DEFINE rc == IF sent = "all" THEN t.rc ELSE "FAILURE"
  <2>1. Handled(s, type, sent) = [t EXCEPT !.rc = rc]
    BY <1>1 DEF Handled
  <2>2. t \in State /\ Extended(s.out, t.out) /\ t.c.handlers = s.c.handlers
        /\ t.c.isconnected = s.c.isconnected /\ t.rc = s.rc
    BY <2>0, SendExtends DEF Own
  <2>3. rc \in {s.rc, "FAILURE", "DISCONNECTED"} /\ t.c \in Client
    BY <2>2 DEF State
  <2> HIDE DEF t, rc
  <2>4. Handled(s, type, sent) = [c |-> t.c, out |-> t.out, rc |-> rc]
    BY <2>1, <2>2 DEF State
  <2>5. Follows(s, [c |-> t.c, out |-> t.out, rc |-> rc])
    BY <2>2, <2>3, FollowsRecord, Zenon
  <2> QED BY <1>1, <2>4, <2>5, Zenon
<1>3. CASE type = "PINGRESP"
  <2> DEFINE d == [s.c EXCEPT !.ping_outstanding = FALSE, !.fail_count = 0]
  <2>1. Handled(s, type, sent) = [s EXCEPT !.c.ping_outstanding = FALSE, !.c.fail_count = 0]
    BY <1>3 DEF Handled
  <2>2. Handled(s, type, sent) = [c |-> d, out |-> s.out, rc |-> s.rc]
    BY <2>1, Zenon DEF State
  <2>3. d \in Client /\ d.handlers = s.c.handlers /\ d.isconnected = s.c.isconnected
    <3>1. 0 \in 0 .. MaxFail
      BY <1>0
    <3> QED BY <1>0, <3>1, Zenon DEF Client
  <2> HIDE DEF d
  <2>4. Handled(s, type, sent).out = s.out
    BY <2>2
  <2> QED BY <1>0, <2>2, <2>3, <2>4, FollowsRecord, Zenon
<1>4. CASE type = "TORN"
  <2> DEFINE d == [s.c EXCEPT !.isconnected = FALSE]
  <2>1. Handled(s, type, sent) = [s EXCEPT !.c.isconnected = FALSE, !.rc = "DISCONNECTED"]
    BY <1>4 DEF Handled
  <2>2. Handled(s, type, sent) = [c |-> d, out |-> s.out, rc |-> "DISCONNECTED"]
    BY <2>1, Zenon DEF State
  <2>3. d \in Client /\ d.handlers = s.c.handlers /\ ~d.isconnected
    BY <1>0, Zenon DEF Client
  <2> HIDE DEF d
  <2>4. Handled(s, type, sent).out = s.out
    BY <2>2
  <2> QED BY <1>0, <2>2, <2>3, <2>4, FollowsRecord, Zenon
<1>5. CASE type \notin {"PUBLISH", "PINGRESP", "TORN"}
  <2>1. Handled(s, type, sent) = s
    BY <1>5, Zenon DEF Handled
  <2> QED BY <2>1, FollowsSelf
<1> QED BY <1>1, <1>3, <1>4, <1>5

(* cycle keeps the handlers and never takes the client for connected, and  *)
(* sends only on a connected client or to acknowledge a colour.            *)
LEMMA CycleFollows ==
  ASSUME NEW s \in State, Len(s.out) <= Window, NEW type, NEW r \in cycle(s, type)
  PROVE  /\ Follows(s, r)
         /\ r.out = s.out \/ s.c.isconnected \/ type = "PUBLISH"
<1>1. PICK sent \in mqttwrite(s.out) :
        LET h == Handled(s, type, sent)
        IN  \E o \in mqttwrite(h.out) :
              r = IF h.c.isconnected /\ h.rc # "FAILURE" THEN keepalive(h, o) ELSE h
  BY DEF cycle
<1> DEFINE h == Handled(s, type, sent)
<1>2. Follows(s, h) /\ (type # "PUBLISH" => h.out = s.out)
  BY HandledFollows
<1>3. PICK o \in mqttwrite(h.out) :
        r = IF h.c.isconnected /\ h.rc # "FAILURE" THEN keepalive(h, o) ELSE h
  BY <1>1
<1> HIDE DEF h
<1>4. h \in State /\ Len(h.out) <= Window
  BY <1>2 DEF Follows, Extended
<1>5. CASE h.c.isconnected /\ h.rc # "FAILURE"
  <2>1. r = keepalive(h, o)
    BY <1>3, <1>5
  <2>2. Follows(h, r) /\ r \in State
    BY <1>4, <2>1, KeepaliveFollows DEF Follows
  <2>3. Follows(s, r)
    BY <1>2, <1>4, <2>2, FollowsTrans
  <2> QED BY <1>2, <1>5, <2>3 DEF Follows
<1>6. CASE ~(h.c.isconnected /\ h.rc # "FAILURE")
  BY <1>2, <1>3, <1>6
<1> QED BY <1>5, <1>6
-----------------------------------------------------------------------------
(* The packets on their way.                                               *)

OutOK(q) ==
  /\ q \in Seq(Pkt) /\ Len(q) <= Window
  /\ \A k \in 1 .. Len(q) :
       q[k].type \in Requests /\ (q[k].type = "PUBLISH" => q[k].n \in 0 .. MaxSamples)

(* The number of a colour, unless its packet was cut short.                *)
Numbers == (1 .. MaxColours) \cup {Unread}

InOK(q) ==
  /\ q \in Seq(Pkt) /\ Len(q) <= Window
  /\ \A k \in 1 .. Len(q) : q[k].type \in Colour => q[k].n \in Numbers

(* What a connection that dies leaves to be read.                          *)
Torn(q, r) ==
  /\ r \in Seq(Pkt) /\ Len(r) <= Len(q)
  /\ \A k \in 1 .. Len(r) :
       r[k] = q[k] \/ r[k] \in {Packet("TORN", 0), Packet(q[k].type, Unread)}

(* Every packet on its way has a number.                                   *)
LEMMA Numbered ==
  ASSUME NEW q, OutOK(q) \/ InOK(q)
  PROVE  Len(q) <= Window /\ \A k \in DOMAIN q : q[k].n \in Nat \cup {Unread}
<1>1. q \in Seq(Pkt) /\ Len(q) <= Window
  BY DEF OutOK, InOK
<1>2. \A k \in DOMAIN q : q[k] \in Pkt
  BY <1>1
<1> QED BY <1>1, <1>2 DEF Pkt

(* Taking the first packet of the client keeps the window.                 *)
LEMMA OutTail == ASSUME NEW q, OutOK(q), q # <<>> PROVE OutOK(Tail(q)) /\ Head(q) \in Pkt
<1>1. q \in Seq(Pkt) /\ Len(q) <= Window /\ Window \in Nat
  BY ConstantsAssumption DEF OutOK
<1>2. Tail(q) \in Seq(Pkt) /\ Len(q) \in Nat /\ Len(Tail(q)) = Len(q) - 1 /\ Head(q) \in Pkt
      /\ \A k \in 1 .. Len(Tail(q)) : k + 1 \in 1 .. Len(q) /\ Tail(q)[k] = q[k + 1]
  BY <1>1, TailAt
<1> QED BY <1>1, <1>2 DEF OutOK

(* So does taking the first packet of the broker.                          *)
LEMMA InTail == ASSUME NEW q, InOK(q), q # <<>> PROVE InOK(Tail(q)) /\ Head(q) \in Pkt
<1>1. q \in Seq(Pkt) /\ Len(q) <= Window /\ Window \in Nat
  BY ConstantsAssumption DEF InOK
<1>2. Tail(q) \in Seq(Pkt) /\ Len(q) \in Nat /\ Len(Tail(q)) = Len(q) - 1 /\ Head(q) \in Pkt
      /\ \A k \in 1 .. Len(Tail(q)) : k + 1 \in 1 .. Len(q) /\ Tail(q)[k] = q[k + 1]
  BY <1>1, TailAt
<1> QED BY <1>1, <1>2 DEF InOK

(* The client sends one packet more.                                       *)
LEMMA OutAppend ==
  ASSUME NEW q, OutOK(q), Len(q) < Window, NEW p \in Pkt, p.type \in Requests,
         p.type = "PUBLISH" => p.n \in 0 .. MaxSamples
  PROVE  OutOK(Append(q, p))
<1>1. q \in Seq(Pkt) /\ Window \in Nat
  BY ConstantsAssumption DEF OutOK
<1>2. Append(q, p) \in Seq(Pkt) /\ Len(q) \in Nat /\ Len(Append(q, p)) = Len(q) + 1
      /\ (\A k \in 1 .. Len(q) : Append(q, p)[k] = q[k])
      /\ \A k \in 1 .. Len(Append(q, p)) :
           k \in 1 .. Len(q) \/ (k = Len(q) + 1 /\ Append(q, p)[k] = p)
  BY <1>1, AppendAt
<1> QED BY <1>1, <1>2 DEF OutOK

(* The broker sends one packet more.                                       *)
LEMMA InAppend ==
  ASSUME NEW q, InOK(q), Len(q) < Window, NEW p \in Pkt,
         p.type \in Colour => p.n \in Numbers
  PROVE  InOK(Append(q, p))
<1>1. q \in Seq(Pkt) /\ Window \in Nat
  BY ConstantsAssumption DEF InOK
<1>2. Append(q, p) \in Seq(Pkt) /\ Len(q) \in Nat /\ Len(Append(q, p)) = Len(q) + 1
      /\ (\A k \in 1 .. Len(q) : Append(q, p)[k] = q[k])
      /\ \A k \in 1 .. Len(Append(q, p)) :
           k \in 1 .. Len(q) \/ (k = Len(q) + 1 /\ Append(q, p)[k] = p)
  BY <1>1, AppendAt
<1> QED BY <1>1, <1>2 DEF InOK

(* What mqtt_yield writes is a ping or an acknowledgement.                 *)
LEMMA OutExtended ==
  ASSUME NEW q, OutOK(q), NEW r, Extended(q, r)
  PROVE  OutOK(r)
<1>1. Len(q) \in Nat /\ Len(r) \in Nat /\ r \in Seq(Pkt) /\ Len(r) <= Window
  BY DEF OutOK, Extended
<1>2. ASSUME NEW k \in 1 .. Len(r)
      PROVE  k \in 1 .. Len(q) \/ k \in Len(q) + 1 .. Len(r)
  BY <1>1
<1> QED BY <1>1, <1>2 DEF OutOK, Extended, Requests, Own

(* A connection that breaks loses the end of what was sent, or tears a     *)
(* packet.                                                                 *)
LEMMA InTorn ==
  ASSUME NEW q, InOK(q), NEW r, Torn(q, r)
  PROVE  InOK(r)
<1>1. Len(q) \in Nat /\ Len(r) \in Nat /\ Len(r) <= Len(q) /\ Len(q) <= Window
      /\ r \in Seq(Pkt) /\ Window \in Nat
  BY ConstantsAssumption DEF InOK, Torn
<1>2. ASSUME NEW k \in 1 .. Len(r)
      PROVE  k \in 1 .. Len(q)
  BY <1>1
<1>3. ASSUME NEW k \in 1 .. Len(r), r[k].type \in Colour
      PROVE  r[k].n \in Numbers
  BY <1>2, <1>3 DEF InOK, Torn, Packet, Colour, Numbers
<1> QED BY <1>1, <1>3 DEF InOK

(* Nothing is on its way in a new connection.                              *)
LEMMA EmptyOK == OutOK(<<>>) /\ InOK(<<>>)
<1>1. <<>> \in Seq(Pkt) /\ Len(<<>>) = 0
  OBVIOUS
<1> QED BY <1>1, ConstantsAssumption DEF OutOK, InOK

(* The packets the broker still sees of a connection that died.            *)
LEMMA DiesTorn ==
  ASSUME NEW q \in Seq(Pkt), NEW k \in 0 .. Len(q), NEW r,
         \/ r = SubSeq(q, 1, k)
         \/ k > 0 /\ \E p \in {Packet("TORN", 0), Packet(q[k].type, Unread)} :
                       r = Append(SubSeq(q, 1, k - 1), p)
  PROVE  Torn(q, r)
<1>0. Len(q) \in Nat
  OBVIOUS
<1>1. CASE r = SubSeq(q, 1, k)
  <2>1. r \in Seq(Pkt) /\ Len(r) = k /\ \A i \in 1 .. k : r[i] = q[i]
    BY <1>0, <1>1, PrefixAt
  <2> QED BY <1>0, <2>1 DEF Torn
<1>2. ASSUME k > 0, NEW p \in {Packet("TORN", 0), Packet(q[k].type, Unread)},
             r = Append(SubSeq(q, 1, k - 1), p)
      PROVE  Torn(q, r)
  <2> DEFINE s == SubSeq(q, 1, k - 1)
  <2>0. p \in Pkt
    <3>1. k \in 1 .. Len(q)
      BY <1>0, <1>2
    <3>2. q[k] \in Pkt
      BY <3>1, ElementOfSeq
    <3>3. q[k].type \in Kinds
      BY <3>2 DEF Pkt
    <3> QED BY <1>2, <3>3 DEF Packet, Pkt, Kinds, Requests
  <2>1. s \in Seq(Pkt) /\ Len(s) = k - 1 /\ \A i \in 1 .. k - 1 : s[i] = q[i]
    BY <1>0, <1>2, PrefixAt
  <2>2. r = Append(s, p)
    BY <1>2
  <2> HIDE DEF s
  <2>3. r \in Seq(Pkt) /\ Len(r) = k /\ (\A i \in 1 .. k - 1 : r[i] = s[i])
        /\ \A i \in 1 .. k : i \in 1 .. k - 1 \/ (i = k /\ r[i] = p)
    BY <1>0, <1>2, <2>0, <2>1, <2>2, AppendAt
  <2> QED BY <1>0, <1>2, <2>1, <2>3 DEF Torn
<1> QED BY <1>1, <1>2

(* So does LinkDies.                                                       *)
LEMMA LinkDiesTorn ==
  ASSUME toClient \in Seq(Pkt), LinkDies
  PROVE  Torn(toClient, toClient')
<1>1. PICK k \in 0 .. Len(toClient) :
        \/ toClient' = SubSeq(toClient, 1, k)
        \/ k > 0 /\ \E p \in {Packet("TORN", 0), Packet(toClient[k].type, Unread)} :
                      toClient' = Append(SubSeq(toClient, 1, k - 1), p)
  BY DEF LinkDies
<1> QED BY <1>1, DiesTorn, Zenon
-----------------------------------------------------------------------------
(* Type correctness.                                                       *)

PubOK ==
  /\ sample \in 0 .. MaxSamples /\ msg \in 0 .. MaxSamples /\ mark \in 0 .. MaxSamples
  /\ publish_queue \in Seq(0 .. MaxSamples) /\ Len(publish_queue) <= PubLength

RgbOK ==
  /\ rgbRxQueue \in Seq(0 .. MaxColours) /\ Len(rgbRxQueue) <= RgbLength
  /\ cur_color \in 0 .. MaxColours

(* A closed connection carries nothing and is nobody's session.            *)
Shape ==
  /\ TypeOK /\ OutOK(toBroker) /\ InOK(toClient)
  /\ link = "none" => toBroker = <<>> /\ toClient = <<>> /\ ~session /\ ~subscribed

Waits == {"connect", "connack", "subscribe", "suback", "reset", "receive", "publish",
          "puback", "yield"}

(* The packet a round of waitfor reads, and what is then left.             *)
Read(p, in) ==
  \/ toClient = <<>> /\ in = <<>> /\ p = Packet("NOTHING", 0)
  \/ toClient # <<>> /\ in = Tail(toClient) /\ p = Head(toClient)

(* What mqtt_task may do after a round that left it with the client d.     *)
Proceeds(p, next, d) ==
  /\ next \in Waits /\ d \in Client
  /\ d.isconnected => client.isconnected \/ (pc = "connack" /\ p = Packet("CONNACK", 0))
  /\ \/ next = pc /\ d.handlers = client.handlers
     \/ pc = "connack" /\ next = "subscribe" /\ p = Packet("CONNACK", 0)
        /\ d.handlers = client.handlers
     \/ pc = "suback" /\ next = "reset" /\ d.handlers \in {client.handlers, client.handlers + 1}
     \/ pc = "puback" /\ next = "receive" /\ d.handlers = client.handlers

(* A round: it reads p, serves the client to s, and goes on or closes.     *)
Round(p, in, s) ==
  /\ Read(p, in) /\ InOK(in) /\ (p.type \in Colour => p.n \in Numbers)
  /\ deliver_message(p)
  /\ Extended(toBroker, s.out) /\ s.c \in Client
  /\ s.out = toBroker \/ client.isconnected \/ p.type = "PUBLISH"
  /\ \/ pc \in {"connack", "yield"} /\ mqtt_network_disconnect(s)
     \/ \E next, d : Proceeds(p, next, d) /\ Goes(next, d, s.out, in)

(* The colour a packet brings.                                             *)
Brought(p) == IF p.n = Unread THEN 0 ELSE p.n

(* deliver_message puts a colour into the queue once for each handler.     *)
LEMMA Delivered ==
  ASSUME RgbOK, client.handlers \in Nat, NEW p, deliver_message(p),
         p.type \in Colour => p.n \in Numbers
  PROVE  /\ RgbOK' /\ cur_color' = cur_color
         /\ Len(rgbRxQueue) <= Len(rgbRxQueue')
         /\ Len(rgbRxQueue') <= Len(rgbRxQueue) + client.handlers
         /\ \A k \in 1 .. Len(rgbRxQueue) : rgbRxQueue'[k] = rgbRxQueue[k]
         /\ \A k \in Len(rgbRxQueue) + 1 .. Len(rgbRxQueue') :
              p.type \in Colour /\ rgbRxQueue'[k] = Brought(p)
<1>0. rgbRxQueue \in Seq(0 .. MaxColours) /\ Len(rgbRxQueue) \in Nat
      /\ Len(rgbRxQueue) <= RgbLength /\ RgbLength \in Nat
  BY ConstantsAssumption DEF RgbOK
<1>1. CASE UNCHANGED rgbVars
  BY <1>0, <1>1 DEF RgbOK, rgbVars
<1>2. CASE p.type \in Colour /\ ~UNCHANGED rgbVars
  <2> DEFINE n == Brought(p)
  <2> DEFINE h == client.handlers
  <2> DEFINE new == [k \in 1 .. h |-> n]
  <2> DEFINE m == Least(Len(rgbRxQueue) + h, RgbLength)
  <2>1. new \in Seq(0 .. MaxColours) /\ Len(new) = h /\ \A k \in 1 .. h : new[k] = n
    <3>1. n \in 0 .. MaxColours /\ h \in Nat
      BY <1>2, ConstantsAssumption DEF Brought, Numbers, Unread
    <3> HIDE DEF h, n
    <3> QED BY <3>1
  <2>2. rgbRxQueue' = SubSeq(rgbRxQueue \o new, 1, m) /\ cur_color' = cur_color
    BY <1>2, Zenon DEF deliver_message, Colour, rgbVars, Brought
  <2>3. m \in Nat /\ m <= Len(rgbRxQueue) + h /\ m <= RgbLength /\ Len(rgbRxQueue) <= m
    BY <1>0 DEF Least
  <2> HIDE DEF new, m
  <2> DEFINE both == rgbRxQueue \o new
  <2>4. /\ both \in Seq(0 .. MaxColours) /\ Len(both) = Len(rgbRxQueue) + h
        /\ \A k \in 1 .. Len(rgbRxQueue) : both[k] = rgbRxQueue[k]
        /\ \A k \in Len(rgbRxQueue) + 1 .. Len(rgbRxQueue) + h : both[k] = new[k - Len(rgbRxQueue)]
    <3>0. rgbRxQueue \in Seq(0 .. MaxColours) /\ new \in Seq(0 .. MaxColours)
      BY <1>0, <2>1
    <3>1. /\ both \in Seq(0 .. MaxColours) /\ Len(both) = Len(rgbRxQueue) + Len(new)
          /\ \A k \in 1 .. Len(rgbRxQueue) : both[k] = rgbRxQueue[k]
          /\ \A k \in Len(rgbRxQueue) + 1 .. Len(rgbRxQueue) + Len(new) :
               both[k] = new[k - Len(rgbRxQueue)]
      BY <3>0, ConcatAt
    <3> HIDE DEF both
    <3> QED BY <2>1, <3>1
  <2>5. /\ both \in Seq(0 .. MaxColours) /\ Len(both) = Len(rgbRxQueue) + h
        /\ \A k \in 1 .. Len(rgbRxQueue) : both[k] = rgbRxQueue[k]
        /\ \A k \in Len(rgbRxQueue) + 1 .. Len(rgbRxQueue) + h : both[k] = n
        /\ rgbRxQueue' = SubSeq(both, 1, m)
    <3> HIDE DEF both
    <3>1. \A k \in Len(rgbRxQueue) + 1 .. Len(rgbRxQueue) + h : k - Len(rgbRxQueue) \in 1 .. h
      BY <1>0
    <3>2. \A k \in Len(rgbRxQueue) + 1 .. Len(rgbRxQueue) + h : both[k] = n
      BY <2>1, <2>4, <3>1
    <3> QED BY <2>2, <2>4, <3>2 DEF both
  <2> HIDE DEF both
  <2>6. /\ rgbRxQueue' \in Seq(0 .. MaxColours) /\ Len(rgbRxQueue') = m
        /\ \A k \in 1 .. m : rgbRxQueue'[k] = both[k]
    <3>1. m \in 0 .. Len(both)
      BY <1>0, <2>3, <2>5
    <3> QED BY <2>5, <3>1, PrefixAt, Zenon
  <2>7. RgbOK'
    BY <1>0, <2>2, <2>3, <2>6, Zenon DEF RgbOK
  <2>8. \A k \in 1 .. Len(rgbRxQueue) : rgbRxQueue'[k] = rgbRxQueue[k]
    BY <1>0, <2>3, <2>5, <2>6
  <2>9. \A k \in Len(rgbRxQueue) + 1 .. Len(rgbRxQueue') : rgbRxQueue'[k] = n
    BY <1>0, <2>3, <2>5, <2>6
  <2> QED BY <1>2, <2>2, <2>3, <2>6, <2>7, <2>8, <2>9, Zenon
<1> QED BY <1>1, <1>2 DEF deliver_message, Colour, rgbVars

(* A round of waitfor or of mqtt_yield, in the terms of the invariants.    *)
LEMMA WaitforCases ==
  ASSUME Shape, waitfor
  PROVE  /\ pc \in {"connack", "suback", "puback", "yield"} /\ UNCHANGED <<pubVars, msg, mark>>
         /\ \E p, in, s : Round(p, in, s)
<1> DEFINE p  == IF toClient = <<>> THEN Packet("NOTHING", 0) ELSE Head(toClient)
<1> DEFINE in == IF toClient = <<>> THEN <<>> ELSE Tail(toClient)
<1> DEFINE s0 == [c |-> client, out |-> toBroker, rc |-> p.type]
<1>1. /\ pc \in DOMAIN Awaited /\ deliver_message(p) /\ UNCHANGED <<pubVars, msg, mark>>
      /\ \E s \in cycle(s0, p.type) :
           IF s.rc = Awaited[pc] THEN Got(p, s, in) ELSE Goes(pc, s.c, s.out, in)
  BY DEF waitfor
<1>2. PICK s \in cycle(s0, p.type) :
        IF s.rc = Awaited[pc] THEN Got(p, s, in) ELSE Goes(pc, s.c, s.out, in)
  BY <1>1
<1>3. pc \in {"connack", "suback", "puback", "yield"}
  BY <1>1 DEF Awaited
<1>4. Read(p, in)
  BY DEF Read
<1>5. InOK(in) /\ p.type \in Codes \ {"DISCONNECTED", "FAILURE"}
      /\ (p.type \in Colour => p.n \in Numbers)
      /\ (p.type = "CONNACK" /\ p.n = 0 => p = Packet("CONNACK", 0))
  <2>1. CASE toClient = <<>>
    BY <2>1, EmptyOK DEF Packet, Codes, Kinds, Colour, Requests
  <2>2. CASE toClient # <<>>
    <3>1. InOK(in) /\ p \in Pkt
      BY <2>2, InTail DEF Shape
    <3>2. p = toClient[1] /\ 1 \in 1 .. Len(toClient)
      BY <2>2, TailAt DEF Shape, InOK
    <3>3. p.type \in Colour => p.n \in Numbers
      BY <3>2 DEF Shape, InOK
    <3> HIDE DEF p
    <3> QED BY <3>1, <3>3 DEF Pkt, Packet, Codes, Kinds, Colour, Requests
  <2> QED BY <2>1, <2>2
<1> HIDE DEF p, in
<1>6. client \in Client /\ toBroker \in Seq(Pkt) /\ Len(toBroker) <= Window
  BY DEF Shape, TypeOK, OutOK, Client
<1>7. s0 \in State /\ s0.c = client /\ s0.out = toBroker /\ s0.rc = p.type
  BY <1>5, <1>6 DEF State
<1> HIDE DEF s0
<1>8. Follows(s0, s) /\ (s.out = toBroker \/ client.isconnected \/ p.type = "PUBLISH")
  BY <1>2, <1>6, <1>7, CycleFollows
<1>9. /\ Extended(toBroker, s.out) /\ s.c \in Client /\ s.c.handlers = client.handlers
      /\ (s.c.isconnected => client.isconnected)
      /\ s.rc \in {p.type, "FAILURE", "DISCONNECTED"}
  BY <1>7, <1>8 DEF Follows, State
<1>10. \/ pc \in {"connack", "yield"} /\ mqtt_network_disconnect(s)
       \/ \E next, d : Proceeds(p, next, d) /\ Goes(next, d, s.out, in)
  <2>1. CASE s.rc # Awaited[pc]
    <3>1. Proceeds(p, pc, s.c)
      BY <1>3, <1>9 DEF Proceeds, Waits
    <3> QED BY <1>2, <2>1, <3>1
  <2>2. CASE s.rc = Awaited[pc]
    <3>1. Got(p, s, in)
      BY <1>2, <2>2
    <3>2. CASE pc = "connack" /\ p.n = 0
               /\ Goes("subscribe", [s.c EXCEPT !.isconnected = TRUE], s.out, in)
      <4>1. p = Packet("CONNACK", 0)
        BY <1>5, <1>9, <2>2, <3>2 DEF Awaited
      <4> DEFINE d == [s.c EXCEPT !.isconnected = TRUE]
      <4>2. d \in Client /\ d.handlers = client.handlers
        BY <1>9, Zenon DEF Client
      <4> HIDE DEF d
      <4>3. Proceeds(p, "subscribe", d)
        BY <3>2, <4>1, <4>2 DEF Proceeds, Waits
      <4> QED BY <3>2, <4>3 DEF d
    <3>3. CASE pc \in {"connack", "yield"} /\ mqtt_network_disconnect(s)
      BY <3>3
    <3>4. CASE pc = "suback" /\ Goes("reset", s.c, s.out, in)
      <4>1. Proceeds(p, "reset", s.c)
        BY <1>9, <3>4 DEF Proceeds, Waits
      <4> QED BY <3>4, <4>1
    <3>5. CASE pc = "suback" /\ Goes("reset", [s.c EXCEPT !.handlers = @ + 1], s.out, in)
      <4> DEFINE d == [s.c EXCEPT !.handlers = @ + 1]
      <4>1. d \in Client /\ d.handlers = client.handlers + 1 /\ d.isconnected = s.c.isconnected
        BY <1>9 DEF Client
      <4> HIDE DEF d
      <4>2. Proceeds(p, "reset", d)
        BY <1>9, <3>5, <4>1 DEF Proceeds, Waits
      <4> QED BY <3>5, <4>2 DEF d
    <3>6. CASE pc = "puback" /\ Goes("receive", [s.c EXCEPT !.fail_count = 0], s.out, in)
      <4> DEFINE d == [s.c EXCEPT !.fail_count = 0]
      <4>0. 0 \in 0 .. MaxFail
        BY ConstantsAssumption
      <4>1. d \in Client /\ d.handlers = client.handlers /\ d.isconnected = s.c.isconnected
        BY <1>9, <4>0 DEF Client
      <4> HIDE DEF d
      <4>2. Proceeds(p, "receive", d)
        BY <1>9, <3>6, <4>1 DEF Proceeds, Waits
      <4> QED BY <3>6, <4>2 DEF d
    <3> QED BY <3>1, <3>2, <3>3, <3>4, <3>5, <3>6 DEF Got
  <2> QED BY <2>1, <2>2
<1>11. Round(p, in, s)
  BY <1>1, <1>4, <1>5, <1>8, <1>9, <1>10 DEF Round
<1> QED BY <1>1, <1>3, <1>11

(* What is on its way when send_packet has sent p, in part or not at all.  *)
Sent(p, o) ==
  \/ o = toBroker
  \/ Len(toBroker) < Window /\ o \in {Append(toBroker, p), Append(toBroker, Packet("TORN", 0))}

(* A client that send_packet may have changed, and what is on its way.     *)
Asked(p, s) ==
  /\ s.c \in Client /\ s.c.handlers = client.handlers /\ s.c.isconnected = client.isconnected
  /\ Sent(p, s.out)

(* send_packet, as the commands of mqtt_task call it.                      *)
LEMMA CommandSends ==
  ASSUME Shape, NEW p, NEW sent \in mqttwrite(toBroker)
  PROVE  /\ Asked(p, send_packet([c |-> client, out |-> toBroker], p, sent))
         /\ sent = "all" => send_packet([c |-> client, out |-> toBroker], p, sent).out
                              = Append(toBroker, p)
<1> DEFINE s0 == [c |-> client, out |-> toBroker]
<1> DEFINE s == send_packet(s0, p, sent)
<1>0. client \in Client /\ toBroker \in Seq(Pkt) /\ Len(toBroker) \in Nat /\ Window \in Nat
  BY ConstantsAssumption DEF Shape, TypeOK, OutOK, Client
<1>1. sent # "none" => Len(toBroker) < Window
  BY <1>0 DEF mqttwrite, Full
<1>2. CASE sent = "all"
  <2> DEFINE d == [client EXCEPT !.ping_due = FALSE]
  <2>1. s.c = d /\ s.out = Append(toBroker, p)
    BY <1>2 DEF send_packet
  <2>2. d \in Client /\ d.handlers = client.handlers /\ d.isconnected = client.isconnected
    BY <1>0, Zenon DEF Client
  <2> HIDE DEF d, s
  <2> QED BY <1>1, <1>2, <2>1, <2>2 DEF Asked, Sent, s, s0
<1>3. CASE sent = "part"
  <2>1. s.c = client /\ s.out = Append(toBroker, Packet("TORN", 0))
    BY <1>3 DEF send_packet
  <2> HIDE DEF s
  <2> QED BY <1>0, <1>1, <1>3, <2>1 DEF Asked, Sent, s, s0
<1>4. CASE sent = "none"
  <2>1. s.c = client /\ s.out = toBroker
    BY <1>4 DEF send_packet
  <2> HIDE DEF s
  <2> QED BY <1>0, <1>4, <2>1 DEF Asked, Sent, s, s0
<1>5. sent \in {"all", "part", "none"}
  BY DEF mqttwrite
<1> QED BY <1>2, <1>3, <1>4, <1>5

(* mqtt_subscribe and mqtt_publish go on, with their packet sent or not.   *)
LEMMA RequestCases ==
  ASSUME Shape, NEW p, NEW wait, NEW failed, Request(p, wait, failed)
  PROVE  \E next, s : /\ next \in {wait, failed} /\ Asked(p, s)
                      /\ Goes(next, s.c, s.out, toClient)
<1>1. PICK sent \in mqttwrite(toBroker) :
        LET s == send_packet([c |-> client, out |-> toBroker], p, sent)
        IN  Goes(IF sent = "all" THEN wait ELSE failed, s.c, s.out, toClient)
  BY Zenon DEF Request
<1> DEFINE s == send_packet([c |-> client, out |-> toBroker], p, sent)
<1>2. Asked(p, s)
  BY CommandSends
<1>3. Goes(IF sent = "all" THEN wait ELSE failed, s.c, s.out, toClient)
  BY <1>1
<1> HIDE DEF s
<1> QED BY <1>2, <1>3, Zenon

(* mqtt_connect goes on to wait, or closes the connection.                 *)
LEMMA ConnectCases ==
  ASSUME Shape, mqtt_connect
  PROVE  \E s : /\ Asked(Packet("CONNECT", 0), s)
                /\ \/ /\ s.out = Append(toBroker, Packet("CONNECT", 0))
                      /\ Goes("connack", s.c, s.out, toClient)
                   \/ mqtt_network_disconnect(s)
<1>1. PICK sent \in mqttwrite(toBroker) :
        LET s == send_packet([c |-> client, out |-> toBroker], Packet("CONNECT", 0), sent)
        IN  IF sent = "all" THEN Goes("connack", s.c, s.out, toClient)
                            ELSE mqtt_network_disconnect(s)
  BY Zenon DEF mqtt_connect
<1> DEFINE s == send_packet([c |-> client, out |-> toBroker], Packet("CONNECT", 0), sent)
<1>2. Asked(Packet("CONNECT", 0), s)
      /\ (sent = "all" => s.out = Append(toBroker, Packet("CONNECT", 0)))
  BY CommandSends
<1>3. IF sent = "all" THEN Goes("connack", s.c, s.out, toClient) ELSE mqtt_network_disconnect(s)
  BY <1>1
<1> HIDE DEF s
<1> QED BY <1>2, <1>3, Zenon

(* The packets on their way stay what the client may send.                 *)
LEMMA SentOK ==
  ASSUME OutOK(toBroker), NEW p \in Pkt, p.type \in Requests,
         p.type = "PUBLISH" => p.n \in 0 .. MaxSamples, NEW o, Sent(p, o)
  PROVE  OutOK(o)
<1>1. Packet("TORN", 0) \in Pkt /\ Packet("TORN", 0).type = "TORN"
  BY DEF Packet, Pkt, Kinds, Requests
<1> QED BY <1>1, OutAppend DEF Sent, Requests

(* A step of mqtt_task within a session keeps the types.                   *)
LEMMA GoesShape ==
  ASSUME Shape, PubOK', RgbOK', pc \in Waits, NEW next \in Waits, NEW d \in Client,
         NEW o, OutOK(o), NEW in, InOK(in), Goes(next, d, o, in)
  PROVE  Shape'
<1>1. /\ pc' = next /\ client' = d /\ toBroker' = o /\ toClient' = in
      /\ UNCHANGED <<link, orphans, session, subscribed, sessions, colours, seen>>
  BY DEF Goes, brokerVars
<1>2. link # "none"
  BY DEF Shape, TypeOK, Waits
<1>3. \A q \in {toBroker', toClient'} : Len(q) <= Window /\ \A k \in DOMAIN q : q[k].n \in Nat \cup {Unread}
  BY <1>1, Numbered
<1>4. OutOK(toBroker') /\ InOK(toClient')
  BY <1>1
<1>5. TypeOK'
  <2>1. pc' \notin {"wifi", "tcp"} /\ link' # "none" /\ link' \in {"none", "up", "dead"}
        /\ pc' \in Waits \cup {"wifi", "tcp"}
    BY <1>1, <1>2 DEF Waits, Shape, TypeOK
  <2>2. (link' = "none") = (pc' \in {"wifi", "tcp"})
    BY <2>1
  <2>3. orphans' \subseteq 1 .. MaxSamples /\ seen' \subseteq 1 .. MaxSamples
        /\ session' \in BOOLEAN /\ subscribed' \in BOOLEAN
        /\ sessions' \in 0 .. MaxSessions /\ colours' \in 0 .. MaxColours
    BY <1>1 DEF Shape, TypeOK
  <2>4. client' \in Client
    BY <1>1
  <2> QED BY <1>3, <2>1, <2>2, <2>3, <2>4 DEF TypeOK, PubOK, RgbOK, Waits, Client
<1> QED BY <1>1, <1>2, <1>4, <1>5 DEF Shape, OutOK, InOK

(* The temperatures on their way are among those that were measured.       *)
LEMMA SamplesOK ==
  ASSUME NEW q, OutOK(q)
  PROVE  Samples(q) \subseteq 1 .. MaxSamples
<1>1. DOMAIN q = 1 .. Len(q)
  BY DEF OutOK
<1> QED BY <1>1 DEF Samples, OutOK

(* The end of a session keeps the types.                                   *)
LEMMA ClosesShape ==
  ASSUME Shape, PubOK', RgbOK', NEW s, s.c \in Client, OutOK(s.out), mqtt_network_disconnect(s)
  PROVE  Shape'
<1>1. /\ pc' = "wifi" /\ client' = s.c /\ link' = "none" /\ toBroker' = <<>> /\ toClient' = <<>>
      /\ orphans' = orphans \cup Samples(s.out) /\ session' = FALSE /\ subscribed' = FALSE
      /\ UNCHANGED <<sessions, colours, seen>>
  BY DEF mqtt_network_disconnect
<1>2. OutOK(toBroker') /\ InOK(toClient')
  BY <1>1, EmptyOK
<1>3. \A q \in {toBroker', toClient'} : Len(q) <= Window /\ \A k \in DOMAIN q : q[k].n \in Nat \cup {Unread}
  BY <1>2, Numbered
<1>4. orphans' \subseteq 1 .. MaxSamples
  BY <1>1, SamplesOK, Zenon DEF Shape, TypeOK
<1>5. TypeOK'
  BY <1>1, <1>3, <1>4, Zenon DEF Shape, TypeOK, PubOK, RgbOK, Client
<1> QED BY <1>1, <1>2, <1>5 DEF Shape, OutOK, InOK

(* A step of the other tasks.                                              *)
LEMMA OthersShape ==
  ASSUME Shape, PubOK', RgbOK',
         UNCHANGED <<pc, client, netVars, brokerVars>>
  PROVE  Shape'
<1>1. UNCHANGED <<pc, client, link, toBroker, toClient, orphans, session, subscribed, sessions,
                  colours, seen>>
  BY DEF netVars, brokerVars
<1>2. OutOK(toBroker)' /\ InOK(toClient)'
  BY <1>1 DEF Shape, OutOK, InOK
<1>3. TypeOK'
  BY <1>1 DEF Shape, TypeOK, PubOK, RgbOK
<1> QED BY <1>1, <1>2, <1>3 DEF Shape

(* mqtt_client_new.                                                        *)
LEMMA NewClient == mqtt_client_new \in Client /\ mqtt_client_new.handlers = 0
<1>1. 0 \in 0 .. MaxFail /\ 0 \in Nat
  BY ConstantsAssumption
<1> QED BY <1>1 DEF mqtt_client_new, Client

(* The types hold at the start.                                            *)
LEMMA InitShape == Init => Shape
<1> SUFFICES ASSUME Init PROVE Shape
  OBVIOUS
<1>1. OutOK(toBroker) /\ InOK(toClient)
  BY EmptyOK DEF Init
<1>2. \A q \in {toBroker, toClient} : Len(q) <= Window /\ \A k \in DOMAIN q : q[k].n \in Nat \cup {Unread}
  BY <1>1, Numbered
<1>3. client \in Client
  BY NewClient DEF Init
<1>4. TypeOK
  <2>1. <<>> \in Seq(0 .. MaxSamples) /\ <<>> \in Seq(0 .. MaxColours) /\ Len(<<>>) = 0
    OBVIOUS
  <2>2. 0 \in 0 .. MaxSamples /\ 0 \in 0 .. MaxColours /\ 0 \in 0 .. MaxSessions
        /\ 0 <= PubLength /\ 0 <= RgbLength
    BY ConstantsAssumption
  <2>3. (link = "none") = (pc \in {"wifi", "tcp"})
    BY DEF Init
  <2> QED BY <1>2, <1>3, <2>1, <2>2, <2>3, Zenon DEF Init, TypeOK, Client
<1> QED BY <1>1, <1>4 DEF Init, Shape

(* temp_pub_task offers the next number, or 0.                             *)
LEMMA TempCases ==
  ASSUME sample \in 0 .. MaxSamples, temp_pub_task
  PROVE  /\ UNCHANGED <<msg, mark, pc, client, netVars, brokerVars, rgbVars>>
         /\ \E n \in 0 .. MaxSamples :
              /\ (n = 0 /\ sample' = sample) \/ (n = sample + 1 /\ sample' = sample + 1)
              /\ sample' \in 0 .. MaxSamples
              /\ \/ Len(publish_queue) < PubLength /\ publish_queue' = Append(publish_queue, n)
                 \/ UNCHANGED publish_queue
<1> DEFINE n == IF InBounds(sample + 1, colours) THEN sample + 1 ELSE 0
<1>1. /\ sample' = IF n = 0 THEN sample ELSE n
      /\ PubQueue!SendToBack(n) \/ UNCHANGED <<publish_queue, msg>>
      /\ UNCHANGED <<pc, client, netVars, brokerVars, mark, rgbVars>>
  BY DEF temp_pub_task
<1>2. n \in 0 .. MaxSamples /\ n \in {0, sample + 1}
  BY ConstantsAssumption DEF InBounds
<1> HIDE DEF n
<1>3. /\ (n = 0 /\ sample' = sample) \/ (n = sample + 1 /\ sample' = sample + 1)
      /\ sample' \in 0 .. MaxSamples
  BY <1>1, <1>2
<1>4. /\ UNCHANGED msg
      /\ \/ Len(publish_queue) < PubLength /\ publish_queue' = Append(publish_queue, n)
         \/ UNCHANGED publish_queue
  BY <1>1 DEF PubQueue!SendToBack, PubQueue!Room
<1> QED BY <1>1, <1>2, <1>3, <1>4

(* Every step keeps the types, and the number of packets on their way      *)
(* within the window.                                                      *)
LEMMA NextShape == Shape /\ [Next]_vars => Shape'
<1> SUFFICES ASSUME Shape, [Next]_vars PROVE Shape'
  OBVIOUS
<1> USE DEF pubVars, netVars, brokerVars, rgbVars
<1>0. /\ PubOK /\ RgbOK /\ client \in Client /\ OutOK(toBroker) /\ InOK(toClient)
      /\ client.handlers \in Nat /\ (link = "none") = (pc \in {"wifi", "tcp"})
      /\ \A q \in {toBroker, toClient} : Len(q) <= Window /\ \A k \in DOMAIN q : q[k].n \in Nat \cup {Unread}
  BY DEF Shape, TypeOK, PubOK, RgbOK, Client
<1>s. ASSUME UNCHANGED <<pubVars, msg, mark>> PROVE PubOK'
  BY <1>0, <1>s DEF PubOK
<1>r. ASSUME UNCHANGED rgbVars PROVE RgbOK'
  BY <1>0, <1>r DEF RgbOK
<1>1. CASE temp_pub_task
  <2>1. PICK n \in 0 .. MaxSamples :
          /\ sample' \in 0 .. MaxSamples
          /\ UNCHANGED <<msg, mark>>
          /\ \/ Len(publish_queue) < PubLength /\ publish_queue' = Append(publish_queue, n)
             \/ UNCHANGED publish_queue
    BY <1>0, <1>1, TempCases DEF PubOK
  <2>5. RgbOK' /\ UNCHANGED <<pc, client, netVars, brokerVars>>
    BY <1>1, <1>r DEF temp_pub_task
  <2>3. CASE Len(publish_queue) < PubLength /\ publish_queue' = Append(publish_queue, n)
    <3>1. publish_queue' \in Seq(0 .. MaxSamples) /\ Len(publish_queue') = Len(publish_queue) + 1
          /\ Len(publish_queue) \in Nat
      BY <1>0, <2>3, AppendAt DEF PubOK
    <3>2. Len(publish_queue') <= PubLength
      BY <2>3, <3>1, ConstantsAssumption
    <3>3. PubOK'
      BY <1>0, <2>1, <3>1, <3>2 DEF PubOK
    <3> QED BY <2>5, <3>3, OthersShape
  <2>4. CASE UNCHANGED publish_queue
    <3>1. PubOK'
      BY <1>0, <2>1, <2>4 DEF PubOK
    <3> QED BY <2>5, <3>1, OthersShape
  <2> QED BY <2>1, <2>3, <2>4
<1>2. CASE colorLock
  <2>1. /\ rgbRxQueue # <<>> /\ cur_color' = Head(rgbRxQueue) /\ rgbRxQueue' = Tail(rgbRxQueue)
        /\ UNCHANGED <<pubVars, msg, pc, client, netVars, brokerVars, mark>>
    BY <1>2 DEF colorLock, RgbQueue!Receive
  <2>2. /\ Head(rgbRxQueue) \in 0 .. MaxColours /\ Tail(rgbRxQueue) \in Seq(0 .. MaxColours)
        /\ Len(rgbRxQueue) \in Nat /\ Len(Tail(rgbRxQueue)) = Len(rgbRxQueue) - 1
    BY <1>0, <2>1, TailAt, Zenon DEF RgbOK
  <2>3. cur_color' \in 0 .. MaxColours /\ Len(rgbRxQueue') <= RgbLength
    BY <1>0, <2>1, <2>2, ConstantsAssumption DEF RgbOK
  <2>4. PubOK' /\ RgbOK'
    BY <1>s, <2>1, <2>2, <2>3 DEF RgbOK
  <2> QED BY <2>1, <2>4, OthersShape DEF Shape
<1>3. CASE Commands
  <2>1. RgbOK'
    BY <1>3, <1>r DEF Commands
  <2>2. CASE xSemaphoreTake
    BY <1>0, <1>3, <2>2 DEF Commands, xSemaphoreTake, Shape, TypeOK, OutOK, InOK
  <2>3. CASE mqtt_network_connect
    <3>0. mqtt_client_new \in Client
      BY NewClient
    <3>1. pc = "tcp" /\ UNCHANGED <<toBroker, toClient, orphans, session, subscribed, colours,
                                    seen, sample, publish_queue, msg, mark, rgbVars>>
      BY <1>3, <2>3 DEF Commands, mqtt_network_connect
    <3>2. /\ pc' \in {"wifi", "connect"} /\ link' \in {"none", "up"} /\ client' \in Client
          /\ sessions' \in 0 .. MaxSessions /\ (link' = "none") = (pc' \in {"wifi", "tcp"})
      <4>1. CASE /\ sessions < MaxSessions /\ sessions' = sessions + 1
                 /\ link' = "up" /\ pc' = "connect" /\ client' = mqtt_client_new
        <5>1. sessions' \in 0 .. MaxSessions
          <6>1. sessions \in 0 .. MaxSessions
            BY DEF Shape, TypeOK
          <6> QED BY <4>1, <6>1, ConstantsAssumption
        <5> QED BY <3>0, <4>1, <5>1
      <4>2. CASE pc' = "wifi" /\ UNCHANGED <<sessions, link, client>>
        BY <1>0, <3>1, <4>2 DEF Shape, TypeOK
      <4> QED BY <2>3, <4>1, <4>2 DEF mqtt_network_connect
    <3>3. TypeOK'
      BY <3>1, <3>2 DEF Shape, TypeOK, Client
    <3> QED BY <1>0, <3>1, <3>2, <3>3 DEF Shape, OutOK, InOK
  <2>4. CASE mqtt_connect
    <3>1. PubOK' /\ pc = "connect"
      BY <1>s, <2>4 DEF mqtt_connect
    <3>2. Packet("CONNECT", 0) \in Pkt /\ Packet("CONNECT", 0).type = "CONNECT"
      BY DEF Packet, Pkt, Kinds, Requests
    <3>3. PICK s : /\ Asked(Packet("CONNECT", 0), s)
                   /\ Goes("connack", s.c, s.out, toClient) \/ mqtt_network_disconnect(s)
      BY <2>4, ConnectCases
    <3>4. s.c \in Client /\ OutOK(s.out)
      BY <1>0, <3>2, <3>3, SentOK DEF Asked, Requests
    <3>5. CASE Goes("connack", s.c, s.out, toClient)
      BY <1>0, <2>1, <3>1, <3>4, <3>5, GoesShape DEF Waits
    <3>6. CASE mqtt_network_disconnect(s)
      BY <2>1, <3>1, <3>4, <3>6, ClosesShape
    <3> QED BY <3>3, <3>5, <3>6
  <2>5. CASE mqtt_subscribe
    <3>1. PubOK' /\ pc = "subscribe"
      BY <1>s, <2>5 DEF mqtt_subscribe
    <3>2. Packet("SUBSCRIBE", 0) \in Pkt /\ Packet("SUBSCRIBE", 0).type = "SUBSCRIBE"
      BY DEF Packet, Pkt, Kinds, Requests
    <3>3. PICK next, s : next \in {"suback", "reset"} /\
            Asked(Packet("SUBSCRIBE", 0), s) /\ Goes(next, s.c, s.out, toClient)
      BY <2>5, RequestCases DEF mqtt_subscribe
    <3>4. s.c \in Client /\ OutOK(s.out)
      BY <1>0, <3>2, <3>3, SentOK DEF Asked, Requests
    <3> QED BY <1>0, <2>1, <3>1, <3>3, <3>4, GoesShape DEF Waits
  <2>6. CASE xQueueReset
    <3>1. PubOK'
      <4>1. <<>> \in Seq(0 .. MaxSamples) /\ Len(<<>>) = 0
        OBVIOUS
      <4> QED BY <1>0, <2>6, <4>1, ConstantsAssumption DEF xQueueReset, PubQueue!Reset, PubOK
    <3> QED BY <1>0, <2>1, <2>6, <3>1, GoesShape DEF xQueueReset, Waits
  <2>7. CASE xQueueReceive
    <3>1. PubOK'
      <4>1. CASE PubQueue!Receive
        <5>1. publish_queue # <<>> /\ msg' = Head(publish_queue) /\ publish_queue' = Tail(publish_queue)
          BY <4>1 DEF PubQueue!Receive
        <5>2. /\ Head(publish_queue) \in 0 .. MaxSamples /\ Tail(publish_queue) \in Seq(0 .. MaxSamples)
              /\ Len(publish_queue) \in Nat /\ Len(Tail(publish_queue)) = Len(publish_queue) - 1
          BY <1>0, <5>1, TailAt, Zenon DEF PubOK
        <5>3. msg' \in 0 .. MaxSamples /\ Len(publish_queue') <= PubLength
          <6>1. Len(publish_queue) <= PubLength /\ PubLength \in Nat
            BY <1>0, ConstantsAssumption DEF PubOK
          <6> QED BY <5>1, <5>2, <6>1
        <5> QED BY <1>0, <2>7, <5>1, <5>2, <5>3, Zenon DEF xQueueReceive, PubOK
      <4>2. CASE UNCHANGED <<publish_queue, msg>>
        BY <1>0, <2>7, <4>2 DEF xQueueReceive, PubOK
      <4> QED BY <2>7, <4>1, <4>2 DEF xQueueReceive
    <3>2. \E next \in Waits : Goes(next, client, toBroker, toClient)
      BY <2>7 DEF xQueueReceive, Waits
    <3> QED BY <1>0, <2>1, <2>7, <3>1, <3>2, GoesShape DEF xQueueReceive, Waits
  <2>8. CASE mqtt_publish
    <3>1. PubOK' /\ pc = "publish"
      BY <1>0, <2>8, ConstantsAssumption DEF mqtt_publish, PubOK
    <3>2. CASE Request(Packet("PUBLISH", msg), "puback", "yield")
      <4>1. Packet("PUBLISH", msg) \in Pkt /\ Packet("PUBLISH", msg).type = "PUBLISH"
            /\ Packet("PUBLISH", msg).n \in 0 .. MaxSamples
        <5>1. msg \in Nat /\ msg \in 0 .. MaxSamples
          BY <1>0 DEF PubOK
        <5> QED BY <5>1 DEF Packet, Pkt, Kinds, Requests
      <4>2. PICK next, s : next \in {"puback", "yield"} /\
              Asked(Packet("PUBLISH", msg), s) /\ Goes(next, s.c, s.out, toClient)
        BY <3>2, RequestCases
      <4>3. s.c \in Client /\ OutOK(s.out)
        BY <1>0, <4>1, <4>2, SentOK DEF Asked, Requests
      <4> QED BY <1>0, <2>1, <3>1, <4>2, <4>3, GoesShape DEF Waits
    <3>3. CASE Goes("yield", client, toBroker, toClient)
      BY <1>0, <2>1, <3>1, <3>3, GoesShape DEF Waits
    <3> QED BY <2>8, <3>2, <3>3 DEF mqtt_publish
  <2> QED BY <1>3, <2>2, <2>3, <2>4, <2>5, <2>6, <2>7, <2>8 DEF Commands
<1>4. CASE waitfor
  <2>1. pc \in {"connack", "suback", "puback", "yield"} /\ UNCHANGED <<pubVars, msg, mark>>
    BY <1>4, WaitforCases
  <2>2. PICK p, in, s : Round(p, in, s)
    BY <1>4, WaitforCases
  <2>3. PubOK' /\ RgbOK' /\ OutOK(s.out)
    BY <1>0, <1>s, <2>1, <2>2, Delivered, OutExtended DEF Round
  <2>4. CASE mqtt_network_disconnect(s)
    BY <2>2, <2>3, <2>4, ClosesShape DEF Round
  <2>5. ASSUME NEW next, NEW d, Proceeds(p, next, d), Goes(next, d, s.out, in)
        PROVE  Shape'
    <3>1. next \in Waits /\ d \in Client /\ pc \in Waits
      BY <2>1, <2>5 DEF Proceeds, Waits
    <3> QED BY <2>2, <2>3, <2>5, <3>1, GoesShape DEF Round
  <2> QED BY <2>2, <2>4, <2>5 DEF Round
<1>5. CASE TimedOut
  <2>1. PubOK' /\ RgbOK' /\ pc \in Waits
    BY <1>5, <1>s, <1>r DEF TimedOut, Waits, Awaited
  <2>2. CASE mqtt_network_disconnect([c |-> client, out |-> toBroker])
    BY <1>0, <2>1, <2>2, ClosesShape
  <2>3. ASSUME NEW next \in {"reset", "yield", "receive"}, Goes(next, client, toBroker, toClient)
        PROVE  Shape'
    BY <1>0, <2>1, <2>3, GoesShape DEF Waits
  <2> QED BY <1>5, <2>2, <2>3 DEF TimedOut
<1>6. CASE PingTimer
  <2>1. client' \in Client
    BY <1>0, <1>6, Zenon DEF PingTimer, Client
  <2> QED BY <1>0, <1>6, <2>1 DEF PingTimer, Shape, TypeOK, OutOK, InOK, Client
<1>7. CASE BrokerReads
  <2> DEFINE p == Head(toBroker)
  <2>1. /\ link = "up" /\ toBroker # <<>> /\ toBroker' = Tail(toBroker)
        /\ UNCHANGED <<pubVars, msg, pc, client, link, orphans, sessions, colours, mark, rgbVars>>
        /\ seen' = IF p.type = "PUBLISH" THEN seen \cup ({p.n} \ {0}) ELSE seen
    BY <1>7 DEF BrokerReads
  <2>2. OutOK(toBroker') /\ p \in Pkt /\ p = toBroker[1] /\ 1 \in 1 .. Len(toBroker)
    BY <1>0, <2>1, OutTail, TailAt DEF OutOK
  <2>3. seen' \subseteq 1 .. MaxSamples
    <3>1. p.type = "PUBLISH" => p.n \in 0 .. MaxSamples
      BY <1>0, <2>2 DEF OutOK
    <3>2. p.type = "PUBLISH" => {p.n} \ {0} \subseteq 1 .. MaxSamples
      BY <3>1
    <3> QED BY <2>1, <3>2, Zenon DEF Shape, TypeOK
  <2>4. InOK(toClient') /\ session' \in BOOLEAN /\ subscribed' \in BOOLEAN
    <3>1. CASE UNCHANGED <<toClient, session, subscribed>>
      BY <1>0, <3>1 DEF Shape, TypeOK
    <3>2. CASE p.type # "PUBACK" /\ ~UNCHANGED <<toClient, session, subscribed>>
      <4>1. PICK a \in Answers(p) :
              /\ Len(toClient) < Window /\ toClient' = Append(toClient, a) /\ p.type # "TORN"
              /\ session' = (session \/ a = Packet("CONNACK", 0))
              /\ subscribed' = (subscribed \/ a = Packet("SUBACK", 0))
        BY <1>7, <3>2 DEF BrokerReads
      <4>2. a \in Pkt /\ a.type \notin Colour
        <5>1. p.type \in Requests
          BY <1>0, <2>2 DEF OutOK
        <5> QED BY <3>2, <4>1, <5>1 DEF Answers, Requests, Packet, Pkt, Kinds, Colour
      <4>3. InOK(toClient')
        BY <1>0, <4>1, <4>2, InAppend
      <4>4. session' \in BOOLEAN /\ subscribed' \in BOOLEAN
        BY <4>1
      <4> QED BY <4>3, <4>4
    <3> QED BY <1>7, <3>1, <3>2 DEF BrokerReads
  <2>5. \A q \in {toBroker', toClient'} : Len(q) <= Window /\ \A k \in DOMAIN q : q[k].n \in Nat \cup {Unread}
    BY <2>2, <2>4, Numbered
  <2>6. TypeOK'
    BY <2>1, <2>3, <2>4, <2>5 DEF Shape, TypeOK
  <2> QED BY <2>1, <2>2, <2>4, <2>6 DEF Shape, OutOK, InOK
<1>8. CASE OrphanArrives
  <2>1. UNCHANGED <<pubVars, msg, mark, pc, client, link, toBroker, toClient, session, subscribed,
                    sessions, colours, rgbVars>>
    BY <1>8 DEF OrphanArrives
  <2>2. orphans' \subseteq 1 .. MaxSamples /\ seen' \subseteq 1 .. MaxSamples
    BY <1>8 DEF OrphanArrives, Shape, TypeOK
  <2>3. TypeOK'
    BY <2>1, <2>2, ZenonT(20) DEF Shape, TypeOK
  <2> QED BY <2>1, <2>3 DEF Shape, OutOK, InOK
<1>9. CASE BrokerPublishes
  <2>1. PICK type \in {"PUBLISH0", "PUBLISH"} :
          toClient' = Append(toClient, Packet(type, colours + 1))
    BY <1>9 DEF BrokerPublishes
  <2>2. colours + 1 \in 1 .. MaxColours /\ colours' = colours + 1
    <3>1. colours \in 0 .. MaxColours /\ colours + 1 <= MaxColours /\ colours' = colours + 1
      BY <1>9 DEF BrokerPublishes, InBounds, Shape, TypeOK
    <3> QED BY <3>1, ConstantsAssumption
  <2>3. Packet(type, colours + 1) \in Pkt /\ Packet(type, colours + 1).n = colours + 1
    BY <2>2 DEF Packet, Pkt, Kinds, Colour
  <2>4. InOK(toClient')
    BY <1>0, <1>9, <2>1, <2>2, <2>3, InAppend DEF BrokerPublishes, Numbers
  <2>5. \A q \in {toBroker', toClient'} : Len(q) <= Window /\ \A k \in DOMAIN q : q[k].n \in Nat \cup {Unread}
    BY <1>0, <1>9, <2>4, Numbered, Zenon DEF BrokerPublishes
  <2>6. TypeOK'
    <3>1. UNCHANGED <<pubVars, msg, pc, client, link, orphans, session, subscribed, sessions,
                      seen, mark, rgbVars>>
      BY <1>9 DEF BrokerPublishes
    <3>2. colours' \in 0 .. MaxColours
      BY <2>2
    <3> QED BY <2>5, <3>1, <3>2, ZenonT(20) DEF Shape, TypeOK
  <2> QED BY <1>0, <1>9, <2>4, <2>6 DEF BrokerPublishes, Shape, OutOK, InOK
<1>10. CASE LinkDies
  <2>1. Torn(toClient, toClient')
    BY <1>0, <1>10, LinkDiesTorn DEF InOK
  <2>2. InOK(toClient')
    BY <1>0, <2>1, InTorn
  <2>3. \A q \in {toBroker', toClient'} : Len(q) <= Window /\ \A k \in DOMAIN q : q[k].n \in Nat \cup {Unread}
    BY <1>0, <1>10, <2>2, Numbered DEF LinkDies
  <2>4. TypeOK'
    BY <1>10, <2>3 DEF LinkDies, Shape, TypeOK
  <2> QED BY <1>0, <1>10, <2>2, <2>4 DEF LinkDies, Shape, OutOK, InOK
<1>11. CASE UNCHANGED vars
  <2>1. PubOK' /\ RgbOK'
    BY <1>11, <1>s, <1>r DEF vars
  <2> QED BY <1>11, <2>1, OthersShape DEF vars, Shape
<1> QED BY <1>1, <1>2, <1>3, <1>4, <1>5, <1>6, <1>7, <1>8, <1>9, <1>10, <1>11
     DEF Next, mqtt_task

(* The type invariant of the tasks, the client and the connection.         *)
THEOREM MqttTypeCorrect == Spec => []TypeOK
<1>1. Shape => TypeOK
  BY DEF Shape
<1> QED BY <1>1, InitShape, NextShape, PTL DEF Spec
=============================================================================
