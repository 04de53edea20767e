-------------------------- MODULE MqttSessionProofs -------------------------
(***************************************************************************)
(* What a session of examples/cpe439 with the broker begins with, the      *)
(* colours it brings, and the temperatures on their way to the broker.     *)
(***************************************************************************)
EXTENDS MqttProofs

(* Accepted first.                                                         *)

(* Whatever is possible only in an accepted session: to be past mqtt_connect, *)
(* to take oneself for connected, to be subscribed, to be sent the         *)
(* acceptance or a colour to acknowledge.                                  *)
Accepted ==
  /\ link # "none" /\ client.isconnected => session
  /\ pc \notin {"wifi", "tcp", "connect", "connack"} => session
  /\ subscribed => session
  /\ \A k \in 1 .. Len(toClient) :
       toClient[k] = Packet("CONNACK", 0) \/ toClient[k].type = "PUBLISH" => session
  /\ AcceptedFirst

(* A step of mqtt_task within a session that the broker accepted, or       *)
(* before it sends anything but CONNECT.                                   *)
LEMMA GoesAccepted ==
  ASSUME Accepted, NEW next, NEW d, NEW o, NEW in, Goes(next, d, o, in),
         ~session =>
           /\ next \in {"connect", "connack"} /\ ~d.isconnected
           /\ \A k \in 1 .. Len(in) : in[k] # Packet("CONNACK", 0) /\ in[k].type # "PUBLISH"
           /\ \A k \in DOMAIN o : o[k].type = "CONNECT"
  PROVE  Accepted'
<1>1. /\ pc' = next /\ client' = d /\ toBroker' = o /\ toClient' = in
      /\ UNCHANGED <<link, session, subscribed>>
  BY DEF Goes, brokerVars
<1>2. CASE session
  BY <1>1, <1>2 DEF Accepted, AcceptedFirst
<1>3. CASE ~session
  BY <1>1, <1>3 DEF Accepted, AcceptedFirst
<1> QED BY <1>2, <1>3

(* When the session ends nothing is on its way.                            *)
LEMMA ClosesAccepted == ASSUME NEW s, mqtt_network_disconnect(s) PROVE Accepted'
<1>1. pc' = "wifi" /\ link' = "none" /\ toBroker' = <<>> /\ toClient' = <<>> /\ subscribed' = FALSE
  BY DEF mqtt_network_disconnect
<1>2. DOMAIN <<>> = {} /\ 1 .. Len(<<>>) = {}
  OBVIOUS
<1> QED BY <1>1, <1>2 DEF Accepted, AcceptedFirst

(* Nor is anything at the start.                                           *)
LEMMA InitAccepted == Init => Accepted
<1>1. DOMAIN <<>> = {} /\ 1 .. Len(<<>>) = {}
  OBVIOUS
<1> QED BY <1>1 DEF Init, Accepted, AcceptedFirst

(* No step goes past mqtt_connect without the acceptance.                  *)
LEMMA NextAccepted == Shape /\ Accepted /\ [Next]_vars => Accepted'
<1> SUFFICES ASSUME Shape, Accepted, [Next]_vars PROVE Accepted'
  OBVIOUS
<1> USE DEF pubVars, netVars, brokerVars, rgbVars
<1>0. /\ toBroker \in Seq(Pkt) /\ toClient \in Seq(Pkt) /\ (link = "none") = (pc \in {"wifi", "tcp"})
      /\ DOMAIN toBroker = 1 .. Len(toBroker) /\ Len(toBroker) \in Nat /\ Len(toClient) \in Nat
      /\ session \in BOOLEAN /\ client.isconnected \in BOOLEAN
  BY DEF Shape, TypeOK, OutOK, InOK
<1>u. ASSUME UNCHANGED <<pc, client, link, toBroker, toClient, session, subscribed>> PROVE Accepted'
  BY <1>u DEF Accepted, AcceptedFirst
<1>g. ASSUME pc \notin {"wifi", "tcp"}, NEW next, Goes(next, client, toBroker, toClient),
             pc \notin {"connect", "connack"}
      PROVE  Accepted'
  BY <1>g, GoesAccepted DEF Accepted
<1>1. CASE temp_pub_task \/ colorLock \/ OrphanArrives \/ UNCHANGED vars
  BY <1>1, <1>u DEF temp_pub_task, colorLock, OrphanArrives, vars
<1>2. CASE Commands
  <2>1. CASE xSemaphoreTake
    BY <2>1 DEF xSemaphoreTake, Accepted, AcceptedFirst
  <2>2. CASE mqtt_network_connect
    <3>1. pc = "tcp" /\ UNCHANGED <<toBroker, toClient, session, subscribed>>
          /\ pc' \in {"wifi", "connect"}
          /\ ((client' = mqtt_client_new) \/ (link' = link))
      BY <2>2 DEF mqtt_network_connect
    <3>2. link = "none" /\ ~mqtt_client_new.isconnected
      BY <1>0, <3>1 DEF mqtt_client_new
    <3> QED BY <3>1, <3>2 DEF Accepted, AcceptedFirst
  <2>3. CASE mqtt_connect
    <3> DEFINE p == Packet("CONNECT", 0)
    <3>1. PICK s : /\ Asked(p, s)
                   /\ \/ s.out = Append(toBroker, p) /\ Goes("connack", s.c, s.out, toClient)
                      \/ mqtt_network_disconnect(s)
      BY <2>3, ConnectCases
    <3>2. CASE mqtt_network_disconnect(s)
      BY <3>2, ClosesAccepted
    <3>3. CASE s.out = Append(toBroker, p) /\ Goes("connack", s.c, s.out, toClient)
      <4> DEFINE o == s.out
      <4>1. p \in Pkt /\ p.type = "CONNECT"
        BY DEF Packet, Pkt, Kinds, Requests
      <4>2. o \in Seq(Pkt) /\ \A k \in 1 .. Len(o) :
              o[k].type = "CONNECT" \/ (k \in 1 .. Len(toBroker) /\ o[k] = toBroker[k])
        BY <1>0, <3>3, <4>1, AppendAt
      <4> HIDE DEF o
      <4>3. ~session => \A k \in DOMAIN o : o[k].type = "CONNECT"
        BY <1>0, <4>2 DEF Accepted, AcceptedFirst
      <4>4. link # "none" /\ s.c.isconnected = client.isconnected
        BY <1>0, <2>3, <3>1 DEF mqtt_connect, Asked
      <4>5. ~session => ~s.c.isconnected /\ \A k \in 1 .. Len(toClient) :
              toClient[k] # Packet("CONNACK", 0) /\ toClient[k].type # "PUBLISH"
        BY <4>4 DEF Accepted
      <4>6. Goes("connack", s.c, o, toClient)
        BY <3>3 DEF o
      <4> QED BY <4>3, <4>5, <4>6, GoesAccepted
    <3> QED BY <3>1, <3>2, <3>3
  <2>4. ASSUME NEW p, NEW wait, NEW failed, Request(p, wait, failed),
               pc \notin {"wifi", "tcp", "connect", "connack"}
        PROVE  Accepted'
    <3>1. PICK next, s : Goes(next, s.c, s.out, toClient)
      BY <2>4, RequestCases
    <3> QED BY <2>4, <3>1, GoesAccepted DEF Accepted
  <2>5. CASE mqtt_subscribe
    BY <2>4, <2>5 DEF mqtt_subscribe
  <2>6. CASE xQueueReset \/ xQueueReceive
    BY <1>g, <2>6 DEF xQueueReset, xQueueReceive
  <2>7. CASE mqtt_publish
    BY <1>g, <2>4, <2>7 DEF mqtt_publish
  <2> QED BY <1>2, <2>1, <2>2, <2>3, <2>5, <2>6, <2>7 DEF Commands
<1>3. CASE waitfor
  <2>1. pc \in {"connack", "suback", "puback", "yield"}
    BY <1>3, WaitforCases
  <2>2. PICK p, in, s : Round(p, in, s)
    BY <1>3, WaitforCases
  <2>3. CASE mqtt_network_disconnect(s)
    BY <2>3, ClosesAccepted
  <2>4. ASSUME NEW next, NEW d, Proceeds(p, next, d), Goes(next, d, s.out, in)
        PROVE  Accepted'
    <3>1. CASE session
      BY <2>4, <3>1, GoesAccepted
    <3>2. CASE ~session
      <4>1. pc = "connack" /\ ~client.isconnected
        BY <1>0, <2>1, <3>2 DEF Accepted
      <4>2. p # Packet("CONNACK", 0) /\ p.type # "PUBLISH"
            /\ \A k \in 1 .. Len(in) : in[k] # Packet("CONNACK", 0) /\ in[k].type # "PUBLISH"
        <5>1. CASE toClient = <<>>
          <6>1. in = <<>> /\ p = Packet("NOTHING", 0) /\ 1 .. Len(<<>>) = {}
            BY <2>2, <5>1 DEF Round, Read
          <6> QED BY <6>1 DEF Packet
        <5>2. CASE toClient # <<>>
          <6>1. in = Tail(toClient) /\ p = Head(toClient)
            BY <2>2, <5>2 DEF Round, Read
          <6>2. p = toClient[1] /\ 1 \in 1 .. Len(toClient)
                /\ \A k \in 1 .. Len(in) : k + 1 \in 1 .. Len(toClient) /\ in[k] = toClient[k + 1]
            BY <1>0, <5>2, <6>1, TailAt
          <6> QED BY <3>2, <6>2 DEF Accepted
        <5> QED BY <5>1, <5>2
      <4>3. next = "connack" /\ ~d.isconnected
        BY <2>4, <4>1, <4>2 DEF Proceeds
      <4>4. s.out = toBroker
        BY <2>2, <4>1, <4>2 DEF Round
      <4>5. \A k \in DOMAIN toBroker : toBroker[k].type = "CONNECT"
        BY <3>2 DEF Accepted, AcceptedFirst
      <4> QED BY <2>4, <4>2, <4>3, <4>4, <4>5, GoesAccepted
    <3> QED BY <3>1, <3>2
  <2> QED BY <2>2, <2>3, <2>4 DEF Round
<1>4. CASE TimedOut
  <2>1. CASE mqtt_network_disconnect([c |-> client, out |-> toBroker])
    BY <2>1, ClosesAccepted
  <2> QED BY <1>4, <1>g, <2>1 DEF TimedOut
<1>5. CASE PingTimer
  <2>1. client'.isconnected = client.isconnected
    BY <1>5 DEF PingTimer, Shape, TypeOK
  <2> QED BY <1>5, <2>1 DEF PingTimer, Accepted, AcceptedFirst
<1>6. CASE BrokerReads
  <2> DEFINE p == Head(toBroker)
  <2>1. /\ toBroker # <<>> /\ toBroker' = Tail(toBroker) /\ UNCHANGED <<pc, client, link>>
        /\ \/ UNCHANGED <<toClient, session, subscribed>>
           \/ \E a \in Answers(p) : /\ toClient' = Append(toClient, a)
                                    /\ session' = (session \/ a = Packet("CONNACK", 0))
                                    /\ subscribed' = (subscribed \/ a = Packet("SUBACK", 0))
    BY <1>6 DEF BrokerReads
  <2>2. /\ p = toBroker[1] /\ 1 \in 1 .. Len(toBroker) /\ toBroker' \in Seq(Pkt)
        /\ \A k \in 1 .. Len(toBroker') : k + 1 \in 1 .. Len(toBroker) /\ toBroker'[k] = toBroker[k + 1]
        /\ DOMAIN toBroker' = 1 .. Len(toBroker')
    BY <1>0, <2>1, TailAt
  <2>3. session => session'
    BY <2>1, Zenon
  <2>4. AcceptedFirst'
    BY <1>0, <2>2, <2>3 DEF Accepted, AcceptedFirst
  <2>5. CASE UNCHANGED <<toClient, session, subscribed>>
    BY <2>1, <2>4, <2>5 DEF Accepted
  <2>6. ASSUME NEW a \in Answers(p), toClient' = Append(toClient, a),
               session' = (session \/ a = Packet("CONNACK", 0)),
               subscribed' = (subscribed \/ a = Packet("SUBACK", 0))
        PROVE  Accepted'
    <3>1. CASE session'
      BY <2>4, <3>1 DEF Accepted
    <3>2. CASE ~session'
      <4>1. ~session /\ a # Packet("CONNACK", 0)
        BY <2>6, <3>2, Zenon
      <4>2. p.type = "CONNECT"
        BY <1>0, <2>2, <4>1 DEF Accepted, AcceptedFirst
      <4>3. a = Packet("CONNACK", 1)
        BY <2>6, <4>1, <4>2 DEF Answers
      <4>4. a \in Pkt /\ a.type = "CONNACK" /\ a # Packet("SUBACK", 0)
        BY <4>3 DEF Packet, Pkt, Kinds
      <4>5. \A k \in 1 .. Len(toClient') :
              toClient'[k] # Packet("CONNACK", 0) /\ toClient'[k].type # "PUBLISH"
        <5>1. \A k \in 1 .. Len(toClient') :
                (k \in 1 .. Len(toClient) /\ toClient'[k] = toClient[k]) \/ toClient'[k] = a
          BY <1>0, <2>6, <4>4, AppendAt
        <5> QED BY <4>1, <4>4, <5>1 DEF Accepted
      <4> QED BY <2>1, <2>4, <2>6, <3>2, <4>1, <4>4, <4>5 DEF Accepted
    <3> QED BY <3>1, <3>2
  <2> QED BY <2>1, <2>5, <2>6
<1>7. CASE BrokerPublishes
  <2>1. session
    BY <1>7 DEF BrokerPublishes, Accepted
  <2> QED BY <1>7, <2>1 DEF BrokerPublishes, Accepted, AcceptedFirst
<1>8. CASE LinkDies
  <2>1. Torn(toClient, toClient')
    BY <1>0, <1>8, LinkDiesTorn
  <2>2. ASSUME NEW k \in 1 .. Len(toClient'),
               toClient'[k] = Packet("CONNACK", 0) \/ toClient'[k].type = "PUBLISH"
        PROVE  session
    <3>1. k \in 1 .. Len(toClient)
          /\ (toClient'[k] = toClient[k] \/ toClient[k].type = "PUBLISH")
      BY <1>0, <2>1, <2>2 DEF Torn, Packet, Unread
    <3> QED BY <2>2, <3>1 DEF Accepted
  <2> QED BY <1>0, <1>8, <2>2 DEF LinkDies, Accepted, AcceptedFirst
<1> QED BY <1>1, <1>2, <1>3, <1>4, <1>5, <1>6, <1>7, <1>8 DEF Next, mqtt_task

(* Nothing but CONNECT is sent before the broker has accepted this very    *)
(* connection, whatever the lengths, the window and the number of          *)
(* connections: the code of mqtt_task reaches mqtt_subscribe and           *)
(* mqtt_publish, and cycle its acknowledgements and pings, only then.      *)
THEOREM NothingBeforeAcceptance == Spec => []AcceptedFirst
<1>1. Init => Shape /\ Accepted
  BY InitShape, InitAccepted
<1>2. Shape /\ Accepted /\ [Next]_vars => (Shape /\ Accepted)'
  BY NextShape, NextAccepted
<1>3. Accepted => AcceptedFirst
  BY DEF Accepted
<1> QED BY <1>1, <1>2, <1>3, PTL DEF Spec
-----------------------------------------------------------------------------
(* The colours.                                                            *)

(* The colours of in that can be read come after those of q and after low, *)
(* rise, and go up to top.                                                 *)
Behind(in, q, low, top) ==
  \A k \in 1 .. Len(in) : in[k].type \in Colour /\ in[k].n # Unread =>
    /\ low < in[k].n /\ in[k].n <= top
    /\ \A j \in 1 .. Len(q) : q[j] < in[k].n
    /\ \A j \in 1 .. k - 1 : in[j].type \in Colour => in[j].n < in[k].n

(* Colours keep their order from the broker to colorLock, and none is      *)
(* queued twice: a session has no handler before SUBACK and one after.     *)
ColoursInOrder ==
  /\ link # "none" => client.handlers <= 1
  /\ pc \in {"connect", "connack", "subscribe", "suback"} => client.handlers = 0
  /\ cur_color <= colours
  /\ Rising(rgbRxQueue, cur_color, colours)
  /\ Behind(toClient, rgbRxQueue, cur_color, colours)

(* A step of mqtt_task that delivers no colour, with one handler at most.  *)
LEMMA GoesColours ==
  ASSUME ColoursInOrder, NEW next, NEW d, NEW o, NEW in, Goes(next, d, o, in),
         d.handlers <= 1, cur_color' = cur_color,
         next \in {"connect", "connack", "subscribe", "suback"} => d.handlers = 0,
         Rising(rgbRxQueue', cur_color, colours), Behind(in, rgbRxQueue', cur_color, colours)
  PROVE  ColoursInOrder'
<1>1. pc' = next /\ client' = d /\ toClient' = in /\ colours' = colours
  BY DEF Goes, brokerVars
<1> QED BY <1>1 DEF ColoursInOrder

(* The colours that are queued outlast the session.                        *)
LEMMA ClosesColours ==
  ASSUME ColoursInOrder, NEW s, mqtt_network_disconnect(s), cur_color' = cur_color,
         Rising(rgbRxQueue', cur_color, colours)
  PROVE  ColoursInOrder'
<1>1. pc' = "wifi" /\ link' = "none" /\ toClient' = <<>> /\ colours' = colours
  BY DEF mqtt_network_disconnect
<1>2. Behind(toClient, rgbRxQueue, cur_color, colours)'
  <2>1. 1 .. Len(toClient') = {}
    BY <1>1
  <2> QED BY <2>1 DEF Behind
<1> QED BY <1>1, <1>2 DEF ColoursInOrder

(* No colour is queued at the start.                                       *)
LEMMA InitColours == Init => ColoursInOrder
<1> SUFFICES ASSUME Init PROVE ColoursInOrder
  OBVIOUS
<1>1. 1 .. Len(toClient) = {} /\ 1 .. Len(rgbRxQueue) = {}
  BY DEF Init
<1> QED BY <1>1 DEF Init, ColoursInOrder, Rising, Behind

(* Every step keeps the colours in their order, each of them once.         *)
LEMMA NextColours == Shape /\ ColoursInOrder /\ [Next]_vars => ColoursInOrder'
<1> SUFFICES ASSUME Shape, ColoursInOrder, [Next]_vars PROVE ColoursInOrder'
  OBVIOUS
<1> USE DEF pubVars, netVars, brokerVars, rgbVars
<1>0. /\ rgbRxQueue \in Seq(Nat) /\ Len(rgbRxQueue) \in Nat /\ cur_color \in Nat /\ colours \in Nat
      /\ (\A k \in 1 .. Len(rgbRxQueue) : rgbRxQueue[k] \in Nat)
      /\ toClient \in Seq(Pkt) /\ Len(toClient) \in Nat
      /\ (link = "none") = (pc \in {"wifi", "tcp"})
  <2>1. rgbRxQueue \in Seq(0 .. MaxColours)
    BY DEF Shape, TypeOK
  <2>2. rgbRxQueue \in Seq(Nat)
    BY <2>1, SeqOfNat
  <2>3. cur_color \in Nat /\ colours \in Nat
    BY DEF Shape, TypeOK
  <2>4. Len(rgbRxQueue) \in Nat /\ \A k \in 1 .. Len(rgbRxQueue) : rgbRxQueue[k] \in Nat
    BY <2>2, ElementOfSeq
  <2>5. toClient \in Seq(Pkt) /\ Len(toClient) \in Nat
    BY DEF Shape, InOK
  <2>6. (link = "none") = (pc \in {"wifi", "tcp"})
    BY DEF Shape, TypeOK
  <2> QED BY <2>2, <2>3, <2>4, <2>5, <2>6
<1>n. \A k \in 1 .. Len(toClient) : toClient[k].n \in Nat \cup {Unread}
  <2> TAKE k \in 1 .. Len(toClient)
  <2>1. toClient[k] \in Pkt
    BY <1>0, ElementOfSeq
  <2> QED BY <2>1 DEF Pkt
<1>h. client.handlers \in Nat
  BY DEF Shape, TypeOK
<1>u. ASSUME UNCHANGED <<pc, link, colours, toClient, rgbRxQueue, cur_color>>,
             client'.handlers = client.handlers
      PROVE  ColoursInOrder'
  BY <1>u DEF ColoursInOrder, Rising, Behind
<1>v. ASSUME UNCHANGED <<rgbRxQueue, cur_color>>, NEW next, NEW d, NEW o,
             d.handlers = client.handlers, Goes(next, d, o, toClient), pc \in Waits,
             next \in {"connect", "connack", "subscribe", "suback"}
               => pc \in {"connect", "connack", "subscribe", "suback"}
      PROVE  ColoursInOrder'
  <2>1. link # "none"
    BY <1>0, <1>v DEF Waits
  <2>2. Rising(rgbRxQueue', cur_color, colours) /\ Behind(toClient, rgbRxQueue', cur_color, colours)
    BY <1>v DEF ColoursInOrder
  <2> QED BY <1>v, <2>1, <2>2, GoesColours DEF ColoursInOrder
<1>c. ASSUME UNCHANGED <<rgbRxQueue, cur_color>>, NEW s, mqtt_network_disconnect(s)
      PROVE  ColoursInOrder'
  BY <1>c, ClosesColours DEF ColoursInOrder
<1>1. CASE temp_pub_task \/ OrphanArrives \/ UNCHANGED vars
  BY <1>1, <1>u DEF temp_pub_task, OrphanArrives, vars
<1>2. CASE PingTimer
  <2>1. client'.handlers = client.handlers
    BY <1>2 DEF PingTimer, Shape, TypeOK
  <2> QED BY <1>2, <1>u, <2>1 DEF PingTimer
<1>3. CASE colorLock
  <2>1. /\ rgbRxQueue # <<>> /\ cur_color' = Head(rgbRxQueue) /\ rgbRxQueue' = Tail(rgbRxQueue)
        /\ UNCHANGED <<pc, client, link, colours, toClient>>
    BY <1>3 DEF colorLock, RgbQueue!Receive
  <2>2. /\ Head(rgbRxQueue) <= colours
        /\ Rising(Tail(rgbRxQueue), Head(rgbRxQueue), colours)
    BY <1>0, <2>1, RisingTail DEF ColoursInOrder
  <2>3. /\ Head(rgbRxQueue) = rgbRxQueue[1] /\ 1 \in 1 .. Len(rgbRxQueue)
        /\ \A k \in 1 .. Len(Tail(rgbRxQueue)) :
             k + 1 \in 1 .. Len(rgbRxQueue) /\ Tail(rgbRxQueue)[k] = rgbRxQueue[k + 1]
    BY <1>0, <2>1, TailAt
  <2>4. Behind(toClient, Tail(rgbRxQueue), Head(rgbRxQueue), colours)
    BY <2>3 DEF ColoursInOrder, Behind
  <2>5. /\ Rising(rgbRxQueue, cur_color, colours)'
        /\ Behind(toClient, rgbRxQueue, cur_color, colours)'
    BY <2>1, <2>2, <2>4
  <2> QED BY <2>1, <2>2, <2>5 DEF ColoursInOrder
<1>4. CASE Commands
  <2>0. UNCHANGED <<rgbRxQueue, cur_color>>
    BY <1>4 DEF Commands
  <2>1. CASE xSemaphoreTake
    BY <2>0, <2>1 DEF xSemaphoreTake, ColoursInOrder, Rising, Behind
  <2>2. CASE mqtt_network_connect
    <3>1. mqtt_client_new.handlers = 0
      BY NewClient
    <3>2. pc = "tcp" /\ UNCHANGED <<toClient, colours>>
          /\ (client' = mqtt_client_new \/ (pc' = "wifi" /\ UNCHANGED link))
      BY <2>2 DEF mqtt_network_connect
    <3>3. link = "none"
      BY <1>0, <3>2
    <3> QED BY <2>0, <3>1, <3>2, <3>3 DEF ColoursInOrder, Rising, Behind
  <2>3. ASSUME NEW p, NEW wait, NEW failed, Request(p, wait, failed), pc \in Waits,
               {wait, failed} \cap {"connect", "connack", "subscribe", "suback"} = {}
                 \/ pc \in {"connect", "connack", "subscribe", "suback"}
        PROVE  ColoursInOrder'
    <3>1. PICK next, s : next \in {wait, failed} /\ Asked(p, s) /\ Goes(next, s.c, s.out, toClient)
      BY <2>3, RequestCases
    <3>2. s.c.handlers = client.handlers
      BY <3>1 DEF Asked
    <3>3. next \in {"connect", "connack", "subscribe", "suback"}
            => pc \in {"connect", "connack", "subscribe", "suback"}
      BY <2>3, <3>1
    <3> QED BY <1>v, <2>0, <2>3, <3>1, <3>2, <3>3
  <2>4. CASE mqtt_connect
    <3>1. PICK s : /\ Asked(Packet("CONNECT", 0), s)
                   /\ Goes("connack", s.c, s.out, toClient) \/ mqtt_network_disconnect(s)
      BY <2>4, ConnectCases
    <3>2. pc = "connect"
      BY <2>4 DEF mqtt_connect
    <3> QED BY <1>c, <1>v, <2>0, <3>1, <3>2 DEF Asked, Waits
  <2>5. CASE mqtt_subscribe
    BY <2>3, <2>5 DEF mqtt_subscribe, Waits
  <2>6. CASE xQueueReset \/ xQueueReceive
    BY <1>v, <2>0, <2>6 DEF xQueueReset, xQueueReceive, Waits
  <2>7. CASE mqtt_publish
    BY <1>v, <2>0, <2>3, <2>7 DEF mqtt_publish, Waits
  <2> QED BY <1>4, <2>1, <2>2, <2>4, <2>5, <2>6, <2>7 DEF Commands
<1>5. CASE waitfor
  <2>1. pc \in {"connack", "suback", "puback", "yield"}
    BY <1>5, WaitforCases
  <2>2. PICK p, in, s : Round(p, in, s)
    BY <1>5, WaitforCases
  <2>3. client.handlers \in {0, 1} /\ (pc \in {"connack", "suback"} => client.handlers = 0)
    BY <1>0, <1>h, <2>1 DEF ColoursInOrder
  <2>4. /\ cur_color' = cur_color /\ Len(rgbRxQueue') \in Nat
        /\ Len(rgbRxQueue) <= Len(rgbRxQueue') /\ Len(rgbRxQueue') <= Len(rgbRxQueue) + 1
        /\ \A k \in 1 .. Len(rgbRxQueue) : rgbRxQueue'[k] = rgbRxQueue[k]
        /\ \A k \in Len(rgbRxQueue) + 1 .. Len(rgbRxQueue') :
             p.type \in Colour /\ rgbRxQueue'[k] = Brought(p)
    <3>1. RgbOK /\ deliver_message(p) /\ (p.type \in Colour => p.n \in Numbers)
      BY <2>2 DEF Round, Shape, TypeOK, RgbOK
    <3>2. /\ cur_color' = cur_color /\ RgbOK'
          /\ Len(rgbRxQueue) <= Len(rgbRxQueue')
          /\ Len(rgbRxQueue') <= Len(rgbRxQueue) + client.handlers
          /\ \A k \in 1 .. Len(rgbRxQueue) : rgbRxQueue'[k] = rgbRxQueue[k]
          /\ \A k \in Len(rgbRxQueue) + 1 .. Len(rgbRxQueue') :
               p.type \in Colour /\ rgbRxQueue'[k] = Brought(p)
      BY <1>h, <3>1, Delivered
    <3>3. Len(rgbRxQueue') \in Nat
      BY <3>2 DEF RgbOK
    <3> QED BY <1>0, <2>3, <3>2, <3>3
  <2>5. p.type \in Colour /\ p.n # Unread =>
          /\ p.n \in Nat /\ cur_color < p.n /\ p.n <= colours
          /\ \A j \in 1 .. Len(rgbRxQueue) : rgbRxQueue[j] < p.n
    <3>1. CASE toClient = <<>>
      BY <2>2, <3>1 DEF Round, Read, Packet, Colour
    <3>2. CASE toClient # <<>>
      <4>1. p = toClient[1] /\ 1 \in 1 .. Len(toClient)
        BY <1>0, <2>2, <3>2, TailAt DEF Round, Read
      <4> QED BY <1>n, <4>1 DEF ColoursInOrder, Behind
    <3> QED BY <3>1, <3>2
  <2>6. Rising(rgbRxQueue', cur_color, colours)
    <3> SUFFICES ASSUME NEW k \in 1 .. Len(rgbRxQueue')
                 PROVE  /\ rgbRxQueue'[k] <= colours
                        /\ rgbRxQueue'[k] # 0 =>
                             /\ cur_color < rgbRxQueue'[k]
                             /\ \A j \in 1 .. k - 1 : rgbRxQueue'[j] < rgbRxQueue'[k]
      BY DEF Rising
    <3>1. \A j \in 1 .. k - 1 : j \in 1 .. Len(rgbRxQueue) /\ rgbRxQueue'[j] = rgbRxQueue[j]
      BY <1>0, <2>4
    <3>2. CASE k \in 1 .. Len(rgbRxQueue)
      BY <2>4, <3>1, <3>2 DEF ColoursInOrder, Rising
    <3>3. CASE k \in Len(rgbRxQueue) + 1 .. Len(rgbRxQueue')
      <4>1. p.type \in Colour /\ rgbRxQueue'[k] = Brought(p)
        BY <2>4, <3>3
      <4>2. CASE p.n = Unread
        BY <1>0, <4>1, <4>2 DEF Brought
      <4>3. CASE p.n # Unread
        BY <2>5, <3>1, <4>1, <4>3 DEF Brought
      <4> QED BY <4>2, <4>3
    <3> QED BY <1>0, <2>4, <3>2, <3>3
  <2>7. Behind(in, rgbRxQueue', cur_color, colours)
    <3>1. CASE toClient = <<>>
      <4>1. 1 .. Len(in) = {}
        BY <2>2, <3>1 DEF Round, Read
      <4> QED BY <4>1 DEF Behind
    <3>2. CASE toClient # <<>>
      <4>1. p = toClient[1] /\ 1 \in 1 .. Len(toClient) /\ Len(in) \in Nat
            /\ \A k \in 1 .. Len(in) : k + 1 \in 1 .. Len(toClient) /\ in[k] = toClient[k + 1]
        <5>1. p = Head(toClient) /\ in = Tail(toClient)
          BY <2>2, <3>2 DEF Round, Read
        <5>2. in \in Seq(Pkt)
          BY <2>2 DEF Round, InOK
        <5> QED BY <1>0, <3>2, <5>1, <5>2, TailAt
      <4> SUFFICES ASSUME NEW k \in 1 .. Len(in), in[k].type \in Colour, in[k].n # Unread
                   PROVE  /\ cur_color < in[k].n /\ in[k].n <= colours
                          /\ \A j \in 1 .. Len(rgbRxQueue') : rgbRxQueue'[j] < in[k].n
                          /\ \A j \in 1 .. k - 1 : in[j].type \in Colour => in[j].n < in[k].n
        BY DEF Behind
      <4>2. /\ cur_color < in[k].n /\ in[k].n <= colours
            /\ \A j \in 1 .. Len(rgbRxQueue) : rgbRxQueue[j] < in[k].n
            /\ \A j \in 1 .. (k + 1) - 1 : toClient[j].type \in Colour => toClient[j].n < in[k].n
        BY <4>1 DEF ColoursInOrder, Behind
      <4>3. p.type \in Colour => p.n < in[k].n
        <5>1. 1 \in 1 .. (k + 1) - 1
          BY <4>1
        <5> QED BY <4>1, <4>2, <5>1
      <4>4. \A j \in 1 .. k - 1 : in[j].type \in Colour => in[j].n < in[k].n
        <5>1. \A j \in 1 .. k - 1 : j + 1 \in 1 .. (k + 1) - 1 /\ in[j] = toClient[j + 1]
          BY <4>1
        <5> QED BY <4>2, <5>1
      <4>5. ASSUME NEW j \in 1 .. Len(rgbRxQueue') PROVE rgbRxQueue'[j] < in[k].n
        <5>1. j \in 1 .. Len(rgbRxQueue) \/ j \in Len(rgbRxQueue) + 1 .. Len(rgbRxQueue')
          BY <1>0, <2>4
        <5>2. CASE j \in 1 .. Len(rgbRxQueue)
          BY <2>4, <4>2, <5>2
        <5>3. CASE j \in Len(rgbRxQueue) + 1 .. Len(rgbRxQueue')
          <6>1. p.type \in Colour /\ rgbRxQueue'[j] = Brought(p)
            BY <2>4, <5>3
          <6>2. in[k].n \in Nat \cup {Unread}
            BY <1>n, <4>1
          <6>3. 0 < in[k].n
            BY <1>0, <4>2, <6>2 DEF Unread
          <6> QED BY <4>3, <6>1, <6>3 DEF Brought
        <5> QED BY <5>1, <5>2, <5>3
      <4> QED BY <4>2, <4>4, <4>5
    <3> QED BY <3>1, <3>2
  <2>8. CASE mqtt_network_disconnect(s)
    BY <2>4, <2>6, <2>8, ClosesColours
  <2>9. ASSUME NEW next, NEW d, Proceeds(p, next, d), Goes(next, d, s.out, in)
        PROVE  ColoursInOrder'
    <3>1. d.handlers <= 1 /\ (next \in {"connect", "connack", "subscribe", "suback"} => d.handlers = 0)
      BY <2>1, <2>3, <2>9 DEF Proceeds
    <3> QED BY <2>4, <2>6, <2>7, <2>9, <3>1, GoesColours
  <2> QED BY <2>2, <2>8, <2>9 DEF Round
<1>6. CASE TimedOut
  <2>1. UNCHANGED <<rgbRxQueue, cur_color>>
    BY <1>6 DEF TimedOut
  <2> QED BY <1>6, <1>c, <1>v, <2>1 DEF TimedOut, Waits
<1>7. CASE BrokerReads
  <2>1. UNCHANGED <<pc, client, link, colours, rgbRxQueue, cur_color>>
    BY <1>7 DEF BrokerReads
  <2>2. CASE UNCHANGED toClient
    BY <1>u, <2>1, <2>2
  <2>3. CASE toClient' # toClient
    <3> DEFINE p == Head(toBroker)
    <3>1. PICK a \in Answers(p) : toClient' = Append(toClient, a) /\ p.type \notin {"PUBACK", "TORN"}
      BY <1>7, <2>3 DEF BrokerReads
    <3>2. p.type \in Requests
      <4>1. p = toBroker[1] /\ 1 \in 1 .. Len(toBroker) /\ p \in Pkt
        BY <1>7, TailAt DEF BrokerReads, Shape, OutOK
      <4> QED BY <4>1 DEF Shape, OutOK
    <3>3. a \in Pkt /\ a.type \notin Colour
      BY <3>1, <3>2 DEF Answers, Requests, Packet, Pkt, Kinds, Colour
    <3>4. \A k \in 1 .. Len(toClient') :
            (k \in 1 .. Len(toClient) /\ toClient'[k] = toClient[k]) \/ toClient'[k] = a
      BY <1>0, <3>1, <3>3, AppendAt
    <3>5. \A k \in 1 .. Len(toClient) : toClient'[k] = toClient[k]
      BY <1>0, <3>1, <3>3, AppendAt
    <3>6. Behind(toClient', rgbRxQueue, cur_color, colours)
      <4> SUFFICES ASSUME NEW k \in 1 .. Len(toClient'), toClient'[k].type \in Colour,
                        toClient'[k].n # Unread
                   PROVE  /\ cur_color < toClient'[k].n /\ toClient'[k].n <= colours
                          /\ \A j \in 1 .. Len(rgbRxQueue) : rgbRxQueue[j] < toClient'[k].n
                          /\ \A j \in 1 .. k - 1 :
                               toClient'[j].type \in Colour => toClient'[j].n < toClient'[k].n
        BY DEF Behind
      <4>1. k \in 1 .. Len(toClient) /\ toClient'[k] = toClient[k]
        BY <3>3, <3>4
      <4>2. \A j \in 1 .. k - 1 : toClient'[j] = toClient[j]
        BY <1>0, <3>5, <4>1
      <4> QED BY <4>1, <4>2 DEF ColoursInOrder, Behind
    <3>7. Rising(rgbRxQueue, cur_color, colours)' /\ Behind(toClient, rgbRxQueue, cur_color, colours)'
      BY <2>1, <3>6 DEF ColoursInOrder
    <3> QED BY <2>1, <3>7 DEF ColoursInOrder
  <2> QED BY <2>2, <2>3
<1>8. CASE BrokerPublishes
  <2>1. PICK type \in Colour : toClient' = Append(toClient, Packet(type, colours + 1))
    BY <1>8 DEF BrokerPublishes, Colour
  <2> DEFINE a == Packet(type, colours + 1)
  <2>2. a \in Pkt /\ a.n = colours + 1
    BY <1>0 DEF Packet, Pkt, Kinds
  <2>3. toClient' = Append(toClient, a)
    BY <2>1
  <2> HIDE DEF a
  <2>4. UNCHANGED <<pc, client, link, rgbRxQueue, cur_color>> /\ colours' = colours + 1
    BY <1>8 DEF BrokerPublishes
  <2>5. /\ \A k \in 1 .. Len(toClient') :
             k \in 1 .. Len(toClient) \/ (k = Len(toClient) + 1 /\ toClient'[k] = a)
        /\ \A k \in 1 .. Len(toClient) : toClient'[k] = toClient[k]
    BY <1>0, <2>2, <2>3, AppendAt
  <2>6. Rising(rgbRxQueue, cur_color, colours + 1) /\ cur_color <= colours + 1
    BY <1>0 DEF ColoursInOrder, Rising
  <2>7. Behind(toClient', rgbRxQueue, cur_color, colours + 1)
    <3> SUFFICES ASSUME NEW k \in 1 .. Len(toClient'), toClient'[k].type \in Colour,
                        toClient'[k].n # Unread
                 PROVE  /\ cur_color < toClient'[k].n /\ toClient'[k].n <= colours + 1
                        /\ \A j \in 1 .. Len(rgbRxQueue) : rgbRxQueue[j] < toClient'[k].n
                        /\ \A j \in 1 .. k - 1 :
                             toClient'[j].type \in Colour => toClient'[j].n < toClient'[k].n
      BY DEF Behind
    <3>n. Len(toClient) \in Nat
      BY <1>0
    <3>k. k \in 1 .. Len(toClient) \/ k = Len(toClient) + 1
      BY <2>5, Zenon
    <3>0. Len(toClient) \in Nat /\ k \in Nat /\ k <= Len(toClient) + 1
      BY <3>n, <3>k
    <3>1. \A j \in 1 .. k - 1 : j \in 1 .. Len(toClient) /\ toClient'[j] = toClient[j]
      BY <2>5, <3>0
    <3>2. CASE k \in 1 .. Len(toClient)
      <4>1. toClient'[k] = toClient[k] /\ toClient[k].n \in Nat /\ toClient[k].n # Unread
        BY <1>n, <2>5, <3>2
      <4>2. /\ cur_color < toClient[k].n /\ toClient[k].n <= colours
            /\ \A j \in 1 .. Len(rgbRxQueue) : rgbRxQueue[j] < toClient[k].n
            /\ \A j \in 1 .. k - 1 : toClient[j].type \in Colour => toClient[j].n < toClient[k].n
        BY <3>2, <4>1 DEF ColoursInOrder, Behind
      <4>3. toClient[k].n <= colours + 1
        BY <1>0, <4>1, <4>2
      <4> QED BY <3>1, <4>1, <4>2, <4>3
    <3>3. CASE toClient'[k] = a
      <4>1. \A j \in 1 .. Len(rgbRxQueue) : rgbRxQueue[j] <= colours
        BY DEF ColoursInOrder, Rising
      <4>2. \A j \in 1 .. k - 1 : toClient[j].type \in Colour => toClient[j].n <= colours
        <5>1. \A j \in 1 .. k - 1 : toClient[j].type \in Colour =>
                toClient[j].n <= colours \/ toClient[j].n = Unread
          BY <3>1 DEF ColoursInOrder, Behind
        <5>2. Unread <= colours
          BY <1>0 DEF Unread
        <5> QED BY <5>1, <5>2
      <4>3. \A j \in 1 .. Len(rgbRxQueue) : rgbRxQueue[j] < colours + 1
        BY <1>0, <4>1
      <4>4. \A j \in 1 .. k - 1 : toClient'[j].type \in Colour => toClient'[j].n < colours + 1
        <5>1. ASSUME NEW j \in 1 .. k - 1, toClient'[j].type \in Colour
              PROVE  toClient'[j].n < colours + 1
          <6>1. toClient'[j] = toClient[j] /\ toClient[j].n \in Nat \cup {Unread}
            BY <1>n, <3>1
          <6>2. toClient[j].n <= colours
            BY <4>2, <5>1, <6>1
          <6> QED BY <1>0, <6>1, <6>2 DEF Unread
        <5> QED BY <5>1
      <4>5. cur_color < colours + 1 /\ colours + 1 <= colours + 1
        BY <1>0 DEF ColoursInOrder
      <4> QED BY <2>2, <3>3, <4>3, <4>4, <4>5
    <3> QED BY <2>5, <3>2, <3>3
  <2>8. Rising(rgbRxQueue, cur_color, colours)' /\ Behind(toClient, rgbRxQueue, cur_color, colours)'
    BY <2>4, <2>6, <2>7
  <2> QED BY <2>4, <2>6, <2>8 DEF ColoursInOrder
<1>9. CASE LinkDies
  <2>1. Torn(toClient, toClient')
    BY <1>0, <1>9, LinkDiesTorn
  <2>2. \A k \in 1 .. Len(toClient') : k \in 1 .. Len(toClient) /\
          (toClient'[k].type \in Colour => toClient'[k] = toClient[k] \/ toClient'[k].n = Unread)
    <3>1. Packet("TORN", 0).type \notin Colour /\ \A type : Packet(type, Unread).n = Unread
      BY DEF Packet, Colour
    <3> QED BY <1>0, <2>1, <3>1 DEF Torn
  <2>3. Len(toClient') \in Nat
    BY <2>1 DEF Torn
  <2>4. Behind(toClient', rgbRxQueue, cur_color, colours)
    <3> SUFFICES ASSUME NEW k \in 1 .. Len(toClient'), toClient'[k].type \in Colour,
                        toClient'[k].n # Unread
                 PROVE  /\ cur_color < toClient'[k].n /\ toClient'[k].n <= colours
                        /\ \A j \in 1 .. Len(rgbRxQueue) : rgbRxQueue[j] < toClient'[k].n
                        /\ \A j \in 1 .. k - 1 :
                             toClient'[j].type \in Colour => toClient'[j].n < toClient'[k].n
      BY DEF Behind
    <3>1. k \in 1 .. Len(toClient) /\ toClient'[k] = toClient[k]
      BY <2>2
    <3>2. \A j \in 1 .. k - 1 : toClient'[j].type \in Colour =>
            toClient'[j] = toClient[j] \/ toClient'[j].n = Unread
      BY <2>2, <2>3
    <3>3. /\ cur_color < toClient[k].n /\ toClient[k].n <= colours
          /\ \A j \in 1 .. Len(rgbRxQueue) : rgbRxQueue[j] < toClient[k].n
          /\ \A j \in 1 .. k - 1 : toClient[j].type \in Colour => toClient[j].n < toClient[k].n
      BY <3>1 DEF ColoursInOrder, Behind
    <3>4. Unread < toClient[k].n
      BY <1>0, <1>n, <3>1, <3>3 DEF Unread
    <3> QED BY <3>1, <3>2, <3>3, <3>4
  <2>5. UNCHANGED <<pc, client, colours, rgbRxQueue, cur_color>> /\ link = "up"
    BY <1>9 DEF LinkDies
  <2>6. Rising(rgbRxQueue, cur_color, colours)' /\ Behind(toClient, rgbRxQueue, cur_color, colours)'
    BY <2>4, <2>5 DEF ColoursInOrder
  <2> QED BY <2>5, <2>6 DEF ColoursInOrder
<1> QED BY <1>1, <1>2, <1>3, <1>4, <1>5, <1>6, <1>7, <1>8, <1>9 DEF Next, mqtt_task

(* Each colour is shown at most once and in the order the broker sent      *)
(* them, over every reconnection: mqtt_client_new drops the handlers, and  *)
(* mqtt_subscribe adds one.                                                *)
THEOREM ColoursShownOnce == Spec => []EachColourOnce
<1>1. Init => Shape /\ ColoursInOrder
  BY InitShape, InitColours
<1>2. Shape /\ ColoursInOrder /\ [Next]_vars => (Shape /\ ColoursInOrder)'
  BY NextShape, NextColours
<1>3. Shape /\ ColoursInOrder => EachColourOnce
  <2> SUFFICES ASSUME Shape, ColoursInOrder PROVE EachColourOnce
    OBVIOUS
  <2> DEFINE shown == <<cur_color>> \o rgbRxQueue
  <2>1. rgbRxQueue \in Seq(Nat) /\ cur_color \in Nat /\ Len(rgbRxQueue) \in Nat
    BY SeqOfNat DEF Shape, TypeOK
  <2>2. <<cur_color>> \in Seq(Nat) /\ Len(<<cur_color>>) = 1 /\ <<cur_color>>[1] = cur_color
    BY <2>1
  <2>3. /\ DOMAIN shown = 1 .. Len(rgbRxQueue) + 1 /\ shown[1] = cur_color
        /\ \A k \in 2 .. Len(rgbRxQueue) + 1 : shown[k] = rgbRxQueue[k - 1]
    BY <2>1, <2>2, ConcatAt
  <2> HIDE DEF shown
  <2>4. ASSUME NEW j \in DOMAIN shown, NEW k \in DOMAIN shown, j < k, shown[k] # 0
        PROVE  shown[j] < shown[k]
    <3>1. k \in 2 .. Len(rgbRxQueue) + 1 /\ k - 1 \in 1 .. Len(rgbRxQueue)
      BY <2>1, <2>3, <2>4
    <3>2. CASE j = 1
      BY <2>3, <2>4, <3>1, <3>2 DEF ColoursInOrder, Rising
    <3>3. CASE j # 1
      <4>1. j \in 2 .. Len(rgbRxQueue) + 1 /\ j - 1 \in 1 .. (k - 1) - 1
        BY <2>1, <2>3, <2>4, <3>1, <3>3
      <4>2. shown[k] = rgbRxQueue[k - 1] /\ shown[j] = rgbRxQueue[j - 1]
        BY <2>3, <3>1, <4>1
      <4>3. rgbRxQueue[k - 1] # 0 => rgbRxQueue[j - 1] < rgbRxQueue[k - 1]
        BY <3>1, <4>1 DEF ColoursInOrder, Rising
      <4> QED BY <2>4, <4>2, <4>3
    <3> QED BY <3>2, <3>3
  <2> QED BY <2>4 DEF EachColourOnce, shown
<1> QED BY <1>1, <1>2, <1>3, PTL DEF Spec

-----------------------------------------------------------------------------
(* The temperatures.                                                       *)

(* The temperatures among the packets of q that are followed rise, above   *)
(* low.                                                                    *)
Ordered(q, low) ==
  \A k \in DOMAIN q : q[k].type = "PUBLISH" /\ q[k].n # 0 =>
    /\ q[k].n > low
    /\ \A j \in 1 .. k - 1 : q[j].type = "PUBLISH" => q[j].n < q[k].n

(* Where mqtt_task publishes.                                              *)
Publishing == {"receive", "publish", "puback", "yield"}

(* The temperatures that have been sent, and those that are past this      *)
(* connection.                                                             *)
Gone == Samples(toBroker) \cup seen \cup orphans
Past == seen \cup orphans

(* Temperatures keep their order from temp_pub_task to the broker: what is *)
(* queued is younger than the message mqtt_task holds, and both are        *)
(* younger than what has gone.  While mqtt_task publishes, all of it,      *)
(* queued, held or on its way, is of this session.                         *)
InOrder ==
  /\ msg <= sample /\ mark <= sample /\ Rising(publish_queue, msg, sample)
  /\ pc \in Publishing =>
       \A k \in 1 .. Len(publish_queue) : publish_queue[k] # 0 => mark < publish_queue[k]
  /\ msg # 0 => pc = "publish" /\ mark < msg /\ \A n \in Gone : n < msg
  /\ \A n \in Gone :
       n <= sample /\ \A k \in 1 .. Len(publish_queue) : publish_queue[k] # 0 => n < publish_queue[k]
  /\ Samples(toBroker) # {} => pc \in Publishing
  /\ Ordered(toBroker, mark)
  /\ \A n \in Past, m \in Samples(toBroker) : n < m
  /\ orphans \cap seen = {}

(* No packets, no temperatures.                                            *)
LEMMA SamplesEmpty == Samples(<<>>) = {} /\ \A low : Ordered(<<>>, low)
<1>1. DOMAIN <<>> = {}
  OBVIOUS
<1> QED BY <1>1 DEF Samples, Ordered

(* A temperature is on its way if a PUBLISH holds it.                      *)
LEMMA SamplesMember ==
  ASSUME NEW q, NEW n
  PROVE  n \in Samples(q) <=> n # 0 /\ \E k \in DOMAIN q : q[k].type = "PUBLISH" /\ q[k].n = n
BY DEF Samples

(* What mqtt_yield writes adds no temperature.                             *)
LEMMA SamplesExtended ==
  ASSUME NEW q, OutOK(q), NEW r, Extended(q, r), NEW low, Ordered(q, low)
  PROVE  Samples(r) = Samples(q) /\ Ordered(r, low)
<1>1. /\ DOMAIN q = 1 .. Len(q) /\ DOMAIN r = 1 .. Len(r) /\ Len(q) \in Nat /\ Len(r) \in Nat
      /\ Len(q) <= Len(r)
  BY DEF OutOK, Extended
<1>2. \A k \in DOMAIN q : k \in DOMAIN r /\ r[k] = q[k]
  BY <1>1 DEF Extended
<1>3. ASSUME NEW k \in DOMAIN r, r[k].type = "PUBLISH" PROVE k \in DOMAIN q
  <2>1. k \in Len(q) + 1 .. Len(r) => FALSE
    BY <1>3 DEF Extended, Own
  <2> QED BY <1>1, <2>1
<1>4. \A n : n \in Samples(r) <=> n \in Samples(q)
  BY <1>2, <1>3, SamplesMember
<1>5. Ordered(r, low)
  <2> SUFFICES ASSUME NEW k \in DOMAIN r, r[k].type = "PUBLISH", r[k].n # 0
               PROVE  /\ r[k].n > low
                      /\ \A j \in 1 .. k - 1 : r[j].type = "PUBLISH" => r[j].n < r[k].n
    BY DEF Ordered
  <2>1. k \in DOMAIN q /\ r[k] = q[k]
    BY <1>2, <1>3
  <2>2. \A j \in 1 .. k - 1 : j \in DOMAIN q /\ r[j] = q[j]
    BY <1>1, <1>2, <2>1
  <2> QED BY <2>1, <2>2 DEF Ordered
<1> QED BY <1>4, <1>5

(* Taking a packet takes its temperature, the oldest on its way.           *)
LEMMA SamplesTail ==
  ASSUME NEW q, OutOK(q), q # <<>>, NEW low, Ordered(q, low)
  PROVE  /\ Ordered(Tail(q), low) /\ Samples(Tail(q)) \subseteq Samples(q)
         /\ Head(q).type = "PUBLISH" /\ Head(q).n # 0 =>
              Head(q).n \in Samples(q) /\ \A n \in Samples(Tail(q)) : Head(q).n < n
<1>1. /\ DOMAIN q = 1 .. Len(q) /\ Len(q) \in Nat /\ Head(q) = q[1] /\ 1 \in DOMAIN q
      /\ DOMAIN Tail(q) = 1 .. Len(Tail(q)) /\ Len(Tail(q)) \in Nat
      /\ \A k \in DOMAIN Tail(q) : k + 1 \in DOMAIN q /\ Tail(q)[k] = q[k + 1]
  BY TailAt DEF OutOK
<1>3. Samples(Tail(q)) \subseteq Samples(q)
  <2> SUFFICES ASSUME NEW n \in Samples(Tail(q)) PROVE n \in Samples(q)
    OBVIOUS
  <2>1. n # 0 /\ \E k \in DOMAIN Tail(q) : Tail(q)[k].type = "PUBLISH" /\ Tail(q)[k].n = n
    BY SamplesMember, Zenon
  <2> QED BY <1>1, <2>1, SamplesMember
<1>4. Ordered(Tail(q), low)
  <2> SUFFICES ASSUME NEW k \in DOMAIN Tail(q), Tail(q)[k].type = "PUBLISH", Tail(q)[k].n # 0
               PROVE  /\ Tail(q)[k].n > low
                      /\ \A j \in 1 .. k - 1 :
                           Tail(q)[j].type = "PUBLISH" => Tail(q)[j].n < Tail(q)[k].n
    BY DEF Ordered
  <2>1. \A j \in 1 .. k - 1 : j + 1 \in 1 .. (k + 1) - 1 /\ Tail(q)[j] = q[j + 1]
    BY <1>1
  <2> QED BY <1>1, <2>1 DEF Ordered
<1>5. ASSUME q[1].type = "PUBLISH", q[1].n # 0
      PROVE  q[1].n \in Samples(q) /\ \A n \in Samples(Tail(q)) : q[1].n < n
  <2>1. q[1].n \in Samples(q)
    BY <1>1, <1>5, SamplesMember
  <2>2. ASSUME NEW n \in Samples(Tail(q)) PROVE q[1].n < n
    <3>1. n # 0 /\ \E k \in DOMAIN Tail(q) : Tail(q)[k].type = "PUBLISH" /\ Tail(q)[k].n = n
      BY SamplesMember, Zenon
    <3>2. PICK k \in DOMAIN Tail(q) : Tail(q)[k].type = "PUBLISH" /\ Tail(q)[k].n = n
      BY <3>1
    <3>3. k + 1 \in DOMAIN q /\ q[k + 1].type = "PUBLISH" /\ q[k + 1].n = n
          /\ 1 \in 1 .. (k + 1) - 1
      BY <1>1, <3>2
    <3> QED BY <1>5, <3>1, <3>3 DEF Ordered
  <2> QED BY <2>1, <2>2
<1> QED BY <1>1, <1>3, <1>4, <1>5

(* Sending a younger temperature keeps the order.                          *)
LEMMA SamplesAppend ==
  ASSUME NEW q, OutOK(q), NEW p \in Pkt, NEW low, Ordered(q, low),
         p.type = "PUBLISH" => p.n \in Nat,
         p.type = "PUBLISH" /\ p.n # 0 => p.n > low /\ \A n \in Samples(q) : n < p.n
  PROVE  /\ Ordered(Append(q, p), low)
         /\ Samples(Append(q, p)) =
              IF p.type = "PUBLISH" /\ p.n # 0 THEN Samples(q) \cup {p.n} ELSE Samples(q)
<1> DEFINE r == Append(q, p)
<1>1. /\ DOMAIN q = 1 .. Len(q) /\ Len(q) \in Nat /\ DOMAIN r = 1 .. Len(r)
      /\ Len(r) = Len(q) + 1 /\ r[Len(q) + 1] = p
      /\ \A k \in DOMAIN q : k \in DOMAIN r /\ r[k] = q[k]
      /\ \A k \in DOMAIN r : k \in DOMAIN q \/ (k = Len(q) + 1 /\ r[k] = p)
  BY AppendAt DEF OutOK
<1> HIDE DEF r
<1>2. Ordered(r, low)
  <2> SUFFICES ASSUME NEW k \in DOMAIN r, r[k].type = "PUBLISH", r[k].n # 0
               PROVE  /\ r[k].n > low
                      /\ \A j \in 1 .. k - 1 : r[j].type = "PUBLISH" => r[j].n < r[k].n
    BY DEF Ordered
  <2>1. \A j \in 1 .. k - 1 : j \in DOMAIN q /\ r[j] = q[j]
    BY <1>1
  <2>2. CASE k \in DOMAIN q
    BY <1>1, <2>1, <2>2 DEF Ordered
  <2>3. CASE r[k] = p
    <3>1. ASSUME NEW j \in 1 .. k - 1, r[j].type = "PUBLISH" PROVE r[j].n < p.n
      <4>1. j \in DOMAIN q /\ r[j] = q[j]
        BY <2>1
      <4>2. CASE q[j].n = 0
        BY <2>3, <4>1, <4>2
      <4>3. CASE q[j].n # 0
        <5>1. q[j].n \in Samples(q)
          BY <3>1, <4>1, <4>3, SamplesMember, Zenon
        <5> QED BY <2>3, <4>1, <5>1
      <4> QED BY <4>2, <4>3
    <3> QED BY <2>3, <3>1
  <2> QED BY <1>1, <2>2, <2>3
<1>3. ASSUME NEW n
      PROVE  n \in Samples(r) <=> n \in Samples(q) \/ (p.type = "PUBLISH" /\ n = p.n /\ n # 0)
  <2>1. Len(q) + 1 \in DOMAIN r
    BY <1>1
  <2> QED BY <1>1, <2>1, SamplesMember
<1>4. Samples(r) = IF p.type = "PUBLISH" /\ p.n # 0 THEN Samples(q) \cup {p.n} ELSE Samples(q)
  BY <1>3
<1> QED BY <1>2, <1>4 DEF r

(* Sending anything else, or nothing, adds none.                           *)
LEMMA SamplesSent ==
  ASSUME OutOK(toBroker), NEW p \in Pkt, p.type # "PUBLISH", NEW o, Sent(p, o),
         NEW low, Ordered(toBroker, low)
  PROVE  Samples(o) = Samples(toBroker) /\ Ordered(o, low)
<1>1. Packet("TORN", 0) \in Pkt /\ Packet("TORN", 0).type # "PUBLISH"
  BY DEF Packet, Pkt, Kinds, Requests
<1>2. ASSUME NEW x \in Pkt, x.type # "PUBLISH", o = Append(toBroker, x)
      PROVE  Samples(o) = Samples(toBroker) /\ Ordered(o, low)
  BY <1>2, SamplesAppend
<1> QED BY <1>1, <1>2 DEF Sent

(* Temperatures are numbered.                                              *)
LEMMA NumbersAreNat ==
  ASSUME Shape
  PROVE  /\ sample \in Nat /\ msg \in Nat /\ mark \in Nat /\ publish_queue \in Seq(Nat)
         /\ Samples(toBroker) \subseteq Nat /\ Gone \subseteq Nat
<1>1. sample \in Nat /\ msg \in Nat /\ mark \in Nat
  BY ConstantsAssumption DEF Shape, TypeOK
<1>2. publish_queue \in Seq(Nat)
  BY SeqOfNat DEF Shape, TypeOK
<1>3. /\ Samples(toBroker) \subseteq 1 .. MaxSamples /\ seen \subseteq 1 .. MaxSamples
      /\ orphans \subseteq 1 .. MaxSamples
  BY SamplesOK DEF Shape, TypeOK
<1>4. 1 .. MaxSamples \subseteq Nat
  OBVIOUS
<1> QED BY <1>1, <1>2, <1>3, <1>4, Zenon DEF Gone

(* What rises above a number rises above 0.                                *)
LEMMA RisingFromZero ==
  ASSUME Shape, InOrder, UNCHANGED <<sample, publish_queue>>, msg' = 0
  PROVE  Rising(publish_queue, msg, sample)' /\ msg' <= sample'
<1>1. sample \in Nat /\ msg \in Nat /\ \A k \in 1 .. Len(publish_queue) : publish_queue[k] \in Nat
  BY NumbersAreNat, ElementOfSeq
<1> QED BY <1>1 DEF InOrder, Rising

(* What is past is not on its way.                                         *)
LEMMA PastApart ==
  ASSUME Shape, InOrder
  PROVE  Samples(toBroker) \cap Past = {}
<1>1. \A n \in Past : n \in Nat
  BY NumbersAreNat DEF Gone, Past
<1>2. \A n \in Past : n \notin Samples(toBroker)
  BY <1>1 DEF InOrder
<1> QED BY <1>2

(* A step of mqtt_task that puts no temperature on the wire and holds none *)
(* after it.                                                               *)
LEMMA GoesInOrder ==
  ASSUME Shape, InOrder, UNCHANGED <<sample, publish_queue, mark>>, msg' = 0,
         NEW next, next \in Publishing <=> pc \in Publishing,
         NEW d, NEW o, Samples(o) = Samples(toBroker), Ordered(o, mark), NEW in,
         Goes(next, d, o, in)
  PROVE  InOrder'
<1>1. pc' = next /\ toBroker' = o /\ UNCHANGED <<orphans, seen>>
  BY DEF Goes, brokerVars
<1>2. /\ Samples(toBroker)' = Samples(toBroker) /\ Ordered(toBroker, mark)'
      /\ Gone' = Gone /\ Past' = Past
  BY <1>1, Zenon DEF Gone, Past, Samples, Ordered
<1>3. Rising(publish_queue, msg, sample)' /\ msg' <= sample'
  BY RisingFromZero DEF InOrder
<1> QED BY <1>1, <1>2, <1>3 DEF InOrder

(* The end of a session leaves the temperatures that have gone gone.       *)
LEMMA ClosesInOrder ==
  ASSUME Shape, InOrder, UNCHANGED <<sample, publish_queue, msg, mark>>, msg = 0, NEW s,
         Samples(s.out) = Samples(toBroker), mqtt_network_disconnect(s)
  PROVE  InOrder'
<1>1. /\ pc' = "wifi" /\ toBroker' = <<>> /\ orphans' = orphans \cup Samples(toBroker)
      /\ UNCHANGED seen
  BY DEF mqtt_network_disconnect
<1>2. Samples(toBroker)' = {} /\ Ordered(toBroker, mark)' /\ Gone' = Gone
  BY <1>1, SamplesEmpty DEF Gone
<1>3. Rising(publish_queue, msg, sample)'
  BY DEF InOrder, Rising
<1>4. orphans' \cap seen' = {}
  <2>1. Samples(toBroker) \cap Past = {}
    BY PastApart
  <2> QED BY <1>1, <2>1, Zenon DEF InOrder, Past
<1> QED BY <1>1, <1>2, <1>3, <1>4 DEF InOrder, Publishing

(* At the start there are none.                                            *)
LEMMA InitInOrder == Init => InOrder
<1> SUFFICES ASSUME Init PROVE InOrder
  OBVIOUS
<1>1. Samples(toBroker) = {} /\ Ordered(toBroker, mark) /\ Gone = {}
  BY SamplesEmpty DEF Init, Gone
<1>2. Len(publish_queue) = 0
  BY DEF Init
<1>3. Rising(publish_queue, msg, sample)
  BY <1>2 DEF Rising
<1> QED BY <1>1, <1>2, <1>3 DEF Init, InOrder, Publishing

(* Every step keeps the temperatures in their order.                       *)
LEMMA NextInOrder == Shape /\ InOrder /\ [Next]_vars => InOrder'
<1> SUFFICES ASSUME Shape, InOrder, [Next]_vars PROVE InOrder'
  OBVIOUS
<1> USE DEF pubVars, netVars, brokerVars, rgbVars
<1>0. /\ sample \in Nat /\ msg \in Nat /\ mark \in Nat /\ publish_queue \in Seq(Nat)
      /\ OutOK(toBroker) /\ Samples(toBroker) \subseteq Nat /\ Gone \subseteq Nat
      /\ Ordered(toBroker, mark)
  BY NumbersAreNat DEF Shape, InOrder
<1>k. /\ \A k \in 1 .. Len(publish_queue) : publish_queue[k] \in Nat
      /\ Len(publish_queue) \in Nat
  BY <1>0, ElementOfSeq
<1>u. ASSUME UNCHANGED <<sample, publish_queue, msg, mark, toBroker, orphans, seen>>,
             pc' = pc \/ (pc \notin Publishing /\ pc' \notin Publishing)
      PROVE  InOrder'
  <2>1. /\ Samples(toBroker)' = Samples(toBroker) /\ Ordered(toBroker, mark)'
        /\ Gone' = Gone /\ Past' = Past
    BY <1>u DEF Gone, Past, Samples, Ordered, InOrder
  <2>2. Rising(publish_queue, msg, sample)'
    BY <1>u DEF InOrder, Rising
  <2> QED BY <1>u, <2>1, <2>2 DEF InOrder, Publishing
<1>m. pc # "publish" => msg = 0
  BY DEF InOrder
<1>1. CASE colorLock \/ PingTimer \/ BrokerPublishes \/ LinkDies \/ UNCHANGED vars
  BY <1>1, <1>u DEF colorLock, PingTimer, BrokerPublishes, LinkDies, vars
<1>2. CASE temp_pub_task
  <2>1. /\ UNCHANGED <<msg, mark, pc, toBroker, orphans, seen>>
        /\ \E n \in 0 .. MaxSamples :
             /\ (n = 0 /\ sample' = sample) \/ (n = sample + 1 /\ sample' = sample + 1)
             /\ publish_queue' = Append(publish_queue, n) \/ UNCHANGED publish_queue
    BY <1>2, TempCases DEF Shape, TypeOK
  <2>2. PICK n \in 0 .. MaxSamples :
             /\ (n = 0 /\ sample' = sample) \/ (n = sample + 1 /\ sample' = sample + 1)
             /\ publish_queue' = Append(publish_queue, n) \/ UNCHANGED publish_queue
    BY <2>1
  <2>3. /\ Samples(toBroker)' = Samples(toBroker) /\ Ordered(toBroker, mark)'
        /\ Gone' = Gone /\ Past' = Past
    BY <2>1 DEF Gone, Past, Samples, Ordered, InOrder
  <2>4. msg <= sample /\ mark <= sample /\ sample <= sample' /\ sample' \in Nat /\ n \in Nat
        /\ \A m \in Gone : m \in Nat /\ m <= sample
    BY <1>0, <2>2 DEF InOrder
  <2>5. msg' <= sample' /\ mark' <= sample' /\ \A m \in Gone : m <= sample'
    BY <1>0, <2>1, <2>4
  <2>6. CASE publish_queue' = Append(publish_queue, n)
    <3>1. Rising(Append(publish_queue, n), msg, sample')
      BY <1>0, <2>2, <2>4, RisingAppend DEF InOrder
    <3>2. Rising(publish_queue, msg, sample)'
      BY <2>1, <2>6, <3>1
    <3>3. \A k \in 1 .. Len(publish_queue') :
            \/ k \in 1 .. Len(publish_queue) /\ publish_queue'[k] = publish_queue[k]
            \/ publish_queue'[k] = n
      BY <1>0, <2>4, <2>6, AppendAt
    <3>4. n # 0 => mark < n /\ \A m \in Gone : m < n
      BY <1>0, <2>2, <2>4
    <3>5. pc \in Publishing =>
            \A k \in 1 .. Len(publish_queue') : publish_queue'[k] # 0 => mark < publish_queue'[k]
      BY <3>3, <3>4 DEF InOrder
    <3>6. \A m \in Gone, k \in 1 .. Len(publish_queue') : publish_queue'[k] # 0 => m < publish_queue'[k]
      BY <3>3, <3>4 DEF InOrder
    <3> QED BY <2>1, <2>3, <2>5, <3>2, <3>5, <3>6 DEF InOrder
  <2>7. CASE UNCHANGED publish_queue
    <3>1. Rising(publish_queue, msg, sample)'
      BY <1>0, <1>k, <2>1, <2>4, <2>7 DEF InOrder, Rising
    <3> QED BY <2>1, <2>3, <2>5, <2>7, <3>1 DEF InOrder
  <2> QED BY <2>2, <2>6, <2>7
<1>3. CASE Commands
  <2>1. CASE xSemaphoreTake \/ mqtt_network_connect
    BY <1>u, <2>1 DEF xSemaphoreTake, mqtt_network_connect, Publishing
  <2>2. CASE mqtt_connect
    <3>1. Packet("CONNECT", 0) \in Pkt /\ Packet("CONNECT", 0).type # "PUBLISH"
      BY DEF Packet, Pkt, Kinds, Requests
    <3>2. PICK s : /\ Asked(Packet("CONNECT", 0), s)
                   /\ Goes("connack", s.c, s.out, toClient) \/ mqtt_network_disconnect(s)
      BY <2>2, ConnectCases
    <3>3. Samples(s.out) = Samples(toBroker) /\ Ordered(s.out, mark)
      BY <1>0, <3>1, <3>2, SamplesSent DEF Asked
    <3>4. UNCHANGED <<sample, publish_queue, msg, mark>> /\ pc = "connect" /\ msg = 0
      BY <1>m, <2>2 DEF mqtt_connect
    <3>5. CASE Goes("connack", s.c, s.out, toClient)
      BY <3>3, <3>4, <3>5, GoesInOrder DEF Publishing
    <3>6. CASE mqtt_network_disconnect(s)
      BY <3>3, <3>4, <3>6, ClosesInOrder
    <3> QED BY <3>2, <3>5, <3>6
  <2>3. CASE mqtt_subscribe
    <3>1. Packet("SUBSCRIBE", 0) \in Pkt /\ Packet("SUBSCRIBE", 0).type # "PUBLISH"
      BY DEF Packet, Pkt, Kinds, Requests
    <3>2. PICK next, s : /\ next \in {"suback", "reset"} /\ Asked(Packet("SUBSCRIBE", 0), s)
                         /\ Goes(next, s.c, s.out, toClient)
      BY <2>3, RequestCases DEF mqtt_subscribe
    <3>3. Samples(s.out) = Samples(toBroker) /\ Ordered(s.out, mark)
      BY <1>0, <3>1, <3>2, SamplesSent DEF Asked
    <3>4. UNCHANGED <<sample, publish_queue, msg, mark>> /\ pc = "subscribe" /\ msg = 0
      BY <1>m, <2>3 DEF mqtt_subscribe
    <3> QED BY <3>2, <3>3, <3>4, GoesInOrder DEF Publishing
  <2>4. CASE xQueueReset
    <3>1. /\ pc = "reset" /\ pc' = "receive" /\ publish_queue' = <<>> /\ mark' = sample
          /\ UNCHANGED <<msg, sample, toBroker, orphans, seen>> /\ msg = 0
      BY <1>m, <2>4 DEF xQueueReset, PubQueue!Reset, Goes
    <3>2. Samples(toBroker) = {}
      BY <3>1 DEF InOrder, Publishing
    <3>3. Ordered(toBroker, sample)
      BY <3>2, SamplesMember, Zenon DEF Ordered
    <3>4. Samples(toBroker)' = {} /\ Ordered(toBroker, mark)' /\ Gone' = Gone
      BY <3>1, <3>2, <3>3, Zenon DEF Gone, Samples, Ordered
    <3>5. Len(publish_queue') = 0
      BY <3>1
    <3>6. Rising(publish_queue, msg, sample)'
      BY <3>5 DEF Rising
    <3> QED BY <1>0, <3>1, <3>4, <3>5, <3>6 DEF InOrder
  <2>5. CASE xQueueReceive
    <3>1. CASE PubQueue!Receive /\ Goes("publish", client, toBroker, toClient)
      <4>1. /\ publish_queue # <<>> /\ msg' = Head(publish_queue)
            /\ publish_queue' = Tail(publish_queue) /\ pc = "receive" /\ pc' = "publish"
            /\ UNCHANGED <<sample, mark, toBroker, orphans, seen>>
        BY <2>5, <3>1 DEF xQueueReceive, PubQueue!Receive, Goes
      <4>2. /\ Head(publish_queue) <= sample
            /\ Rising(Tail(publish_queue), Head(publish_queue), sample)
        BY <1>0, <4>1, RisingTail DEF InOrder
      <4>3. /\ Head(publish_queue) = publish_queue[1] /\ 1 \in 1 .. Len(publish_queue)
            /\ \A k \in 1 .. Len(Tail(publish_queue)) :
                 k + 1 \in 1 .. Len(publish_queue) /\ Tail(publish_queue)[k] = publish_queue[k + 1]
        BY <1>0, <4>1, TailAt
      <4>4. /\ Samples(toBroker)' = Samples(toBroker) /\ Ordered(toBroker, mark)'
            /\ Gone' = Gone /\ Past' = Past
        BY <4>1 DEF Gone, Past, Samples, Ordered, InOrder
      <4>5. /\ msg' # 0 => mark < msg' /\ \A n \in Gone : n < msg'
            /\ \A k \in 1 .. Len(publish_queue') :
                 publish_queue'[k] # 0 =>
                   mark < publish_queue'[k] /\ \A n \in Gone : n < publish_queue'[k]
        BY <4>1, <4>3 DEF InOrder, Publishing
      <4>6. Rising(publish_queue, msg, sample)' /\ msg' <= sample'
        BY <4>1, <4>2
      <4> QED BY <4>1, <4>4, <4>5, <4>6 DEF InOrder, Publishing
    <3>2. CASE UNCHANGED <<publish_queue, msg>> /\ Goes("yield", client, toBroker, toClient)
      BY <1>0, <1>m, <2>5, <3>2, GoesInOrder DEF xQueueReceive, Publishing
    <3> QED BY <2>5, <3>1, <3>2 DEF xQueueReceive
  <2>6. CASE mqtt_publish
    <3>0. pc = "publish" /\ msg' = 0 /\ UNCHANGED <<sample, publish_queue, mark>>
      BY <2>6 DEF mqtt_publish
    <3>1. CASE Goes("yield", client, toBroker, toClient)
      BY <1>0, <3>0, <3>1, GoesInOrder DEF Publishing
    <3>2. CASE Request(Packet("PUBLISH", msg), "puback", "yield")
      <4> DEFINE p == Packet("PUBLISH", msg)
      <4>1. p \in Pkt /\ p.type = "PUBLISH" /\ p.n = msg
        BY <1>0 DEF Packet, Pkt, Kinds, Requests
      <4>2. PICK next, s : /\ next \in {"puback", "yield"} /\ Asked(p, s)
                           /\ Goes(next, s.c, s.out, toClient)
        BY <3>2, RequestCases
      <4> HIDE DEF p
      <4>3. next \in Publishing /\ pc \in Publishing
        BY <3>0, <4>2 DEF Publishing
      <4>4. CASE s.out # Append(toBroker, p) \/ msg = 0
        <5>1. Samples(s.out) = Samples(toBroker) /\ Ordered(s.out, mark)
          <6>1. CASE s.out = toBroker
            BY <1>0, <6>1
          <6>2. CASE s.out = Append(toBroker, Packet("TORN", 0))
            <7>1. Packet("TORN", 0) \in Pkt /\ Packet("TORN", 0).type # "PUBLISH"
              BY DEF Packet, Pkt, Kinds, Requests
            <7> QED BY <1>0, <6>2, <7>1, SamplesAppend
          <6>3. CASE s.out = Append(toBroker, p) /\ msg = 0
            BY <1>0, <4>1, <6>3, SamplesAppend
          <6> QED BY <4>2, <4>4, <6>1, <6>2, <6>3 DEF Asked, Sent
        <5> QED BY <3>0, <4>2, <4>3, <5>1, GoesInOrder
      <4>5. CASE s.out = Append(toBroker, p) /\ msg # 0
        <5>1. /\ pc' = next /\ toBroker' = Append(toBroker, p)
              /\ UNCHANGED <<orphans, seen>>
          BY <4>2, <4>5 DEF Goes
        <5>2. mark < msg /\ \A n \in Gone : n < msg
          BY <4>5 DEF InOrder
        <5>3. /\ Ordered(Append(toBroker, p), mark)
              /\ Samples(Append(toBroker, p)) = Samples(toBroker) \cup {msg}
          BY <1>0, <4>1, <4>5, <5>2, SamplesAppend DEF Gone
        <5>4. Samples(toBroker)' = Samples(toBroker) \cup {msg} /\ Ordered(toBroker, mark)'
          BY <3>0, <5>1, <5>3
        <5>5. Gone' = Gone \cup {msg} /\ Past' = Past /\ Past \subseteq Gone
          BY <5>1, <5>4, Zenon DEF Gone, Past
        <5>6. Rising(publish_queue, msg, sample)' /\ msg' <= sample'
          BY <3>0, RisingFromZero
        <5>7. \A n \in Past', m \in Samples(toBroker)' : n < m
          BY <5>2, <5>4, <5>5 DEF InOrder
        <5>8. \A n \in Gone' : n <= sample' /\ \A k \in 1 .. Len(publish_queue') :
                publish_queue'[k] # 0 => n < publish_queue'[k]
          BY <3>0, <5>5 DEF InOrder, Rising
        <5>9. \A k \in 1 .. Len(publish_queue') : publish_queue'[k] # 0 => mark' < publish_queue'[k]
          BY <3>0, <4>3 DEF InOrder
        <5>10. pc' \in Publishing /\ orphans' \cap seen' = {} /\ mark' <= sample'
          BY <3>0, <4>3, <5>1 DEF InOrder
        <5> QED BY <3>0, <5>4, <5>6, <5>7, <5>8, <5>9, <5>10 DEF InOrder
      <4> QED BY <4>4, <4>5
    <3> QED BY <2>6, <3>1, <3>2 DEF mqtt_publish
  <2> QED BY <1>3, <2>1, <2>2, <2>3, <2>4, <2>5, <2>6 DEF Commands
<1>4. CASE waitfor
  <2>1. pc \in {"connack", "suback", "puback", "yield"} /\ UNCHANGED <<pubVars, msg, mark>>
    BY <1>4, WaitforCases
  <2>2. PICK p, in, s : Round(p, in, s)
    BY <1>4, WaitforCases
  <2>3. Samples(s.out) = Samples(toBroker) /\ Ordered(s.out, mark)
    BY <1>0, <2>2, SamplesExtended DEF Round
  <2>m. msg = 0 /\ msg' = 0
    BY <1>m, <2>1
  <2>4. CASE mqtt_network_disconnect(s)
    BY <2>1, <2>3, <2>4, <2>m, ClosesInOrder
  <2>5. ASSUME NEW next, NEW d, Proceeds(p, next, d), Goes(next, d, s.out, in)
        PROVE  InOrder'
    <3>1. next \in Publishing <=> pc \in Publishing
      BY <2>1, <2>5 DEF Proceeds, Publishing
    <3> QED BY <2>1, <2>3, <2>5, <2>m, <3>1, GoesInOrder
  <2> QED BY <2>2, <2>4, <2>5 DEF Round
<1>5. CASE TimedOut
  <2>1. UNCHANGED <<sample, publish_queue, msg, mark>> /\ msg = 0
        /\ pc \in {"connack", "suback", "puback", "yield"}
    BY <1>5, <1>m DEF TimedOut
  <2>2. CASE mqtt_network_disconnect([c |-> client, out |-> toBroker])
    BY <2>1, <2>2, ClosesInOrder
  <2>3. ASSUME NEW next, Goes(next, client, toBroker, toClient),
               next \in Publishing <=> pc \in Publishing
        PROVE  InOrder'
    BY <1>0, <2>1, <2>3, GoesInOrder
  <2> QED BY <1>5, <2>2, <2>3 DEF TimedOut, Publishing
<1>6. CASE BrokerReads
  <2> DEFINE p == Head(toBroker)
  <2>1. /\ toBroker # <<>> /\ toBroker' = Tail(toBroker)
        /\ UNCHANGED <<sample, publish_queue, msg, pc, orphans, mark>>
        /\ seen' = IF p.type = "PUBLISH" THEN seen \cup ({p.n} \ {0}) ELSE seen
    BY <1>6 DEF BrokerReads
  <2>2. /\ Ordered(Tail(toBroker), mark) /\ Samples(Tail(toBroker)) \subseteq Samples(toBroker)
        /\ p.type = "PUBLISH" /\ p.n # 0 =>
             p.n \in Samples(toBroker) /\ \A n \in Samples(Tail(toBroker)) : p.n < n
    BY <1>0, <2>1, SamplesTail
  <2> HIDE DEF p
  <2>3. Ordered(toBroker, mark)' /\ Samples(toBroker)' = Samples(Tail(toBroker))
    BY <2>1, <2>2
  <2> DEFINE new == IF p.type = "PUBLISH" THEN {p.n} \ {0} ELSE {}
  <2>4. /\ new \subseteq Samples(toBroker) /\ seen' = seen \cup new
        /\ \A n \in new, m \in Samples(Tail(toBroker)) : n < m
    <3>1. seen' = seen \cup new
      BY <2>1
    <3>2. \A n \in new : p.type = "PUBLISH" /\ n = p.n /\ p.n # 0
      OBVIOUS
    <3> QED BY <2>2, <3>1, <3>2
  <2> HIDE DEF new
  <2>5. Gone' \subseteq Gone /\ Past' = Past \cup new
    BY <2>1, <2>2, <2>3, <2>4, Zenon DEF Gone, Past
  <2>6. orphans' \cap seen' = {}
    <3>1. Samples(toBroker) \cap Past = {}
      BY PastApart
    <3> QED BY <2>1, <2>4, <3>1, Zenon DEF InOrder, Past
  <2>7. \A n \in Past', m \in Samples(toBroker)' : n < m
    BY <2>2, <2>3, <2>4, <2>5 DEF InOrder
  <2>8. Rising(publish_queue, msg, sample)'
    BY <2>1 DEF InOrder, Rising
  <2>9. Samples(toBroker)' # {} => Samples(toBroker) # {}
    BY <2>2, <2>3
  <2> QED BY <2>1, <2>3, <2>5, <2>6, <2>7, <2>8, <2>9 DEF InOrder
<1>7. CASE OrphanArrives
  <2>1. /\ UNCHANGED <<sample, publish_queue, msg, pc, toBroker, mark>>
        /\ \E n \in orphans : orphans' = orphans \ {n} /\ seen' = seen \cup {n}
    BY <1>7 DEF OrphanArrives
  <2>2. /\ Samples(toBroker)' = Samples(toBroker) /\ Ordered(toBroker, mark)'
        /\ Gone' = Gone /\ Past' = Past
    BY <2>1 DEF Gone, Past, Samples, Ordered, InOrder
  <2>3. orphans' \cap seen' = {}
    BY <2>1 DEF InOrder
  <2>4. Rising(publish_queue, msg, sample)'
    BY <2>1 DEF InOrder, Rising
  <2> QED BY <2>1, <2>2, <2>3, <2>4 DEF InOrder
<1> QED BY <1>1, <1>2, <1>3, <1>4, <1>5, <1>6, <1>7 DEF Next, mqtt_task

(* The order of the temperatures, for all time.                            *)
LEMMA InvInOrder == Spec => [](Shape /\ InOrder)
<1>1. Init => Shape /\ InOrder
  BY InitShape, InitInOrder
<1>2. Shape /\ InOrder /\ [Next]_vars => (Shape /\ InOrder)'
  BY NextShape, NextInOrder
<1> QED BY <1>1, <1>2, PTL DEF Spec

(* A temperature is put on the wire only in a session that began before it *)
(* was queued, and temperatures leave in the order they were queued, over  *)
(* every reconnection: the xQueueReset of mqtt_task drops what gathered    *)
(* without a connection, and what a closed connection may still deliver is *)
(* older than what the next one carries.                                   *)
THEOREM NoStaleTemperature == Spec => []NothingStale
<1>1. Shape /\ InOrder => NothingStale
  <2> SUFFICES ASSUME Shape, InOrder, NEW k \in DOMAIN toBroker,
                      toBroker[k].type = "PUBLISH", toBroker[k].n # 0
               PROVE  /\ toBroker[k].n > mark
                      /\ \A n \in seen \cup orphans \cup Samples(SubSeq(toBroker, 1, k - 1)) :
                           n < toBroker[k].n
    BY DEF NothingStale
  <2> DEFINE q == SubSeq(toBroker, 1, k - 1)
  <2>1. toBroker \in Seq(Pkt) /\ Len(toBroker) \in Nat /\ k \in 1 .. Len(toBroker)
        /\ k - 1 \in 0 .. Len(toBroker)
    BY DEF Shape, OutOK
  <2>2. q \in Seq(Pkt) /\ Len(q) = k - 1 /\ \A j \in 1 .. k - 1 : q[j] = toBroker[j]
    BY <2>1, PrefixAt
  <2> HIDE DEF q
  <2>3. toBroker[k].n \in Samples(toBroker)
    BY SamplesMember, Zenon
  <2>4. toBroker[k].n > mark
        /\ \A j \in 1 .. k - 1 : toBroker[j].type = "PUBLISH" => toBroker[j].n < toBroker[k].n
    BY DEF InOrder, Ordered
  <2>5. ASSUME NEW n \in Samples(q) PROVE n < toBroker[k].n
    <3>1. PICK j \in DOMAIN q : q[j].type = "PUBLISH" /\ q[j].n = n
      BY SamplesMember, Zenon
    <3>2. j \in 1 .. k - 1
      BY <2>2, <3>1
    <3> QED BY <2>2, <2>4, <3>1, <3>2
  <2>6. \A n \in seen \cup orphans : n < toBroker[k].n
    BY <2>3 DEF InOrder, Past
  <2> QED BY <2>4, <2>5, <2>6 DEF q
<1> QED BY <1>1, InvInOrder, PTL

(* A temperature reaches the broker at most once, over every connection    *)
(* that fails: mqtt_publish never sends again what was not acknowledged.   *)
THEOREM TemperatureAtMostOnce == Spec => []AtMostOnce
<1>1. Shape /\ InOrder => AtMostOnce
  <2> SUFFICES ASSUME Shape, InOrder PROVE AtMostOnce
    OBVIOUS
  <2>1. /\ DOMAIN publish_queue = 1 .. Len(publish_queue) /\ Gone \subseteq Nat
    BY NumbersAreNat
  <2>2. \A k \in DOMAIN publish_queue : publish_queue[k] # 0 => publish_queue[k] \notin Gone
    <3> SUFFICES ASSUME NEW k \in DOMAIN publish_queue, publish_queue[k] # 0,
                        publish_queue[k] \in Gone
                 PROVE  FALSE
      OBVIOUS
    <3>1. publish_queue[k] < publish_queue[k]
      BY <2>1 DEF InOrder
    <3>2. publish_queue[k] \in Nat
      BY <2>1
    <3> QED BY <3>1, <3>2
  <2>3. Samples(toBroker) \cap Past = {}
    BY PastApart
  <2> QED BY <2>2, <2>3 DEF InOrder, AtMostOnce, Gone, Past
<1> QED BY <1>1, InvInOrder, PTL
=============================================================================
