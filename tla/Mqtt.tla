-------------------------------- MODULE Mqtt --------------------------------
(***************************************************************************)
(* The network side of examples/cpe439 (mqtt_app.c): temp_pub_task queues  *)
(* temperatures, mqtt_task publishes them through the MQTT client of       *)
(* extras/paho_mqtt_c and receives colours, colorLock shows the colours.   *)
(* With a broker, and a TCP connection that may die at any point.          *)
(*                                                                         *)
(* The queues are the bounded sequences of QueueSpec, which the ring and   *)
(* the blocking of Queue implement.  Colours and temperatures are numbered *)
(* as they come.  Temperatures never stop coming: when the numbers are     *)
(* used up they come as 0, a temperature that is not followed; a colour 0  *)
(* is none of the broker's.  A packet is its type with one number; packet  *)
(* identifiers are left out, the client does not compare them.  Timers are *)
(* events: the timer of a command or of mqtt_yield may run out at any      *)
(* point of the wait, the ping timer whenever it is armed.  wifi_task,     *)
(* which gives a semaphore for as long as there is an address, shows only  *)
(* in whether mqtt_task waits for it and whether connecting succeeds; both *)
(* are open.                                                               *)
(***************************************************************************)
EXTENDS Integers, Sequences

CONSTANTS
  MaxSamples,      \* temperatures that are followed
  MaxColours,      \* colours the broker sends
  MaxBoth,         \* the two together, when there are both
  MaxSessions,     \* connections that come about
  PubLength,       \* length of publish_queue
  RgbLength,       \* length of rgbRxQueue
  Window,          \* packets a direction of the connection holds
  MaxFail          \* MQTT_MAX_FAIL_ALLOWED

ASSUME ConstantsAssumption ==
  /\ {MaxSamples, MaxColours, MaxBoth, MaxSessions} \subseteq Nat
  /\ {PubLength, RgbLength, Window, MaxFail} \subseteq Nat \ {0}

VARIABLES
  sample,              \* the last temperature followed
  publish_queue, msg,  \* and the message mqtt_task took from it
  pc,                  \* where mqtt_task is
  client,              \* mqtt_client_t
  link,                \* the TCP connection: "none", "up" or "dead"
  toBroker, toClient,  \* the packets on their way
  orphans,             \* temperatures a closed connection may still deliver
  session,             \* the broker has accepted this connection
  subscribed, sessions, colours,
  seen,                \* temperatures the broker has got
  mark,                \* the last one before this session's reset
  rgbRxQueue, cur_color

pubVars == <<sample, publish_queue>>
netVars == <<link, toBroker, toClient, orphans>>
brokerVars == <<session, subscribed, sessions, colours, seen>>
rgbVars == <<rgbRxQueue, cur_color>>
vars == <<pubVars, msg, pc, client, netVars, brokerVars, mark, rgbVars>>

PubQueue == INSTANCE QueueSpec
  WITH Items <- 0 .. MaxSamples, Length <- PubLength, items <- publish_queue,
       out <- msg
RgbQueue == INSTANCE QueueSpec
  WITH Items <- 0 .. MaxColours, Length <- RgbLength, items <- rgbRxQueue,
       out <- cur_color

Packet(type, n) == [type |-> type, n |-> n]

(* What is found in a packet of length 0: connack_rc and grantedQoS keep   *)
(* their initial values, no code of a broker; topic and payload are unset. *)
Unread == -1

mqtt_client_new ==
  [isconnected |-> FALSE, ping_outstanding |-> FALSE, fail_count |-> 0,
   ping_due |-> FALSE, handlers |-> 0]

(* The type invariant of the tasks, the client and the connection.         *)
TypeOK ==
  /\ sample \in 0 .. MaxSamples /\ msg \in 0 .. MaxSamples /\ mark \in 0 .. MaxSamples
  /\ publish_queue \in Seq(0 .. MaxSamples) /\ Len(publish_queue) <= PubLength
  /\ pc \in {"wifi", "tcp", "connect", "connack", "subscribe", "suback", "reset",
             "receive", "publish", "puback", "yield"}
  /\ client \in [isconnected : BOOLEAN, ping_outstanding : BOOLEAN,
                 fail_count : 0 .. MaxFail, ping_due : BOOLEAN, handlers : Nat]
  /\ link \in {"none", "up", "dead"} /\ (link = "none") = (pc \in {"wifi", "tcp"})
  /\ \A q \in {toBroker, toClient} :
       Len(q) <= Window /\ \A k \in DOMAIN q : q[k].n \in Nat \cup {Unread}
  /\ orphans \subseteq 1 .. MaxSamples /\ seen \subseteq 1 .. MaxSamples
  /\ session \in BOOLEAN /\ subscribed \in BOOLEAN
  /\ sessions \in 0 .. MaxSessions /\ colours \in 0 .. MaxColours
  /\ rgbRxQueue \in Seq(0 .. MaxColours) /\ Len(rgbRxQueue) <= RgbLength
  /\ cur_color \in 0 .. MaxColours

Init ==
  /\ sample = 0 /\ publish_queue = <<>> /\ msg = 0 /\ mark = 0
  /\ pc = "wifi" /\ client = mqtt_client_new
  /\ link = "none" /\ toBroker = <<>> /\ toClient = <<>> /\ orphans = {}
  /\ session = FALSE /\ subscribed = FALSE /\ sessions = 0 /\ colours = 0
  /\ seen = {} /\ rgbRxQueue = <<>> /\ cur_color = 0
-----------------------------------------------------------------------------
(* The bounds on the temperatures and colours that are numbered.           *)
InBounds(s, c) ==
  s <= MaxSamples /\ c <= MaxColours /\ (s = 0 \/ c = 0 \/ s + c <= MaxBoth)

(* The other tasks.                                                        *)

(* The xQueueSend of temp_pub_task; what it waits for before, tempPubQueue *)
(* and its delay, decides only when.  A temperature that finds             *)
(* publish_queue full is dropped.                                          *)
temp_pub_task ==
  /\ LET n == IF InBounds(sample + 1, colours) THEN sample + 1 ELSE 0
     IN  /\ sample' = IF n = 0 THEN sample ELSE n
         /\ \/ PubQueue!SendToBack(n)
            \/ ~PubQueue!Room /\ UNCHANGED <<publish_queue, msg>>
  /\ UNCHANGED <<pc, client, netVars, brokerVars, mark, rgbVars>>

colorLock ==
  /\ RgbQueue!Receive
  /\ UNCHANGED <<pubVars, msg, pc, client, netVars, brokerVars, mark>>
-----------------------------------------------------------------------------
(* The broker and the connection.                                          *)

Answers(p) ==
  CASE p.type = "CONNECT"   -> {Packet("CONNACK", 0), Packet("CONNACK", 1)}
    [] p.type = "SUBSCRIBE" -> {Packet("SUBACK", 0), Packet("SUBACK", 128)}
    [] p.type = "PUBLISH"   -> {Packet("PUBACK", 0)}
    [] p.type = "PINGREQ"   -> {Packet("PINGRESP", 0)}

(* The broker cannot read on behind a packet that was sent in part.        *)
BrokerReads ==
  /\ link = "up" /\ toBroker # <<>> /\ Head(toBroker).type # "TORN"
  /\ LET p == Head(toBroker)
     IN  /\ toBroker' = Tail(toBroker)
         /\ \/ p.type = "PUBACK" /\ UNCHANGED <<toClient, session, subscribed>>
            \/ /\ p.type # "PUBACK" /\ Len(toClient) < Window
               /\ \E a \in Answers(p) :
                    /\ toClient' = Append(toClient, a)
                    /\ session' = (session \/ a = Packet("CONNACK", 0))
                    /\ subscribed' = (subscribed \/ a = Packet("SUBACK", 0))
         /\ seen' = IF p.type = "PUBLISH" THEN seen \cup ({p.n} \ {0}) ELSE seen
  /\ UNCHANGED <<pubVars, msg, pc, client, link, orphans, sessions, colours,
                 mark, rgbVars>>

(* What mqtt_network_disconnect leaves unsent may arrive all the same.     *)
OrphanArrives ==
  /\ \E n \in orphans : orphans' = orphans \ {n} /\ seen' = seen \cup {n}
  /\ UNCHANGED <<pubVars, msg, pc, client, link, toBroker, toClient, session,
                 subscribed, sessions, colours, mark, rgbVars>>

(* A colour, with quality of service 0 ("PUBLISH0") or 1.                  *)
BrokerPublishes ==
  /\ link = "up" /\ subscribed /\ InBounds(sample, colours + 1) /\ Len(toClient) < Window
  /\ colours' = colours + 1
  /\ \E type \in {"PUBLISH0", "PUBLISH"} :
       toClient' = Append(toClient, Packet(type, colours + 1))
  /\ UNCHANGED <<pubVars, msg, pc, client, link, toBroker, orphans, session,
                 subscribed, sessions, seen, mark, rgbVars>>

(* The connection dies with a part of toClient delivered.  Of a packet     *)
(* longer than its header the header alone may have come ("TORN"), or the  *)
(* first byte alone: decode_packet takes the length it cannot read for 0.  *)
Samples(q) == {q[k].n : k \in {j \in DOMAIN q : q[j].type = "PUBLISH"}} \ {0}

LinkDies ==
  /\ link = "up" /\ link' = "dead"
  /\ \E k \in 0 .. Len(toClient) :
       \/ toClient' = SubSeq(toClient, 1, k)
       \/ /\ k > 0 /\ toClient[k].type # "PINGRESP"
          /\ \E p \in {Packet("TORN", 0), Packet(toClient[k].type, Unread)} :
               toClient' = Append(SubSeq(toClient, 1, k - 1), p)
  /\ UNCHANGED <<pubVars, msg, pc, client, toBroker, orphans, brokerVars,
                 mark, rgbVars>>
-----------------------------------------------------------------------------
Least(m, n) == IF m <= n THEN m ELSE n

(* The MQTT client.  s is the client (c) with the packets on their way to  *)
(* the broker (out) and the result so far (rc).  fail_count stops at       *)
(* MaxFail: it is only compared with it.                                   *)

Full(q) == Len(q) >= Window

(* What comes of sending: where there is room, all of it or a part; and    *)
(* nothing, when the timer runs out or the socket fails.                   *)
mqttwrite(q) == IF Full(q) THEN {"none"} ELSE {"all", "part", "none"}

(* Mutant: the ping timer is started again whatever was sent.              *)
send_packet_always_rearms(s, p, sent) ==
  CASE sent = "all"  -> [s EXCEPT !.out = Append(@, p), !.c.ping_due = FALSE]
    [] sent = "part" -> [s EXCEPT !.out = Append(@, Packet("TORN", 0)), !.c.ping_due = FALSE]
    [] sent = "none" -> [s EXCEPT !.c.ping_due = FALSE]

send_packet(s, p, sent) ==
  CASE sent = "all"  -> [s EXCEPT !.out = Append(@, p), !.c.ping_due = FALSE]
    [] sent = "part" -> [s EXCEPT !.out = Append(@, Packet("TORN", 0))]
    [] sent = "none" -> s

keepalive(s, sent) ==
  LET fails == s.c.fail_count + 1
  IN  CASE ~s.c.ping_due -> s
        [] s.c.ping_due /\ s.c.ping_outstanding /\ fails >= MaxFail ->
             [s EXCEPT !.c.fail_count = MaxFail, !.rc = "DISCONNECTED"]
        [] s.c.ping_due /\ s.c.ping_outstanding /\ fails < MaxFail ->
             [s EXCEPT !.c.fail_count = fails, !.c.ping_due = FALSE]
        [] s.c.ping_due /\ ~s.c.ping_outstanding ->
             [send_packet(s, Packet("PINGREQ", 0), sent) EXCEPT
                !.c.ping_outstanding = TRUE, !.c.ping_due = FALSE]

(* What cycle does about the packet of that type, before keepalive.        *)
Handled(s, type, sent) ==
  CASE type = "PUBLISH"  -> [send_packet(s, Packet("PUBACK", 0), sent) EXCEPT
                               !.rc = IF sent = "all" THEN @ ELSE "FAILURE"]
    [] type = "PINGRESP" -> [s EXCEPT !.c.ping_outstanding = FALSE, !.c.fail_count = 0]
    [] type = "TORN"     -> [s EXCEPT !.c.isconnected = FALSE, !.rc = "DISCONNECTED"]
    [] OTHER             -> s

cycle(s, type) ==
  UNION {{IF h.c.isconnected /\ h.rc # "FAILURE" THEN keepalive(h, sent) ELSE h :
            sent \in mqttwrite(h.out)} :
          h \in {Handled(s, type, sent) : sent \in mqttwrite(s.out)}}

(* topic_received, once for each handler; a full rgbRxQueue drops.  For a  *)
(* packet of length 0 topic and payload are what the stack held: they may  *)
(* match a handler, with any colour.                                       *)
deliver_message(p) ==
  /\ \/ /\ p.type \in {"PUBLISH", "PUBLISH0"}
        /\ LET n == IF p.n = Unread THEN 0 ELSE p.n
           IN  rgbRxQueue' = SubSeq(rgbRxQueue \o [k \in 1 .. client.handlers |-> n], 1,
                                    Least(Len(rgbRxQueue) + client.handlers, RgbLength))
     \/ /\ p.type \notin {"PUBLISH", "PUBLISH0"} \/ p.n = Unread
        /\ UNCHANGED rgbRxQueue
  /\ UNCHANGED cur_color

mqtt_network_disconnect(s) ==
  /\ pc' = "wifi" /\ client' = s.c /\ link' = "none"
  /\ toBroker' = <<>> /\ toClient' = <<>> /\ orphans' = orphans \cup Samples(s.out)
  /\ session' = FALSE /\ subscribed' = FALSE
  /\ UNCHANGED <<sessions, colours, seen>>

(* Goes on to next with the client c, the connection kept.                 *)
Goes(next, c, out, in) ==
  /\ pc' = next /\ client' = c /\ toBroker' = out /\ toClient' = in
  /\ UNCHANGED <<link, orphans, brokerVars>>

(* What each wait of mqtt_connect, mqtt_subscribe and mqtt_publish is for. *)
Awaited == [connack |-> "CONNACK", suback |-> "SUBACK", puback |-> "PUBACK",
            yield |-> "DISCONNECTED"]

(* Mutant: any CONNACK is taken for an acceptance.                         *)
Got_any_connack(p, s, in) ==
  \/ /\ pc = "connack"
     /\ Goes("subscribe", [s.c EXCEPT !.isconnected = TRUE], s.out, in)
  \/ pc = "suback" /\ p.n = 128 /\ Goes("reset", s.c, s.out, in)
  \/ /\ pc = "suback" /\ p.n # 128
     /\ Goes("reset", [s.c EXCEPT !.handlers = @ + 1], s.out, in)
  \/ pc = "puback" /\ Goes("receive", [s.c EXCEPT !.fail_count = 0], s.out, in)
  \/ pc = "yield" /\ mqtt_network_disconnect(s)

(* The packet p the wait is for has come.                                  *)
Got(p, s, in) ==
  \/ /\ pc = "connack" /\ p.n = 0
     /\ Goes("subscribe", [s.c EXCEPT !.isconnected = TRUE], s.out, in)
  \/ pc = "connack" /\ p.n # 0 /\ mqtt_network_disconnect(s)
  \/ pc = "suback" /\ p.n = 128 /\ Goes("reset", s.c, s.out, in)
  \/ /\ pc = "suback" /\ p.n # 128
     /\ Goes("reset", [s.c EXCEPT !.handlers = @ + 1], s.out, in)
  \/ pc = "puback" /\ Goes("receive", [s.c EXCEPT !.fail_count = 0], s.out, in)
  \/ pc = "yield" /\ mqtt_network_disconnect(s)

(* A round of waitfor or of mqtt_yield.                                    *)
waitfor ==
  /\ pc \in DOMAIN Awaited
  /\ LET p  == IF toClient = <<>> THEN Packet("NOTHING", 0) ELSE Head(toClient)
         in == IF toClient = <<>> THEN <<>> ELSE Tail(toClient)
     IN  /\ deliver_message(p)
         /\ \E s \in cycle([c |-> client, out |-> toBroker, rc |-> p.type], p.type) :
              IF s.rc = Awaited[pc] THEN Got(p, s, in) ELSE Goes(pc, s.c, s.out, in)
  /\ UNCHANGED <<pubVars, msg, mark>>

(* The timer of the wait runs out.                                         *)
TimedOut ==
  /\ pc \in DOMAIN Awaited
  /\ LET s == [c |-> client, out |-> toBroker]
     IN  \/ pc = "connack" /\ mqtt_network_disconnect(s)
         \/ pc = "suback" /\ Goes("reset", client, toBroker, toClient)
         \/ pc = "puback" /\ Goes("yield", client, toBroker, toClient)
         \/ pc = "yield" /\ Goes("receive", client, toBroker, toClient)
  /\ UNCHANGED <<pubVars, msg, mark, rgbVars>>

PingTimer ==
  /\ link # "none" /\ ~client.ping_due
  /\ client' = [client EXCEPT !.ping_due = TRUE]
  /\ UNCHANGED <<pubVars, msg, pc, netVars, brokerVars, mark, rgbVars>>
-----------------------------------------------------------------------------
(* mqtt_task.                                                              *)

xSemaphoreTake ==
  /\ pc = "wifi" /\ pc' = "tcp"
  /\ UNCHANGED <<client, netVars, brokerVars, pubVars, msg, mark>>

(* Mutant: mqtt_client_new leaves the message handlers.                    *)
mqtt_network_connect_keeps_handlers ==
  /\ pc = "tcp"
  /\ \/ /\ sessions < MaxSessions /\ sessions' = sessions + 1
        /\ link' = "up" /\ pc' = "connect"
        /\ client' = [mqtt_client_new EXCEPT !.handlers = client.handlers]
     \/ pc' = "wifi" /\ UNCHANGED <<sessions, link, client>>
  /\ UNCHANGED <<toBroker, toClient, orphans, session, subscribed, colours, seen, pubVars,
                 msg, mark>>

mqtt_network_connect ==
  /\ pc = "tcp"
  /\ \/ /\ sessions < MaxSessions /\ sessions' = sessions + 1
        /\ link' = "up" /\ pc' = "connect" /\ client' = mqtt_client_new
     \/ pc' = "wifi" /\ UNCHANGED <<sessions, link, client>>
  /\ UNCHANGED <<toBroker, toClient, orphans, session, subscribed, colours,
                 seen, pubVars, msg, mark>>

(* Sends p and waits for the answer, or goes on to failed.                 *)
Request(p, wait, failed) ==
  \E sent \in mqttwrite(toBroker) :
    LET s == send_packet([c |-> client, out |-> toBroker], p, sent)
    IN  Goes(IF sent = "all" THEN wait ELSE failed, s.c, s.out, toClient)

(* Mutant: a failing mqtt_connect leaves the connection open.              *)
mqtt_connect_leaves_open ==
  /\ pc = "connect" /\ Request(Packet("CONNECT", 0), "connack", "wifi")
  /\ UNCHANGED <<pubVars, msg, mark>>

mqtt_connect ==
  /\ pc = "connect"
  /\ \E sent \in mqttwrite(toBroker) :
       LET s == send_packet([c |-> client, out |-> toBroker], Packet("CONNECT", 0), sent)
       IN  IF sent = "all" THEN Goes("connack", s.c, s.out, toClient)
                           ELSE mqtt_network_disconnect(s)
  /\ UNCHANGED <<pubVars, msg, mark>>

mqtt_subscribe ==
  /\ pc = "subscribe" /\ Request(Packet("SUBSCRIBE", 0), "suback", "reset")
  /\ UNCHANGED <<pubVars, msg, mark>>

(* Mutant: publish_queue is not reset.                                     *)
xQueueReset_left_out ==
  /\ pc = "reset" /\ mark' = sample
  /\ Goes("receive", client, toBroker, toClient)
  /\ UNCHANGED <<pubVars, msg>>

xQueueReset ==
  /\ pc = "reset" /\ PubQueue!Reset /\ mark' = sample
  /\ Goes("receive", client, toBroker, toClient)
  /\ UNCHANGED <<sample>>

(* Mutant: the message stays queued until the next session.                *)
xQueueReceive_peeks ==
  /\ pc = "receive"
  /\ \/ PubQueue!Peek /\ Goes("publish", client, toBroker, toClient)
     \/ /\ publish_queue = <<>> /\ UNCHANGED <<publish_queue, msg>>
        /\ Goes("yield", client, toBroker, toClient)
  /\ UNCHANGED <<sample, mark>>

xQueueReceive ==
  /\ pc = "receive"
  /\ \/ PubQueue!Receive /\ Goes("publish", client, toBroker, toClient)
     \/ /\ publish_queue = <<>> /\ UNCHANGED <<publish_queue, msg>>
        /\ Goes("yield", client, toBroker, toClient)
  /\ UNCHANGED <<sample, mark>>

(* msg is cleared: no other publish reads it.                              *)
mqtt_publish ==
  /\ pc = "publish" /\ msg' = 0
  /\ \/ client.isconnected /\ Request(Packet("PUBLISH", msg), "puback", "yield")
     \/ ~client.isconnected /\ Goes("yield", client, toBroker, toClient)
  /\ UNCHANGED <<pubVars, mark>>

Commands ==
  /\ \/ xSemaphoreTake \/ mqtt_network_connect \/ mqtt_connect \/ mqtt_subscribe
     \/ xQueueReset \/ xQueueReceive \/ mqtt_publish
  /\ UNCHANGED rgbVars

mqtt_task == Commands \/ waitfor \/ TimedOut
-----------------------------------------------------------------------------
Next ==
  \/ temp_pub_task \/ colorLock \/ mqtt_task \/ PingTimer
  \/ BrokerReads \/ OrphanArrives \/ BrokerPublishes \/ LinkDies

Spec == Init /\ [][Next]_vars

(* mqtt_task runs on, timers run out, and mqtt_yield looks at the          *)
(* connection: its second does not go by, every time, before it has begun. *)
FairSpec ==
  /\ Spec
  /\ WF_vars(Commands) /\ WF_vars(TimedOut) /\ WF_vars(PingTimer)
  /\ SF_vars(pc = "yield" /\ waitfor)
-----------------------------------------------------------------------------
(* A temperature is put on the wire only in a session that began before it *)
(* was queued (the xQueueReset of mqtt_task drops what gathered while      *)
(* there was no connection), and temperatures leave in the order they were *)
(* queued, over every reconnection: one on the wire is newer than all the  *)
(* broker has got, may still get from a closed connection, or finds ahead  *)
(* of it.                                                                  *)
NothingStale ==
  \A k \in DOMAIN toBroker : toBroker[k].type = "PUBLISH" /\ toBroker[k].n # 0 =>
    /\ toBroker[k].n > mark
    /\ \A n \in seen \cup orphans \cup Samples(SubSeq(toBroker, 1, k - 1)) :
         n < toBroker[k].n

(* A temperature reaches the broker at most once: one that is on its way   *)
(* is not on another connection, not still queued, and has not arrived;    *)
(* mqtt_publish never sends again what was not acknowledged in time.       *)
AtMostOnce ==
  /\ Samples(toBroker) \cap (seen \cup orphans) = {} /\ orphans \cap seen = {}
  /\ \A k \in DOMAIN publish_queue : publish_queue[k] # 0 =>
       publish_queue[k] \notin Samples(toBroker) \cup seen \cup orphans

(* Nothing but CONNECT is sent before the broker has accepted this very    *)
(* connection: not after a refusal, nor on an answer to an earlier one,    *)
(* nor after a CONNECT that went out in part.                              *)
AcceptedFirst ==
  \A k \in DOMAIN toBroker : toBroker[k].type # "CONNECT" => session

(* Each colour of the broker is shown at most once and in the order the    *)
(* broker sent them, over every reconnection: a session has one handler.   *)
EachColourOnce ==
  LET shown == <<cur_color>> \o rgbRxQueue
  IN  \A j, k \in DOMAIN shown : j < k /\ shown[k] # 0 => shown[j] < shown[k]

(* A connection that died while the client takes itself to be connected is *)
(* closed, whatever is queued for publishing, or found broken by a read:   *)
(* the pings of keepalive go unanswered and mqtt_yield says DISCONNECTED.  *)
DeadLinkFound ==
  (link = "dead" /\ client.isconnected) ~> (link = "none" \/ ~client.isconnected)

(* cycle: "we simulate a disconnect if reading error", "so that the outer  *)
(* layer will reconnect and recover": after a read error mqtt_task closes  *)
(* the connection.                                                         *)
ReadErrorRecovers ==
  (pc = "yield" /\ ~client.isconnected) ~> link = "none"
=============================================================================
