---------------------------- MODULE MqttSession ----------------------------
(***************************************************************************)
(* The session with the cloud in components/src/user_mqtt.c: what          *)
(* mqtt_event_handler_cb does when the client connects, when it is         *)
(* subscribed and when a message comes, with a client library that         *)
(* connects again by itself.                                               *)
(*                                                                         *)
(* The client's task handles events as they come, one at a time.  Packets  *)
(* keep their order within a connection and are lost with it; a message of *)
(* quality of service 1 stays in the client's outbox until it was          *)
(* acknowledged, and is sent again.  The broker forgets the subscription   *)
(* with the connection (a clean session).                                  *)
(***************************************************************************)
EXTENDS Naturals, Sequences

CONSTANT MaxPackets   \* bound: packets under way in one direction

VARIABLES
    started,     \* was esp_mqtt_client_start called?
    net,         \* can the broker be reached?
    connected,
    outbox,      \* messages of quality of service 1 not yet acknowledged
    up, down,    \* packets under way to the broker, and to the device
    subscription, \* to user_get, on this connection: "none" as yet, "granted" or "refused"
                  \* by the broker, "unasked" when the call that asks for it failed
    told,        \* "mqtt subscribe successful" on this connection: "no", "yes", or
                 \* "lost" when the call that sends it failed
    received     \* messages handed to the gateway: "none", "some"

connection == <<connected, up, down, subscription, told>>
vars == <<started, net, connection, outbox, received>>

Data   == {"mqtt connect ok", "mqtt subscribe successful"}
ToBroker == Data \cup {"subscribe"}
ToDevice == {"puback", "suback", "message"}

NoConnection == /\ connected = FALSE /\ up = <<>> /\ down = <<>>
                /\ subscription = "none" /\ told = "no"

Init ==
    /\ started = FALSE /\ net = FALSE /\ outbox = {} /\ received = "none"
    /\ NoConnection

Drop == /\ connected' = FALSE /\ up' = <<>> /\ down' = <<>>
        /\ subscription' = "none" /\ told' = "no"

\* The device restarts.
Restart ==
    /\ Drop
    /\ started' = FALSE /\ net' = FALSE /\ outbox' = {} /\ received' = "none"

---------------------------------------------------------------------------
(* user_mqtt_app_start: from here on the library connects, now or later.   *)

Start ==
    /\ ~started
    /\ started' = TRUE
    /\ UNCHANGED <<net, connection, outbox, received>>

NetChanges ==
    /\ net' = ~net
    /\ UNCHANGED <<started, connection, outbox, received>>

---------------------------------------------------------------------------
(* mqtt_event_handler_cb.                                                  *)

Issued(message, lost) == IF message \in lost THEN <<>> ELSE <<message>>

OnConnectedOnce(lost) ==     \* mutant: subscribes until a message has come once
    Issued("mqtt connect ok", lost)
      \o (IF received = "none" THEN Issued("subscribe", lost) ELSE <<>>)

OnConnectedEarly(lost) ==    \* mutant: the success is told of before it is known
    Issued("mqtt connect ok", lost) \o <<"mqtt subscribe successful">>
      \o Issued("subscribe", lost)

\* What is sent when the client is connected; a call that fails is only written to the
\* log.
OnConnected(lost) == Issued("mqtt connect ok", lost) \o Issued("subscribe", lost)

EventConnected ==
    /\ started /\ net /\ ~connected
    /\ connected' = TRUE
    /\ \E lost \in SUBSET {"mqtt connect ok", "subscribe"} :
          /\ up' = OnConnected(lost)
          /\ outbox' = outbox \cup ({"mqtt connect ok"} \ lost)
          /\ subscription' = IF "subscribe" \in lost THEN "unasked" ELSE subscription
    /\ UNCHANGED <<started, net, down, told, received>>

\* Only written to the log.
EventDisconnected ==
    /\ connected /\ ~net
    /\ Drop
    /\ UNCHANGED <<started, net, outbox, received>>

Arrives(packet) == connected /\ down # <<>> /\ Head(down) = packet /\ down' = Tail(down)

\* The broker has answered; nobody looks at what. The call that tells of it may fail.
EventSubscribed ==
    /\ Arrives("suback")
    /\ \/ /\ Len(up) < MaxPackets /\ up' = Append(up, "mqtt subscribe successful")
          /\ UNCHANGED told
       \/ told' = "lost" /\ UNCHANGED up
    /\ UNCHANGED <<started, net, connected, outbox, subscription, received>>

EventPublished ==
    /\ Arrives("puback")
    /\ outbox' = outbox \ {"mqtt connect ok"}
    /\ UNCHANGED <<started, net, connected, up, subscription, told, received>>

\* The gateway's part of the handler is MqttGateway.
EventData ==
    /\ Arrives("message")
    /\ received' = "some"
    /\ UNCHANGED <<started, net, connected, up, outbox, subscription, told>>

---------------------------------------------------------------------------
(* The client library, the broker and the cloud.                           *)

\* What was not acknowledged is sent again.
Resend ==
    /\ connected /\ Len(up) < MaxPackets
    /\ \E message \in outbox : up' = Append(up, message)
    /\ UNCHANGED <<started, net, connected, down, outbox, subscription, told, received>>

Broker ==
    /\ net /\ connected /\ up # <<>> /\ Len(down) < MaxPackets
    /\ up' = Tail(up)
    /\ LET packet == Head(up) IN
       \/ /\ packet = "subscribe"
          /\ subscription' \in {"granted", "refused"} /\ down' = Append(down, "suback")
          /\ UNCHANGED told
       \/ /\ packet = "mqtt connect ok"
          /\ down' = Append(down, "puback")
          /\ UNCHANGED <<subscription, told>>
       \/ /\ packet = "mqtt subscribe successful"
          /\ told' = "yes"
          /\ UNCHANGED <<subscription, down>>
    /\ UNCHANGED <<started, net, connected, outbox, received>>

CloudSends ==
    /\ net /\ connected /\ subscription = "granted" /\ Len(down) < MaxPackets
    /\ down' = Append(down, "message")
    /\ UNCHANGED <<started, net, connected, up, outbox, subscription, told, received>>

---------------------------------------------------------------------------
Handler == \/ EventConnected \/ EventDisconnected
           \/ EventSubscribed \/ EventPublished \/ EventData
Others  == Resend \/ Broker \/ CloudSends

Next == Start \/ NetChanges \/ Handler \/ Others \/ Restart

Spec == Init /\ [][Next]_vars

---------------------------------------------------------------------------
TypeOK ==
    /\ started \in BOOLEAN /\ net \in BOOLEAN /\ connected \in BOOLEAN
    /\ outbox \subseteq Data
    /\ up \in Seq(ToBroker) /\ down \in Seq(ToDevice)
    /\ subscription \in {"none", "unasked", "granted", "refused"}
    /\ told \in {"no", "lost", "yes"}
    /\ received \in {"none", "some"}

\* The cloud is told "mqtt subscribe successful" only on a connection on which the broker
\* has answered, whatever was lost and sent again on the connections before
\* (user_mqtt.c:85-104).
AnnouncedMeansAnswered == told = "yes" => subscription \in {"granted", "refused"}

\* The event is that the topic was subscribed successfully, as its comment and the
\* message say (user_mqtt.c:98-101, 65): whoever is told so has a device that listens.
AnnouncedMeansSubscribed == told = "yes" => subscription = "granted"

\* On every connection the subscription was answered or asked for, and the cloud has been
\* told of it or what will make the device tell it is under way, whatever the connections
\* before have lost, unless the very call that asks or tells has failed
\* (user_mqtt.c:85-104).
SubscriptionOnItsWay ==
    connected =>
      /\ subscription # "none" \/ \E i \in DOMAIN up : up[i] = "subscribe"
      /\ \/ told # "no" \/ subscription = "unasked"
         \/ \E i \in DOMAIN up : up[i] \in {"subscribe", "mqtt subscribe successful"}
         \/ \E i \in DOMAIN down : down[i] = "suback"

\* If the broker can be reached for good, and in the end neither refuses nor the call
\* that asks it fails, the device ends up subscribed, after any number of lost
\* connections (user_mqtt.c:85-93).
SubscribedAgain ==
    <>[](started /\ net /\ subscription \notin {"refused", "unasked"})
      => <>[](subscription = "granted")
============================================================================
