-------------------------- MODULE MqttSession_proofs --------------------------
(***************************************************************************)
(* The session with the cloud, for any bound on the packets under way.     *)
(*                                                                         *)
(* That the cloud is told of a subscription only where it was answered     *)
(* does not follow from the property alone: the message may be under way,  *)
(* or the answer that it is sent upon, while the connection is lost.  The  *)
(* invariant says of both where they can be, and that only the first       *)
(* message of a connection is ever sent again on another one.  The other   *)
(* way round, the answer or what leads to it is never missing, unless the  *)
(* very call that asks or tells has failed.                                *)
(***************************************************************************)
EXTENDS MqttSession, TLAPS

---------------------------------------------------------------------------
(* The inductive invariant.                                                *)

\* What is sent again is never the success.
OnlyTheGreeting == outbox \subseteq {"mqtt connect ok"}

Answered == subscription \in {"granted", "refused"}

\* Without an answer nothing that tells of it is under way.
NothingTellsOfIt ==
    ~Answered => /\ up \in Seq({"mqtt connect ok", "subscribe"})
                 /\ down \in Seq({"puback", "message"})
                 /\ told = "no"

\* Packets and the subscription are gone with the connection.
GoneWithIt == ~connected => NoConnection

Kept == OnlyTheGreeting /\ NothingTellsOfIt /\ GoneWithIt

---------------------------------------------------------------------------
(* Sequences.                                                              *)

LEMMA TailTyped ==
    ASSUME NEW S, NEW s \in Seq(S), s # <<>>
    PROVE  Head(s) \in S /\ Tail(s) \in Seq(S)
  OBVIOUS

LEMMA AppendTyped ==
    ASSUME NEW S, NEW s \in Seq(S), NEW e \in S
    PROVE  Append(s, e) \in Seq(S)
  OBVIOUS

LEMMA ConcatTyped ==
    ASSUME NEW S, NEW s \in Seq(S), NEW t \in Seq(S) PROVE s \o t \in Seq(S)
  OBVIOUS

LEMMA EmptyTyped == ASSUME NEW S PROVE <<>> \in Seq(S)
  OBVIOUS

LEMMA IssuedTyped ==
    ASSUME NEW S, NEW message \in S, NEW lost PROVE Issued(message, lost) \in Seq(S)
<1>1. CASE message \in lost
  BY <1>1, EmptyTyped DEF Issued
<1>2. CASE message \notin lost
  <2>1. <<message>> \in Seq(S)
    OBVIOUS
  <2> QED
    BY <1>2, <2>1 DEF Issued
<1> QED
  BY <1>1, <1>2

\* Whichever calls fail on a new connection, nothing else is sent.
LEMMA ConnectedSends ==
    ASSUME NEW lost, NEW S, "mqtt connect ok" \in S, "subscribe" \in S
    PROVE  OnConnected(lost) \in Seq(S)
BY IssuedTyped, ConcatTyped DEF OnConnected

---------------------------------------------------------------------------
(* The type invariant.                                                     *)

LEMMA DropTyped ==
    ASSUME Drop
    PROVE  /\ connected' = FALSE /\ subscription' = "none" /\ told' = "no"
           /\ up' \in Seq(ToBroker) /\ down' \in Seq(ToDevice)
  BY EmptyTyped DEF Drop

LEMMA InitTyped == Init => TypeOK
<1> SUFFICES ASSUME Init PROVE TypeOK
  OBVIOUS
<1>1. up \in Seq(ToBroker) /\ down \in Seq(ToDevice)
  BY EmptyTyped DEF Init, NoConnection
<1>2. outbox \subseteq Data
  BY DEF Init
<1> QED
  BY <1>1, <1>2 DEF Init, NoConnection, TypeOK

LEMMA RestartTyped == TypeOK /\ Restart => TypeOK'
  BY DropTyped DEF Restart, TypeOK

LEMMA HandlerTyped == TypeOK /\ Handler => TypeOK'
<1> SUFFICES ASSUME TypeOK, Handler PROVE TypeOK'
  OBVIOUS
<1>1. CASE EventConnected
  <2>1. PICK lost \in SUBSET {"mqtt connect ok", "subscribe"} :
               /\ up' = OnConnected(lost)
               /\ outbox' = outbox \cup ({"mqtt connect ok"} \ lost)
               /\ subscription' = IF "subscribe" \in lost THEN "unasked" ELSE subscription
    BY <1>1 DEF EventConnected
  <2>2. up' \in Seq(ToBroker)
    BY <2>1, ConnectedSends DEF ToBroker, Data
  <2>3. outbox' \subseteq Data
    BY <2>1 DEF TypeOK, Data
  <2>4. subscription' \in {"none", "unasked", "granted", "refused"}
    BY <2>1 DEF TypeOK
  <2> QED
    BY <1>1, <2>2, <2>3, <2>4 DEF EventConnected, TypeOK
<1>2. CASE EventDisconnected
  BY <1>2, DropTyped DEF EventDisconnected, TypeOK
<1>3. CASE EventSubscribed
  <2>1. up' \in Seq(ToBroker) /\ down' \in Seq(ToDevice)
    <3>1. down # <<>> /\ down' = Tail(down)
          /\ (up' = Append(up, "mqtt subscribe successful") \/ up' = up)
      BY <1>3 DEF EventSubscribed, Arrives
    <3>2. up \in Seq(ToBroker) /\ down \in Seq(ToDevice)
      BY DEF TypeOK
    <3>3. "mqtt subscribe successful" \in ToBroker
      BY DEF ToBroker, Data
    <3> QED
      BY <3>1, <3>2, <3>3, TailTyped, AppendTyped
  <2>2. told' \in {"no", "lost", "yes"}
    BY <1>3 DEF EventSubscribed, TypeOK
  <2> QED
    BY <1>3, <2>1, <2>2 DEF EventSubscribed, Arrives, TypeOK
<1>4. CASE EventPublished
  <2>1. down' \in Seq(ToDevice) /\ outbox' \subseteq Data
    <3>1. down # <<>> /\ down' = Tail(down) /\ outbox' \subseteq outbox
      BY <1>4 DEF EventPublished, Arrives
    <3>2. outbox \subseteq Data /\ down \in Seq(ToDevice)
      BY DEF TypeOK
    <3> QED
      BY <3>1, <3>2, TailTyped
  <2> QED
    BY <1>4, <2>1 DEF EventPublished, TypeOK
<1>5. CASE EventData
  <2>1. down' \in Seq(ToDevice)
    <3>1. down # <<>> /\ down' = Tail(down)
      BY <1>5 DEF EventData, Arrives
    <3>2. down \in Seq(ToDevice)
      BY DEF TypeOK
    <3> QED
      BY <3>1, <3>2, TailTyped
  <2> QED
    BY <1>5, <2>1 DEF EventData, TypeOK
<1> QED
  BY <1>1, <1>2, <1>3, <1>4, <1>5 DEF Handler

LEMMA OthersTyped == TypeOK /\ Others => TypeOK'
<1> SUFFICES ASSUME TypeOK, Others PROVE TypeOK'
  OBVIOUS
<1>1. CASE Resend
  <2>1. up' \in Seq(ToBroker)
    <3>1. PICK message \in outbox : up' = Append(up, message)
      BY <1>1 DEF Resend
    <3>2. message \in ToBroker /\ up \in Seq(ToBroker)
      BY DEF TypeOK, ToBroker
    <3> QED
      BY <3>1, <3>2, AppendTyped
  <2> QED
    BY <1>1, <2>1 DEF Resend, TypeOK
<1>2. CASE Broker
  <2>1. up' \in Seq(ToBroker)
    <3>1. up # <<>> /\ up' = Tail(up)
      BY <1>2 DEF Broker
    <3>2. up \in Seq(ToBroker)
      BY DEF TypeOK
    <3> QED
      BY <3>1, <3>2, TailTyped
  <2>2. down' \in Seq(ToDevice)
    <3>1. down' = Append(down, "suback") \/ down' = Append(down, "puback") \/ down' = down
      BY <1>2 DEF Broker
    <3>2. down \in Seq(ToDevice) /\ "suback" \in ToDevice /\ "puback" \in ToDevice
      BY DEF TypeOK, ToDevice
    <3> QED
      BY <3>1, <3>2, AppendTyped
  <2>3. subscription' \in {"none", "unasked", "granted", "refused"}
        /\ told' \in {"no", "lost", "yes"}
    BY <1>2 DEF Broker, TypeOK
  <2> QED
    BY <1>2, <2>1, <2>2, <2>3 DEF Broker, TypeOK
<1>3. CASE CloudSends
  <2>1. down' \in Seq(ToDevice)
    <3>1. down' = Append(down, "message")
      BY <1>3 DEF CloudSends
    <3>2. down \in Seq(ToDevice) /\ "message" \in ToDevice
      BY DEF TypeOK, ToDevice
    <3> QED
      BY <3>1, <3>2, AppendTyped
  <2> QED
    BY <1>3, <2>1 DEF CloudSends, TypeOK
<1> QED
  BY <1>1, <1>2, <1>3 DEF Others

LEMMA TypeStep == TypeOK /\ [Next]_vars => TypeOK'
<1> SUFFICES ASSUME TypeOK, [Next]_vars PROVE TypeOK'
  OBVIOUS
<1>1. CASE Start \/ NetChanges
  BY <1>1 DEF Start, NetChanges, connection, TypeOK
<1>2. CASE UNCHANGED vars
  BY <1>2 DEF vars, connection, TypeOK
<1> QED
  BY <1>1, <1>2, RestartTyped, HandlerTyped, OthersTyped DEF Next

---------------------------------------------------------------------------
(* The invariant is kept.                                                  *)

LEMMA DropKeeps ==
    ASSUME Drop, OnlyTheGreeting'
    PROVE  Kept'
<1>1. up' \in Seq({"mqtt connect ok", "subscribe"}) /\ down' \in Seq({"puback", "message"})
  BY EmptyTyped DEF Drop
<1> QED
  BY <1>1 DEF Drop, Kept, NothingTellsOfIt, Answered, GoneWithIt, NoConnection

LEMMA HandlerKeeps == TypeOK /\ Kept /\ Handler => Kept'
<1> SUFFICES ASSUME TypeOK, Kept, Handler PROVE Kept'
  OBVIOUS
<1>1. CASE EventConnected
  <2>1. PICK lost \in SUBSET {"mqtt connect ok", "subscribe"} :
               /\ up' = OnConnected(lost)
               /\ outbox' = outbox \cup ({"mqtt connect ok"} \ lost)
    BY <1>1 DEF EventConnected
  <2>2. OnlyTheGreeting'
    BY <2>1 DEF Kept, OnlyTheGreeting
  <2>3. NothingTellsOfIt'
    <3>1. down = <<>> /\ told = "no"
      BY <1>1 DEF EventConnected, Kept, GoneWithIt, NoConnection
    <3>2. down' = <<>> /\ told' = "no"
      BY <1>1, <3>1 DEF EventConnected
    <3>3. up' \in Seq({"mqtt connect ok", "subscribe"}) /\ down' \in Seq({"puback", "message"})
      BY <2>1, <3>2, ConnectedSends, EmptyTyped
    <3> QED
      BY <3>2, <3>3 DEF NothingTellsOfIt
  <2>4. GoneWithIt'
    BY <1>1 DEF EventConnected, GoneWithIt
  <2> QED
    BY <2>2, <2>3, <2>4 DEF Kept
<1>2. CASE EventDisconnected
  BY <1>2, DropKeeps DEF EventDisconnected, Kept, OnlyTheGreeting
<1>3. CASE EventSubscribed
  <2>1. Answered
    <3>1. "suback" \notin {"puback", "message"}
      OBVIOUS
    <3>2. down # <<>> /\ Head(down) = "suback"
      BY <1>3 DEF EventSubscribed, Arrives
    <3>3. down \in Seq({"puback", "message"}) => Head(down) \in {"puback", "message"}
      BY <3>2, TailTyped
    <3> QED
      BY <3>1, <3>2, <3>3 DEF Kept, NothingTellsOfIt
  <2>2. Answered' /\ connected' /\ outbox' = outbox
    BY <1>3, <2>1 DEF EventSubscribed, Arrives, Answered
  <2> QED
    BY <2>2 DEF Kept, OnlyTheGreeting, NothingTellsOfIt, GoneWithIt
<1>4. CASE EventPublished \/ EventData
  <2>1. /\ connected /\ down # <<>> /\ down' = Tail(down)
        /\ UNCHANGED <<connected, up, subscription, told>>
        /\ outbox' \subseteq outbox
    BY <1>4 DEF EventPublished, EventData, Arrives
  <2>2. OnlyTheGreeting' /\ GoneWithIt'
    BY <2>1 DEF Kept, OnlyTheGreeting, GoneWithIt
  <2>3. NothingTellsOfIt'
    BY <2>1, TailTyped DEF Kept, NothingTellsOfIt, Answered
  <2> QED
    BY <2>2, <2>3 DEF Kept
<1> QED
  BY <1>1, <1>2, <1>3, <1>4 DEF Handler

LEMMA BrokerKeeps == TypeOK /\ Kept /\ Broker => Kept'
<1> SUFFICES ASSUME TypeOK, Kept, Broker PROVE Kept'
  OBVIOUS
<1>1. connected /\ up # <<>> /\ up' = Tail(up) /\ UNCHANGED <<connected, outbox>>
  BY DEF Broker
<1>2. OnlyTheGreeting' /\ GoneWithIt'
  BY <1>1 DEF Kept, OnlyTheGreeting, GoneWithIt
<1>3. CASE Answered'
  BY <1>2, <1>3 DEF Kept, NothingTellsOfIt
<1>4. CASE ~Answered'
  <2>1. ~Answered
    BY <1>4 DEF Broker, Answered
  <2>2. /\ up \in Seq({"mqtt connect ok", "subscribe"}) /\ told = "no"
        /\ down \in Seq({"puback", "message"})
    BY <2>1 DEF Kept, NothingTellsOfIt
  <2>3. Head(up) \in {"mqtt connect ok", "subscribe"}
    BY <1>1, <2>2, TailTyped
  <2>4. down' = Append(down, "puback") /\ UNCHANGED told
    BY <1>4, <2>3 DEF Broker, Answered
  <2>5. up' \in Seq({"mqtt connect ok", "subscribe"}) /\ down' \in Seq({"puback", "message"})
    BY <1>1, <2>2, <2>4, TailTyped, AppendTyped
  <2> QED
    BY <1>2, <2>2, <2>4, <2>5 DEF Kept, NothingTellsOfIt
<1> QED
  BY <1>3, <1>4

LEMMA OthersKeep == TypeOK /\ Kept /\ Others => Kept'
<1> SUFFICES ASSUME TypeOK, Kept, Others PROVE Kept'
  OBVIOUS
<1>1. CASE Resend
  <2>1. connected /\ up' = Append(up, "mqtt connect ok")
        /\ UNCHANGED <<connected, outbox, down, subscription, told>>
    BY <1>1 DEF Resend, Kept, OnlyTheGreeting
  <2>2. OnlyTheGreeting' /\ GoneWithIt'
    BY <2>1 DEF Kept, OnlyTheGreeting, GoneWithIt
  <2>3. NothingTellsOfIt'
    BY <2>1, AppendTyped DEF Kept, NothingTellsOfIt, Answered
  <2> QED
    BY <2>2, <2>3 DEF Kept
<1>2. CASE CloudSends
  <2>1. connected' /\ Answered' /\ outbox' = outbox
    BY <1>2 DEF CloudSends, Answered
  <2> QED
    BY <2>1 DEF Kept, OnlyTheGreeting, NothingTellsOfIt, GoneWithIt
<1> QED
  BY <1>1, <1>2, BrokerKeeps DEF Others

LEMMA KeptStep == TypeOK /\ Kept /\ [Next]_vars => Kept'
<1> SUFFICES ASSUME TypeOK, Kept, [Next]_vars PROVE Kept'
  OBVIOUS
<1>1. CASE Start \/ NetChanges \/ UNCHANGED vars
  <2>1. UNCHANGED <<connected, up, down, subscription, told, outbox>>
    BY <1>1 DEF Start, NetChanges, vars, connection
  <2> QED
    BY <2>1 DEF Kept, OnlyTheGreeting, NothingTellsOfIt, Answered, GoneWithIt, NoConnection
<1>2. CASE Restart
  BY <1>2, DropKeeps DEF Restart, OnlyTheGreeting
<1> QED
  BY <1>1, <1>2, HandlerKeeps, OthersKeep DEF Next

---------------------------------------------------------------------------
(* The theorems.                                                           *)

\* Every state of the session is of its type.
THEOREM TypeCorrect == Spec => []TypeOK
  BY InitTyped, TypeStep, PTL DEF Spec

\* However often the connection is lost and whatever is sent again, the cloud is told
\* of the subscription only on a connection on which the broker has answered
\* (user_mqtt.c:85-104).
THEOREM ToldIsAnswered == Spec => []AnnouncedMeansAnswered
<1>1. Init => Kept
  <2> SUFFICES ASSUME Init PROVE Kept
    OBVIOUS
  <2>1. up \in Seq({"mqtt connect ok", "subscribe"}) /\ down \in Seq({"puback", "message"})
    BY EmptyTyped DEF Init, NoConnection
  <2> QED
    BY <2>1 DEF Init, NoConnection, Kept, OnlyTheGreeting, NothingTellsOfIt, GoneWithIt
<1>2. Kept => AnnouncedMeansAnswered
  BY DEF Kept, NothingTellsOfIt, Answered, AnnouncedMeansAnswered
<1> QED
  BY <1>1, <1>2, InitTyped, TypeStep, KeptStep, PTL DEF Spec

---------------------------------------------------------------------------
(* What is promised on a connection is under way.                          *)

In(q, x) == \E i \in 1..Len(q) : q[i] = x

LEMMA InAppended ==
    ASSUME NEW S, NEW q \in Seq(S), NEW e \in S, NEW x
    PROVE  In(Append(q, e), x) <=> In(q, x) \/ e = x
<1>1. Len(Append(q, e)) = Len(q) + 1 /\ Append(q, e)[Len(q) + 1] = e
  OBVIOUS
<1>2. \A i \in 1..Len(q) : Append(q, e)[i] = q[i]
  OBVIOUS
<1>3. Len(q) \in Nat
  OBVIOUS
<1> QED
  BY <1>1, <1>2, <1>3 DEF In

LEMMA InTail ==
    ASSUME NEW S, NEW q \in Seq(S), q # <<>>, NEW x, In(q, x), Head(q) # x
    PROVE  In(Tail(q), x)
<1>1. PICK i \in 1..Len(q) : q[i] = x
  BY DEF In
<1>2. i # 1
  BY <1>1
<1>3. i - 1 \in 1..Len(Tail(q)) /\ Tail(q)[i - 1] = q[i]
  BY <1>2
<1> QED
  BY <1>1, <1>3 DEF In

\* Unless its call fails, the subscription is asked for on a new connection.
LEMMA ConnectedAsks ==
    ASSUME NEW lost, "subscribe" \notin lost PROVE In(OnConnected(lost), "subscribe")
<1> DEFINE a == Issued("mqtt connect ok", lost)
<1>1. a \in Seq(ToBroker) /\ Len(a) \in Nat
  <2>1. a \in Seq(ToBroker)
    BY IssuedTyped DEF ToBroker, Data
  <2> HIDE DEF a
  <2> QED
    BY <2>1
<1>2. OnConnected(lost) = a \o <<"subscribe">>
  BY DEF OnConnected, Issued
<1> HIDE DEF a
<1>3. Len(a \o <<"subscribe">>) = Len(a) + 1
      /\ (a \o <<"subscribe">>)[Len(a) + 1] = "subscribe"
  BY <1>1
<1> QED
  BY <1>1, <1>2, <1>3 DEF In

\* The property in terms of In.
OnItsWay ==
    connected =>
      /\ subscription # "none" \/ In(up, "subscribe")
      /\ \/ told # "no" \/ subscription = "unasked"
         \/ In(up, "subscribe") \/ In(up, "mqtt subscribe successful")
         \/ In(down, "suback")

LEMMA OnItsWayIs == TypeOK /\ OnItsWay => SubscriptionOnItsWay
<1> SUFFICES ASSUME TypeOK, OnItsWay PROVE SubscriptionOnItsWay
  OBVIOUS
<1>1. DOMAIN up = 1..Len(up) /\ DOMAIN down = 1..Len(down)
  BY DEF TypeOK
<1> QED
  BY <1>1 DEF OnItsWay, In, SubscriptionOnItsWay

LEMMA HandlerDelivers == TypeOK /\ OnItsWay /\ Handler => OnItsWay'
<1> SUFFICES ASSUME TypeOK, OnItsWay, Handler PROVE OnItsWay'
  OBVIOUS
<1>1. CASE EventConnected
  <2>1. PICK lost \in SUBSET {"mqtt connect ok", "subscribe"} :
               /\ up' = OnConnected(lost)
               /\ subscription' = IF "subscribe" \in lost THEN "unasked" ELSE subscription
    BY <1>1 DEF EventConnected
  <2> QED
    BY <2>1, ConnectedAsks DEF OnItsWay
<1>2. CASE EventDisconnected
  BY <1>2 DEF EventDisconnected, Drop, OnItsWay
<1>3. CASE EventSubscribed
  <2>1. connected /\ UNCHANGED <<connected, subscription>>
    BY <1>3 DEF EventSubscribed, Arrives
  <2>2. up \in Seq(ToBroker) /\ "mqtt subscribe successful" \in ToBroker
    BY DEF TypeOK, ToBroker, Data
  <2>3. CASE up' = Append(up, "mqtt subscribe successful")
    <3>1. In(up', "mqtt subscribe successful") /\ (In(up, "subscribe") => In(up', "subscribe"))
      BY <2>2, <2>3, InAppended
    <3> QED
      BY <2>1, <3>1 DEF OnItsWay
  <2>4. CASE told' = "lost" /\ up' = up
    BY <2>1, <2>4 DEF OnItsWay
  <2> QED
    BY <1>3, <2>3, <2>4 DEF EventSubscribed
<1>4. CASE EventPublished \/ EventData
  <2>1. /\ connected /\ down # <<>> /\ down' = Tail(down) /\ Head(down) # "suback"
        /\ UNCHANGED <<connected, up, subscription, told>>
    BY <1>4 DEF EventPublished, EventData, Arrives
  <2>2. down \in Seq(ToDevice)
    BY DEF TypeOK
  <2>3. In(down, "suback") => In(down', "suback")
    BY <2>1, <2>2, InTail
  <2> QED
    BY <2>1, <2>3 DEF OnItsWay
<1> QED
  BY <1>1, <1>2, <1>3, <1>4 DEF Handler

\* The broker answers the subscription before it is no longer asked for.
LEMMA BrokerDelivers == TypeOK /\ OnItsWay /\ Broker => OnItsWay'
<1> SUFFICES ASSUME TypeOK, OnItsWay, Broker PROVE OnItsWay'
  OBVIOUS
<1>1. connected /\ up # <<>> /\ up' = Tail(up) /\ up \in Seq(ToBroker) /\ down \in Seq(ToDevice)
  BY DEF Broker, TypeOK
<1>2. \A x : In(up, x) /\ Head(up) # x => In(up', x)
  BY <1>1, InTail
<1>3. "suback" \in ToDevice /\ "puback" \in ToDevice
  BY DEF ToDevice
<1>4. CASE Head(up) = "subscribe"
  <2>1. subscription' # "none" /\ down' = Append(down, "suback")
    BY <1>4 DEF Broker
  <2>2. In(down', "suback")
    BY <1>1, <1>3, <2>1, InAppended
  <2> QED
    BY <2>1, <2>2 DEF OnItsWay
<1>5. CASE Head(up) = "mqtt connect ok"
  <2>1. down' = Append(down, "puback") /\ UNCHANGED <<subscription, told>>
    BY <1>5 DEF Broker
  <2>2. In(down, "suback") => In(down', "suback")
    BY <1>1, <1>3, <2>1, InAppended
  <2>3. /\ In(up, "subscribe") => In(up', "subscribe")
        /\ In(up, "mqtt subscribe successful") => In(up', "mqtt subscribe successful")
    BY <1>2, <1>5
  <2> QED
    BY <1>1, <2>1, <2>2, <2>3 DEF OnItsWay
<1>6. CASE Head(up) = "mqtt subscribe successful"
  <2>1. told' = "yes" /\ subscription' = subscription
    BY <1>6 DEF Broker
  <2>2. In(up, "subscribe") => In(up', "subscribe")
    BY <1>2, <1>6
  <2> QED
    BY <1>1, <2>1, <2>2 DEF OnItsWay
<1> QED
  BY <1>4, <1>5, <1>6 DEF Broker

LEMMA OthersDeliver == TypeOK /\ OnItsWay /\ Others => OnItsWay'
<1> SUFFICES ASSUME TypeOK, OnItsWay, Others PROVE OnItsWay'
  OBVIOUS
<1>1. up \in Seq(ToBroker) /\ down \in Seq(ToDevice)
  BY DEF TypeOK
<1>2. CASE Resend
  <2>1. PICK message \in outbox : up' = Append(up, message)
    BY <1>2 DEF Resend
  <2>2. message \in ToBroker
    BY DEF TypeOK, ToBroker
  <2>3. \A x : In(up, x) => In(up', x)
    BY <1>1, <2>1, <2>2, InAppended
  <2>4. UNCHANGED <<connected, down, subscription, told>>
    BY <1>2 DEF Resend
  <2> QED
    BY <2>3, <2>4 DEF OnItsWay
<1>3. CASE CloudSends
  <2>1. down' = Append(down, "message") /\ "message" \in ToDevice
    BY <1>3 DEF CloudSends, ToDevice
  <2>2. In(down, "suback") => In(down', "suback")
    BY <1>1, <2>1, InAppended
  <2>3. UNCHANGED <<connected, up, subscription, told>>
    BY <1>3 DEF CloudSends
  <2> QED
    BY <2>2, <2>3 DEF OnItsWay
<1> QED
  BY <1>2, <1>3, BrokerDelivers DEF Others

LEMMA OnItsWayStep == TypeOK /\ OnItsWay /\ [Next]_vars => OnItsWay'
<1> SUFFICES ASSUME TypeOK, OnItsWay, [Next]_vars PROVE OnItsWay'
  OBVIOUS
<1>1. CASE Start \/ NetChanges \/ UNCHANGED vars
  <2>1. UNCHANGED <<connected, up, down, subscription, told>>
    BY <1>1 DEF Start, NetChanges, vars, connection
  <2> QED
    BY <2>1 DEF OnItsWay
<1>2. CASE Restart
  BY <1>2 DEF Restart, Drop, OnItsWay
<1> QED
  BY <1>1, <1>2, HandlerDelivers, OthersDeliver DEF Next

\* Whatever the connections before have lost, on the one there is the subscription was
\* answered or is asked for, and what tells the cloud of it is on its way, unless the
\* call that asks or tells has failed: the safety half of SubscribedAgain
\* (user_mqtt.c:85-104).
THEOREM SubscriptionIsOnItsWay == Spec => []SubscriptionOnItsWay
<1>1. Init => OnItsWay
  BY DEF Init, NoConnection, OnItsWay
<1> QED
  BY <1>1, InitTyped, TypeStep, OnItsWayStep, OnItsWayIs, PTL DEF Spec

\* A subscription lasts as long as its connection.
LEMMA SubscriptionLasts ==
    subscription = "granted" /\ connected /\ connected' /\ [Next]_vars /\ TypeOK
        /\ (subscription \notin {"refused", "unasked"})'
      => (subscription = "granted")'
BY DEF TypeOK, Next, Start, NetChanges, Handler, EventConnected, EventDisconnected,
       EventSubscribed, EventPublished, EventData, Others, Resend, Broker, CloudSends,
       Restart, Drop, Arrives, NoConnection, connection, vars

\* On a connection that lasts, and on which the subscription is neither refused nor its
\* call failed, the device ends up subscribed, if the packet that asks for it does not
\* stay under way for ever (user_mqtt.c:85-93): SubscribedAgain but for the scheduling.
THEOREM SubscribedOnceAsked ==
    Spec /\ <>[]connected /\ []<>~In(up, "subscribe")
         /\ <>[](subscription \notin {"refused", "unasked"})
      => <>[](subscription = "granted")
<1>1. Init => OnItsWay
  BY DEF Init, NoConnection, OnItsWay
<1>2. TypeOK /\ OnItsWay /\ connected /\ ~In(up, "subscribe")
        /\ subscription \notin {"refused", "unasked"}
      => subscription = "granted"
  BY DEF TypeOK, OnItsWay
<1> QED
  BY <1>1, <1>2, InitTyped, TypeStep, OnItsWayStep, SubscriptionLasts, PTL DEF Spec
=============================================================================
