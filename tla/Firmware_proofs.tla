---------------------------- MODULE Firmware_proofs ----------------------------
(***************************************************************************)
(* The firmware as a whole, for any bound on packets and resets: it drives *)
(* the session with the cloud as MqttSession says, so that what is proved  *)
(* there holds here; whoever runs finds what it uses; the phone can come   *)
(* back; and a boot that ends has left nothing out.                        *)
(***************************************************************************)
EXTENDS Firmware, SequenceTheorems, TLAPS

SessionProofs == INSTANCE MqttSession_proofs

---------------------------------------------------------------------------
(* The inductive invariant.                                                *)

\* The steps before Bluetooth abort when they fail: what is passed is done.
\* Bluetooth may be skipped, but its profile stands on its callbacks.
BootInv ==
    /\ \A i \in 1..6 : pc > i => Order[i] \in ready
    /\ pc = 9 => "callbacks" \in ready
    /\ "profile" \in ready => pc > 9 /\ "callbacks" \in ready
    /\ "sensors" \in ready => pc > 11
    /\ evq # <<>> => pc > 6
    /\ started => pc > 10
    /\ failed \subseteq Bluetooth \cup {"mqtt", "sensors"}

\* What app_main has passed has left its trace: the station is started or its event waits,
\* the client was started and the sensors are read or their calls have failed, and so has
\* one of Bluetooth when its steps are not all done.
Passed ==
    /\ pc > 6 => evq # <<>> \/ station # "off"
    /\ pc > 7 => "controller" \in ready \cup failed
    /\ pc > 8 => {"controller", "callbacks"} \subseteq ready \/ failed \cap Bluetooth # {}
    /\ pc > 9 => Bluetooth \subseteq ready \/ failed \cap Bluetooth # {}
    /\ pc > 10 => (started /\ "mqtt" \in ready) \/ "mqtt" \in failed
    /\ pc > 11 => "sensors" \in ready \cup failed

\* The link and what BTC has still to hear of it go together.
LinkInv ==
    IF "profile" \notin ready THEN jobs = <<>> /\ ~advertising /\ ~conn
    ELSE \/ jobs = <<"INIT_FINISH">> /\ ~advertising /\ ~conn
         \/ jobs = <<>> /\ advertising /\ ~conn
         \/ jobs = <<"BLE_CONNECT">> /\ ~advertising /\ conn
         \/ jobs = <<>> /\ ~advertising /\ conn
         \/ jobs = <<"BLE_CONNECT", "BLE_DISCONNECT">> /\ ~advertising /\ ~conn
         \/ jobs = <<"BLE_DISCONNECT">> /\ ~advertising /\ ~conn

---------------------------------------------------------------------------
(* The steps of app_main.                                                  *)

LEMMA OrderTable ==
    /\ Len(Order) = 11
    /\ Order[1] = "uart" /\ Order[2] = "pins" /\ Order[3] = "nvs" /\ Order[4] = "netif"
    /\ Order[5] = "handlers" /\ Order[6] = "wifi" /\ Order[7] = "controller"
    /\ Order[8] = "callbacks" /\ Order[9] = "profile" /\ Order[10] = "mqtt"
    /\ Order[11] = "sensors"
  BY DEF Order

LEMMA OrderInSteps == \A i \in 1..11 : Order[i] \in Steps
  BY DEF Steps, Order

\* Where app_main is when a step is next.
LEMMA AtTable ==
    ASSUME TypeOK
    PROVE  /\ At("uart") => pc = 1
           /\ At("pins") => pc = 2
           /\ At("nvs") => pc = 3
           /\ At("netif") => pc = 4
           /\ At("handlers") => pc = 5
           /\ At("wifi") => pc = 6
           /\ At("controller") => pc = 7
           /\ At("callbacks") => pc = 8
           /\ At("profile") => pc = 9
           /\ At("mqtt") => pc = 10
           /\ At("sensors") => pc = 11
<1>1. pc \in 1..12
  BY OrderTable DEF TypeOK
<1>2. \A step : At(step) => pc \in 1..11 /\ Order[pc] = step
  BY <1>1, OrderTable DEF At, Booted
<1>3. \A i \in 1..11 : i = 1 \/ i = 2 \/ i = 3 \/ i = 4 \/ i = 5 \/ i = 6 \/ i = 7
                       \/ i = 8 \/ i = 9 \/ i = 10 \/ i = 11
  OBVIOUS
<1> QED
  BY <1>2, <1>3, OrderTable

\* After a step app_main is one further, and what was ready still is.
LEMMA DoneStep ==
    ASSUME TypeOK, NEW step, Done(step)
    PROVE  /\ pc \in 1..11 /\ Order[pc] = step /\ pc' = pc + 1
           /\ pc' \in 1..(Len(Order) + 1)
           /\ ready' = ready \cup {step} /\ ready' \subseteq Steps /\ failed' = failed
<1>1. pc \in 1..12
  BY OrderTable DEF TypeOK
<1>2. pc \in 1..11 /\ Order[pc] = step
  BY <1>1, OrderTable DEF Done, At, Booted
<1>3. step \in Steps
  BY <1>2, OrderInSteps
<1> QED
  BY <1>1, <1>2, <1>3, OrderTable DEF Done, TypeOK

LEMMA FailsStep ==
    ASSUME TypeOK, NEW step, Fails(step)
    PROVE  /\ pc \in 1..11 /\ Order[pc] = step
           /\ failed' = failed \cup {step} /\ failed' \subseteq Steps
           /\ UNCHANGED <<ready, nvs, config, wifi, ble, resets, cloud>>
<1>1. pc \in 1..12
  BY OrderTable DEF TypeOK
<1>2. pc \in 1..11 /\ Order[pc] = step
  BY <1>1, OrderTable DEF Fails, At, Booted
<1>3. step \in Steps
  BY <1>2, OrderInSteps
<1> QED
  BY <1>1, <1>2, <1>3 DEF Fails, TypeOK

LEMMA BluetoothFailsStep ==
    ASSUME TypeOK, BluetoothFails
    PROVE  /\ pc \in 7..9 /\ pc' = 10
           /\ UNCHANGED <<ready, evq, station, started, jobs, advertising, conn>>
           /\ \E step \in Bluetooth : Fails(step)
<1>1. PICK step \in Bluetooth : Fails(step)
  BY DEF BluetoothFails
<1>2. pc \in 7..9
  BY <1>1, AtTable DEF Fails, Bluetooth
<1>3. PICK i \in DOMAIN Order : Order[i] = "profile" /\ pc' = i + 1
  BY DEF BluetoothFails
<1>4. i \in 1..11
  BY OrderTable DEF Order
<1>5. i = 9
  BY <1>3, <1>4, OrderTable
<1> QED
  BY <1>1, <1>2, <1>3, <1>5 DEF Fails, wifi, ble, cloud

\* The client or the sensors: nobody notices.
Unnoticed == StartMqttFails \/ StartSensorsFails

LEMMA UnnoticedStep ==
    ASSUME TypeOK, Unnoticed
    PROVE  /\ pc' = pc + 1
           /\ UNCHANGED <<ready, evq, station, started, jobs, advertising, conn>>
           /\ \/ Fails("mqtt") /\ pc = 10
              \/ Fails("sensors") /\ pc = 11
<1>1. CASE StartMqttFails
  BY <1>1, AtTable DEF StartMqttFails, Fails, wifi, ble, cloud
<1>2. CASE StartSensorsFails
  BY <1>2, AtTable DEF StartSensorsFails, Fails, wifi, ble, cloud
<1> QED
  BY <1>1, <1>2 DEF Unnoticed

---------------------------------------------------------------------------
(* The firmware drives the session.                                        *)

LEMMA SessionInit == Init => Session!Init
  BY DEF Init

LEMMA SessionStep == [Next]_vars => [Session!Next]_Session!vars
<1> SUFFICES ASSUME [Next]_vars PROVE Session!Next \/ UNCHANGED Session!vars
  OBVIOUS
<1>1. CASE UNCHANGED cloud
  BY <1>1 DEF cloud, Session!vars, Session!connection
<1>2. CASE Session!Restart \/ Session!Start \/ Session!NetChanges
             \/ Session!Handler \/ Session!Others
  BY <1>2 DEF Session!Next
<1>3. Restart => Session!Restart
  BY DEF Restart
<1>4. Main => UNCHANGED cloud \/ Session!Restart \/ Session!Start
  BY <1>3 DEF Main, usart1_init, equipment_init, InitNvs, InitNvsAborts, InitNetif,
              RegisterHandlers, StartWifi, InitHost, RegisterCallbacks, InitProfile,
              BluetoothFails, StartMqtt, StartSensors, StartMqttFails, StartSensorsFails,
              Plain, Fails
<1>5. AbortOrPowerCut => Session!Restart
  BY <1>3 DEF AbortOrPowerCut, Reset
<1>6. StaStart \/ PhoneComes \/ PhoneLeaves \/ Btc \/ Provision => UNCHANGED cloud
  BY DEF StaStart, PhoneComes, PhoneLeaves, Btc, InitFinish, BleConnect, BleDisconnect,
         Provision
<1>7. NetChanges \/ MqttTask \/ Cloud
        => Session!NetChanges \/ Session!Handler \/ Session!Others
  BY DEF NetChanges, MqttTask, Cloud
<1>8. UNCHANGED vars => UNCHANGED cloud
  BY DEF vars
<1> QED
  BY <1>1, <1>2, <1>4, <1>5, <1>6, <1>7, <1>8 DEF Next

\* Every step of the firmware is one of the session or leaves it as it is, so the
\* firmware implements the session with the cloud (app_main.c:14-23, user_mqtt.c:75-180).
THEOREM DrivesTheSession == Spec => DrivesSession
  BY SessionInit, SessionStep, PTL DEF Spec, DrivesSession, Session!Spec

---------------------------------------------------------------------------
(* What is proved of the session, for the session that the firmware drives. *)

LEMMA SameSession ==
    /\ Session!Init <=> SessionProofs!Init
    /\ [Session!Next]_Session!vars <=> [SessionProofs!Next]_SessionProofs!vars
    /\ Session!TypeOK <=> SessionProofs!TypeOK
    /\ Session!TypeOK' <=> SessionProofs!TypeOK'
    /\ Session!AnnouncedMeansAnswered <=> SessionProofs!AnnouncedMeansAnswered
    /\ Session!SubscriptionOnItsWay <=> SessionProofs!SubscriptionOnItsWay
<1>1. Session!Init <=> SessionProofs!Init
  BY DEF Session!Init, SessionProofs!Init, Session!NoConnection, SessionProofs!NoConnection
<1>2. Session!Next <=> SessionProofs!Next
  <2>1. Session!Restart <=> SessionProofs!Restart
    BY DEF Session!Restart, SessionProofs!Restart, Session!Drop, SessionProofs!Drop
  <2>2. Session!Start \/ Session!NetChanges <=> SessionProofs!Start \/ SessionProofs!NetChanges
    BY DEF Session!Start, SessionProofs!Start, Session!NetChanges, SessionProofs!NetChanges,
           Session!connection, SessionProofs!connection
  <2>3. Session!Handler <=> SessionProofs!Handler
    BY DEF Session!Handler, SessionProofs!Handler,
           Session!EventConnected, SessionProofs!EventConnected,
           Session!OnConnected, SessionProofs!OnConnected,
           Session!Issued, SessionProofs!Issued,
           Session!EventDisconnected, SessionProofs!EventDisconnected,
           Session!Drop, SessionProofs!Drop,
           Session!EventSubscribed, SessionProofs!EventSubscribed,
           Session!EventPublished, SessionProofs!EventPublished,
           Session!EventData, SessionProofs!EventData,
           Session!Arrives, SessionProofs!Arrives
  <2>4. Session!Others <=> SessionProofs!Others
    BY DEF Session!Others, SessionProofs!Others, Session!Resend, SessionProofs!Resend,
           Session!Broker, SessionProofs!Broker, Session!CloudSends, SessionProofs!CloudSends
  <2> QED
    BY <2>1, <2>2, <2>3, <2>4 DEF Session!Next, SessionProofs!Next
<1>3. Session!TypeOK <=> SessionProofs!TypeOK
  BY DEF Session!TypeOK, SessionProofs!TypeOK, Session!Data, SessionProofs!Data,
         Session!ToBroker, SessionProofs!ToBroker, Session!ToDevice, SessionProofs!ToDevice
<1>4. Session!TypeOK' <=> SessionProofs!TypeOK'
  BY DEF Session!TypeOK, SessionProofs!TypeOK, Session!Data, SessionProofs!Data,
         Session!ToBroker, SessionProofs!ToBroker, Session!ToDevice, SessionProofs!ToDevice
<1>5. Session!AnnouncedMeansAnswered <=> SessionProofs!AnnouncedMeansAnswered
  BY DEF Session!AnnouncedMeansAnswered, SessionProofs!AnnouncedMeansAnswered
<1>6. [Session!Next]_Session!vars <=> [SessionProofs!Next]_SessionProofs!vars
  <2>1. ASSUME Session!vars' = Session!vars PROVE SessionProofs!vars' = SessionProofs!vars
    BY <2>1 DEF Session!vars, SessionProofs!vars, Session!connection, SessionProofs!connection
  <2>2. ASSUME SessionProofs!vars' = SessionProofs!vars PROVE Session!vars' = Session!vars
    BY <2>2 DEF Session!vars, SessionProofs!vars, Session!connection, SessionProofs!connection
  <2> QED
    BY <1>2, <2>1, <2>2
<1>7. Session!SubscriptionOnItsWay <=> SessionProofs!SubscriptionOnItsWay
  BY DEF Session!SubscriptionOnItsWay, SessionProofs!SubscriptionOnItsWay
<1> QED
  BY <1>1, <1>3, <1>4, <1>5, <1>6, <1>7

LEMMA SessionTyped == Session!TypeOK /\ [Next]_vars => Session!TypeOK'
  BY SessionStep, SameSession, SessionProofs!TypeStep

\* The firmware has the cloud told of a subscription only on a connection on which the
\* broker has answered, whatever is aborted or restarted (user_mqtt.c:85-104).
THEOREM ToldIsAnswered == Spec => []AnnouncedMeansAnswered
<1>1. Spec => SessionProofs!Spec
  BY SessionInit, SessionStep, SameSession, PTL DEF Spec, SessionProofs!Spec
<1>2. SessionProofs!AnnouncedMeansAnswered <=> AnnouncedMeansAnswered
  BY SameSession DEF AnnouncedMeansAnswered
<1> QED
  BY <1>1, <1>2, SessionProofs!ToldIsAnswered, PTL

\* On every connection of the firmware the subscription was answered or is asked for, and
\* what tells the cloud of it is on its way, unless the very call that asks or tells has
\* failed (user_mqtt.c:85-104).
THEOREM SubscriptionIsOnItsWay == Spec => []SubscriptionOnItsWay
<1>1. Spec => SessionProofs!Spec
  BY SessionInit, SessionStep, SameSession, PTL DEF Spec, SessionProofs!Spec
<1>2. SessionProofs!SubscriptionOnItsWay <=> SubscriptionOnItsWay
  BY SameSession DEF SubscriptionOnItsWay
<1> QED
  BY <1>1, <1>2, SessionProofs!SubscriptionIsOnItsWay, PTL

---------------------------------------------------------------------------
(* The type invariant.                                                     *)

Jobs == {"INIT_FINISH", "BLE_CONNECT", "BLE_DISCONNECT"}

LEMMA TailTyped ==
    ASSUME NEW S, NEW s \in Seq(S), s # <<>>
    PROVE  Head(s) \in S /\ Tail(s) \in Seq(S)
  OBVIOUS

LEMMA AppendTyped ==
    ASSUME NEW S, NEW s \in Seq(S), NEW e \in S
    PROVE  Append(s, e) \in Seq(S)
  OBVIOUS

LEMMA EmptyTyped == ASSUME NEW S PROVE <<>> \in Seq(S)
  OBVIOUS

LEMMA AppendToOne == ASSUME NEW a, NEW b PROVE Append(<<a>>, b) = <<a, b>>
<1> DEFINE s == Append(<<a>>, b)
<1> DEFINE t == <<a, b>>
<1>1. s \in Seq({a, b}) /\ t \in Seq({a, b})
  OBVIOUS
<1>2. Len(s) = 2 /\ Len(t) = 2 /\ s[1] = a /\ s[2] = b
  OBVIOUS
<1>3. Len(s) = Len(t) /\ \A i \in 1..Len(s) : s[i] = t[i]
  BY <1>2
<1> HIDE DEF s, t
<1>4. s = t
  BY <1>1, <1>3, SeqEqual
<1> QED
  BY <1>4 DEF s, t

LEMMA ShortSequences ==
    ASSUME NEW a, NEW b
    PROVE  /\ Append(<<>>, b) = <<b>> /\ Append(<<a>>, b) = <<a, b>>
           /\ Tail(<<b>>) = <<>> /\ Tail(<<a, b>>) = <<b>>
<1>1. Append(<<>>, b) = <<b>>
  OBVIOUS
<1>2. Tail(<<b>>) = <<>>
  OBVIOUS
<1>3. Tail(<<a, b>>) = <<b>>
  OBVIOUS
<1> QED
  BY <1>1, <1>2, <1>3, AppendToOne

\* The types of app_main and flash, and those of the tasks.
BootTyped == /\ pc \in 1..(Len(Order) + 1) /\ ready \subseteq Steps
             /\ failed \subseteq Steps
             /\ nvs \in {"good", "full", "broken"} /\ config \in BOOLEAN
             /\ resets \in 0..MaxResets
TasksTyped == /\ evq \in Seq({"STA_START"}) /\ station \in {"off", "parked", "trying"}
              /\ jobs \in Seq(Jobs)
              /\ advertising \in BOOLEAN /\ conn \in BOOLEAN
              /\ ble_is_connected \in BOOLEAN

LEMMA TypeParts == TypeOK <=> BootTyped /\ TasksTyped /\ Session!TypeOK
  BY DEF TypeOK, BootTyped, TasksTyped, Jobs

LEMMA TypePartsPrime == TypeOK' <=> BootTyped' /\ TasksTyped' /\ Session!TypeOK'
  BY DEF TypeOK, BootTyped, TasksTyped, Jobs

LEMMA InitTyped == Init => TypeOK
<1> SUFFICES ASSUME Init PROVE TypeOK
  OBVIOUS
<1>1. BootTyped
  BY OrderTable, BoundAssumption DEF Init, BootTyped
<1>2. TasksTyped
  <2>1. evq \in Seq({"STA_START"}) /\ jobs \in Seq(Jobs)
    BY EmptyTyped DEF Init
  <2> QED
    BY <2>1 DEF Init, TasksTyped
<1>3. Session!TypeOK
  BY SameSession, SessionProofs!InitTyped DEF Init
<1> QED
  BY <1>1, <1>2, <1>3, TypeParts

LEMMA RestartTyped == ASSUME Restart PROVE TasksTyped'
<1>1. evq' \in Seq({"STA_START"}) /\ jobs' \in Seq(Jobs)
  BY EmptyTyped DEF Restart
<1> QED
  BY <1>1 DEF Restart, TasksTyped

LEMMA BootStep == TypeOK /\ [Next]_vars => BootTyped'
<1> SUFFICES ASSUME TypeOK, [Next]_vars PROVE BootTyped'
  OBVIOUS
<1>1. BootTyped
  BY TypeParts
<1>2. CASE UNCHANGED <<boot, resets>>
  BY <1>1, <1>2 DEF boot, BootTyped
<1>3. CASE Restart /\ resets' \in 0..MaxResets
  <2>1. pc' = 1 /\ ready' = {} /\ failed' = {} /\ nvs' = nvs /\ config' = config
    BY <1>3 DEF Restart
  <2> QED
    BY <1>1, <1>3, <2>1, OrderTable DEF BootTyped
<1>4. ASSUME NEW step, Done(step), nvs' \in {"good", "full", "broken"}, config' \in BOOLEAN,
             resets' = resets
      PROVE  BootTyped'
  BY <1>1, <1>4, DoneStep DEF BootTyped
<1>5. CASE usart1_init \/ equipment_init \/ InitNetif \/ RegisterHandlers \/ InitHost
             \/ RegisterCallbacks \/ StartSensors
  <2>1. PICK step : Plain(step)
    BY <1>5 DEF usart1_init, equipment_init, InitNetif, RegisterHandlers, InitHost,
                RegisterCallbacks, StartSensors
  <2>2. Done(step) /\ UNCHANGED <<nvs, config, resets>>
    BY <2>1 DEF Plain
  <2> QED
    BY <1>1, <1>4, <2>2 DEF BootTyped
<1>6. CASE InitNvs
  <2>1. Done("nvs") /\ nvs' = "good" /\ resets' = resets /\ config' = (config /\ nvs = "good")
    BY <1>6 DEF InitNvs
  <2>2. config' \in BOOLEAN
    BY <2>1
  <2> QED
    BY <1>4, <2>1, <2>2
<1>7. CASE InitNvsAborts
  BY <1>1, <1>3, <1>7 DEF InitNvsAborts, BootTyped
<1>8. CASE StartWifi \/ InitProfile \/ StartMqtt
  <2>1. PICK step : Done(step)
    BY <1>8 DEF StartWifi, InitProfile, StartMqtt
  <2>2. UNCHANGED <<nvs, config, resets>>
    BY <1>8 DEF StartWifi, InitProfile, StartMqtt
  <2> QED
    BY <1>1, <1>4, <2>1, <2>2 DEF BootTyped
<1>9. CASE BluetoothFails \/ Unnoticed
  <2>1. PICK step : Fails(step)
    BY <1>9, BluetoothFailsStep, UnnoticedStep
  <2>2. failed' \subseteq Steps /\ UNCHANGED <<ready, nvs, config, resets>> /\ pc \in 1..11
    BY <2>1, FailsStep
  <2>3. pc' \in 1..(Len(Order) + 1)
    BY <1>9, <2>2, BluetoothFailsStep, UnnoticedStep, OrderTable
  <2> QED
    BY <1>1, <2>2, <2>3 DEF BootTyped
<1>10. CASE AbortOrPowerCut
  <2>1. resets' \in 0..MaxResets
    BY <1>1, <1>10, BoundAssumption DEF AbortOrPowerCut, Reset, BootTyped
  <2> QED
    BY <1>3, <1>10, <2>1 DEF AbortOrPowerCut, Reset
<1>11. CASE StaStart \/ PhoneComes \/ PhoneLeaves \/ Btc \/ NetChanges \/ MqttTask \/ Cloud
  BY <1>2, <1>11 DEF StaStart, PhoneComes, PhoneLeaves, Btc, InitFinish, BleConnect,
                     BleDisconnect, NetChanges, MqttTask, Cloud
<1>12. CASE Provision
  BY <1>1, <1>12 DEF Provision, BootTyped
<1>13. CASE UNCHANGED vars
  BY <1>2, <1>13 DEF vars
<1> QED
  BY <1>5, <1>6, <1>7, <1>8, <1>9, <1>10, <1>11, <1>12, <1>13 DEF Next, Main, Unnoticed

LEMMA TasksStep == TypeOK /\ [Next]_vars => TasksTyped'
<1> SUFFICES ASSUME TypeOK, [Next]_vars PROVE TasksTyped'
  OBVIOUS
<1>1. TasksTyped
  BY TypeParts
<1>2. CASE UNCHANGED <<wifi, ble>>
  BY <1>1, <1>2 DEF wifi, ble, TasksTyped
<1>3. CASE Restart
  BY <1>3, RestartTyped
<1>4. Main => \/ UNCHANGED <<wifi, ble>> \/ Restart \/ StartWifi \/ InitProfile
  BY DEF Main, usart1_init, equipment_init, InitNvs, InitNvsAborts, InitNetif,
         RegisterHandlers, InitHost, RegisterCallbacks, BluetoothFails, StartMqtt,
         StartSensors, StartMqttFails, StartSensorsFails, Plain, Fails
<1>5. CASE StartWifi
  <2>1. evq' = Append(evq, "STA_START") /\ UNCHANGED <<station, ble>>
    BY <1>5 DEF StartWifi
  <2>2. evq' \in Seq({"STA_START"})
    BY <1>1, <2>1, AppendTyped DEF TasksTyped
  <2> QED
    BY <1>1, <2>1, <2>2 DEF ble, TasksTyped
<1>6. ASSUME \/ jobs # <<>> /\ jobs' = Tail(jobs)
             \/ \E job \in Jobs : jobs' = Append(jobs, job)
      PROVE  jobs' \in Seq(Jobs)
  BY <1>1, <1>6, TailTyped, AppendTyped DEF TasksTyped
<1>7. CASE InitProfile
  <2>1. jobs' = Append(jobs, "INIT_FINISH")
        /\ UNCHANGED <<wifi, advertising, conn, ble_is_connected>>
    BY <1>7 DEF InitProfile
  <2>2. jobs' \in Seq(Jobs)
    BY <1>6, <2>1 DEF Jobs
  <2> QED
    BY <1>1, <2>1, <2>2 DEF wifi, TasksTyped
<1>8. CASE StaStart
  <2>1. evq # <<>> /\ evq' = Tail(evq) /\ UNCHANGED ble
    BY <1>8 DEF StaStart
  <2>2. station' \in {"off", "parked", "trying"}
    BY <1>1, <1>8 DEF StaStart, TasksTyped
  <2>3. evq' \in Seq({"STA_START"})
    BY <1>1, <2>1, TailTyped DEF TasksTyped
  <2> QED
    BY <1>1, <2>1, <2>2, <2>3 DEF ble, TasksTyped
<1>9. CASE PhoneComes \/ PhoneLeaves \/ Btc
  <2>1. jobs' \in Seq(Jobs)
    BY <1>6, <1>9 DEF PhoneComes, PhoneLeaves, Btc, InitFinish, BleConnect,
                      BleDisconnect, Job, Jobs
  <2>2. /\ advertising' \in {advertising, TRUE, FALSE} /\ conn' \in {conn, TRUE, FALSE}
        /\ ble_is_connected' \in {ble_is_connected, TRUE, FALSE}
    BY <1>9 DEF PhoneComes, PhoneLeaves, Btc, InitFinish, BleConnect, BleDisconnect
  <2>3. UNCHANGED wifi
    BY <1>9 DEF PhoneComes, PhoneLeaves, Btc, InitFinish, BleConnect, BleDisconnect
  <2> QED
    BY <1>1, <2>1, <2>2, <2>3 DEF wifi, TasksTyped
<1>10. CASE Provision
  <2>1. station' = "trying" /\ UNCHANGED <<evq, ble>>
    BY <1>10 DEF Provision
  <2> QED
    BY <1>1, <2>1 DEF ble, TasksTyped
<1>11. AbortOrPowerCut => Restart
  BY DEF AbortOrPowerCut, Reset
<1>12. NetChanges \/ MqttTask \/ Cloud \/ UNCHANGED vars => UNCHANGED <<wifi, ble>>
  BY DEF NetChanges, MqttTask, Cloud, vars
<1> QED
  BY <1>2, <1>3, <1>4, <1>5, <1>7, <1>8, <1>9, <1>10, <1>11, <1>12 DEF Next

LEMMA TypeStep == TypeOK /\ [Next]_vars => TypeOK'
  BY BootStep, TasksStep, SessionTyped, TypeParts, TypePartsPrime

\* Every state of the firmware is of its type.
THEOREM TypeCorrect == Spec => []TypeOK
  BY InitTyped, TypeStep, PTL DEF Spec

---------------------------------------------------------------------------
(* What is there when it is used.                                          *)

LEMMA BootInvStep == TypeOK /\ BootInv /\ [Next]_vars => BootInv'
<1> SUFFICES ASSUME TypeOK, BootInv, [Next]_vars PROVE BootInv'
  OBVIOUS
<1>1. pc \in 1..12
  BY OrderTable DEF TypeOK
<1>2. CASE UNCHANGED <<pc, ready, failed, evq, started>>
  BY <1>2 DEF BootInv
<1>3. CASE Restart
  <2>1. pc' = 1 /\ ready' = {} /\ failed' = {} /\ evq' = <<>> /\ started' = FALSE
    BY <1>3 DEF Restart, Session!Restart
  <2> QED
    BY <2>1 DEF BootInv
\* A step that fits in: its effect on the rest depends on where it stands.
<1>4. ASSUME NEW step, Done(step), evq' # <<>> => evq # <<>> \/ pc = 6,
             started' => started \/ pc = 10
      PROVE  BootInv'
  <2>1. pc \in 1..11 /\ Order[pc] = step /\ pc' = pc + 1 /\ ready' = ready \cup {step}
        /\ failed' = failed
    BY <1>4, DoneStep
  <2>2. \A i \in 1..6 : pc' > i => Order[i] \in ready'
    BY <2>1 DEF BootInv
  <2>3. pc' = 9 => "callbacks" \in ready'
    BY <2>1, OrderTable
  <2>4. "profile" \in ready' => pc' > 9 /\ "callbacks" \in ready'
    <3>1. step = "profile" => pc = 9
      BY <1>4, AtTable DEF Done
    <3> QED
      BY <2>1, <3>1 DEF BootInv
  <2>5. "sensors" \in ready' => pc' > 11
    <3>1. step = "sensors" => pc = 11
      BY <1>4, AtTable DEF Done
    <3>2. "sensors" \notin ready
      BY <2>1 DEF BootInv
    <3> QED
      BY <2>1, <3>1, <3>2
  <2>6. (evq' # <<>> => pc' > 6) /\ (started' => pc' > 10)
    BY <1>4, <2>1 DEF BootInv
  <2>7. failed' \subseteq Bluetooth \cup {"mqtt", "sensors"}
    BY <2>1 DEF BootInv
  <2> QED
    BY <2>2, <2>3, <2>4, <2>5, <2>6, <2>7 DEF BootInv
<1>5. CASE usart1_init \/ equipment_init \/ InitNetif \/ RegisterHandlers \/ InitHost
             \/ RegisterCallbacks \/ StartSensors \/ InitNvs
  <2>1. PICK step : Done(step)
    BY <1>5 DEF usart1_init, equipment_init, InitNetif, RegisterHandlers, InitHost,
                RegisterCallbacks, StartSensors, InitNvs, Plain
  <2>2. UNCHANGED <<evq, started>>
    BY <1>5 DEF usart1_init, equipment_init, InitNetif, RegisterHandlers, InitHost,
                RegisterCallbacks, StartSensors, InitNvs, Plain, wifi, cloud
  <2> QED
    BY <1>4, <2>1, <2>2
<1>6. CASE StartWifi
  <2>1. Done("wifi") /\ started' = started
    BY <1>6 DEF StartWifi, cloud
  <2>2. pc = 6
    BY <2>1, AtTable DEF Done
  <2> QED
    BY <1>4, <2>1, <2>2
<1>7. CASE InitProfile
  <2>1. Done("profile") /\ UNCHANGED <<evq, started>>
    BY <1>7 DEF InitProfile, wifi, cloud
  <2> QED
    BY <1>4, <2>1
<1>8. CASE StartMqtt
  <2>1. Done("mqtt") /\ evq' = evq
    BY <1>8 DEF StartMqtt, wifi
  <2>2. pc = 10
    BY <2>1, AtTable DEF Done
  <2> QED
    BY <1>4, <2>1, <2>2
<1>9. CASE BluetoothFails
  <2>1. pc \in 7..9 /\ pc' = 10 /\ UNCHANGED <<ready, evq, started>>
    BY <1>9, BluetoothFailsStep
  <2>2. ~started
    BY <2>1 DEF BootInv
  <2>3. "sensors" \notin ready
    BY <2>1 DEF BootInv
  <2>4. PICK step \in Bluetooth : Fails(step)
    BY <1>9, BluetoothFailsStep
  <2>5. failed' \subseteq Bluetooth \cup {"mqtt", "sensors"}
    BY <2>4 DEF Fails, BootInv
  <2> QED
    BY <2>1, <2>2, <2>3, <2>5 DEF BootInv
<1>15. CASE Unnoticed
  <2>1. pc \in {10, 11} /\ pc' = pc + 1 /\ UNCHANGED <<ready, evq, started>>
    BY <1>15, UnnoticedStep
  <2>2. failed' = failed \cup {"mqtt"} \/ failed' = failed \cup {"sensors"}
    BY <1>15, UnnoticedStep DEF Fails
  <2>3. failed' \subseteq Bluetooth \cup {"mqtt", "sensors"}
    BY <2>2 DEF BootInv
  <2>4. "sensors" \notin ready
    BY <2>1 DEF BootInv
  <2> QED
    BY <2>1, <2>3, <2>4 DEF BootInv
<1>10. CASE StaStart
  <2>1. evq # <<>> /\ UNCHANGED <<pc, ready, failed, started>>
    BY <1>10 DEF StaStart, boot, cloud
  <2> QED
    BY <2>1 DEF BootInv
<1>11. InitNvsAborts \/ AbortOrPowerCut => Restart
  BY DEF InitNvsAborts, AbortOrPowerCut, Reset
<1>12. CASE NetChanges \/ MqttTask \/ Cloud
  <2>1. started' = started
    BY <1>12 DEF NetChanges, MqttTask, Cloud, Session!NetChanges, Session!Handler,
         Session!EventConnected, Session!EventDisconnected, Session!EventSubscribed,
         Session!EventPublished, Session!EventData, Session!Others, Session!Resend,
         Session!Broker, Session!CloudSends
  <2>2. UNCHANGED <<pc, ready, failed, evq>>
    BY <1>12 DEF NetChanges, MqttTask, Cloud, boot, wifi
  <2> QED
    BY <1>2, <2>1, <2>2
<1>13. CASE PhoneComes \/ PhoneLeaves \/ Btc \/ Provision
  BY <1>2, <1>13 DEF PhoneComes, PhoneLeaves, Btc, InitFinish, BleConnect, BleDisconnect,
         Provision, boot, wifi, cloud
<1>14. CASE UNCHANGED vars
  BY <1>2, <1>14 DEF vars, boot, wifi, cloud
<1> QED
  BY <1>3, <1>5, <1>6, <1>7, <1>8, <1>9, <1>10, <1>11, <1>12, <1>13, <1>14, <1>15
  DEF Next, Main, Unnoticed

LEMMA LinkInvStep == TypeOK /\ BootInv /\ LinkInv /\ [Next]_vars => LinkInv'
<1> SUFFICES ASSUME TypeOK, BootInv, LinkInv, [Next]_vars PROVE LinkInv'
  OBVIOUS
<1>1. CASE UNCHANGED <<jobs, advertising, conn>>
           /\ ("profile" \in ready' <=> "profile" \in ready)
  BY <1>1 DEF LinkInv
<1>2. CASE Restart
  <2>1. ready' = {} /\ jobs' = <<>> /\ advertising' = FALSE /\ conn' = FALSE
    BY <1>2 DEF Restart
  <2> QED
    BY <2>1 DEF LinkInv
<1>3. ASSUME NEW step, Done(step), step # "profile"
      PROVE  "profile" \in ready' <=> "profile" \in ready
  BY <1>3, DoneStep
<1>4. CASE usart1_init \/ equipment_init \/ InitNetif \/ RegisterHandlers \/ InitHost
             \/ RegisterCallbacks \/ StartSensors \/ InitNvs \/ StartWifi \/ StartMqtt
  <2>1. "profile" \in ready' <=> "profile" \in ready
    BY <1>3, <1>4
    DEF usart1_init, equipment_init, InitNetif, RegisterHandlers, InitHost,
        RegisterCallbacks, StartSensors, InitNvs, StartWifi, StartMqtt, Plain
  <2>2. UNCHANGED <<jobs, advertising, conn>>
    BY <1>4
    DEF usart1_init, equipment_init, InitNetif, RegisterHandlers, InitHost,
        RegisterCallbacks, StartSensors, InitNvs, StartWifi, StartMqtt, Plain, ble
  <2> QED
    BY <1>1, <2>1, <2>2
<1>5. CASE BluetoothFails \/ Unnoticed
  BY <1>1, <1>5, BluetoothFailsStep, UnnoticedStep
<1>6. CASE InitProfile
  <2>1. Done("profile") /\ jobs' = Append(jobs, "INIT_FINISH") /\ UNCHANGED <<advertising, conn>>
    BY <1>6 DEF InitProfile
  <2>2. pc = 9
    BY <2>1, AtTable DEF Done
  <2>3. "profile" \notin ready /\ "profile" \in ready'
    BY <2>1, <2>2, DoneStep DEF BootInv
  <2>4. jobs = <<>> /\ ~advertising /\ ~conn
    BY <2>3 DEF LinkInv
  <2> QED
    BY <2>1, <2>3, <2>4 DEF LinkInv
<1>7. CASE PhoneComes \/ PhoneLeaves \/ Btc
  <2>1. ready' = ready
    BY <1>7 DEF PhoneComes, PhoneLeaves, Btc, InitFinish, BleConnect, BleDisconnect, boot
  <2>2. "profile" \in ready
    BY <1>7 DEF LinkInv, PhoneComes, PhoneLeaves, Btc, InitFinish, BleConnect,
                BleDisconnect, Job
  <2>3. CASE PhoneComes
    BY <2>1, <2>2, <2>3 DEF PhoneComes, LinkInv
  <2>4. CASE PhoneLeaves
    <3>1. conn /\ conn' = FALSE /\ jobs' = Append(jobs, "BLE_DISCONNECT")
          /\ advertising' = advertising
      BY <2>4 DEF PhoneLeaves
    <3>2. ~advertising /\ (jobs = <<"BLE_CONNECT">> \/ jobs = <<>>)
      BY <2>2, <3>1 DEF LinkInv
    <3>3. jobs' = <<"BLE_CONNECT", "BLE_DISCONNECT">> \/ jobs' = <<"BLE_DISCONNECT">>
      BY <3>1, <3>2, ShortSequences
    <3> QED
      BY <2>1, <2>2, <3>1, <3>2, <3>3 DEF LinkInv
  <2>5. CASE InitFinish
    BY <2>1, <2>2, <2>5 DEF InitFinish, Job, LinkInv
  <2>6. CASE BleConnect
    <3>1. jobs # <<>> /\ Head(jobs) = "BLE_CONNECT" /\ jobs' = Tail(jobs)
          /\ advertising' = FALSE /\ conn' = conn
      BY <2>6 DEF BleConnect, Job
    <3>2. \/ jobs = <<"BLE_CONNECT">> /\ conn
          \/ jobs = <<"BLE_CONNECT", "BLE_DISCONNECT">> /\ ~conn
      BY <2>2, <3>1 DEF LinkInv
    <3>3. (jobs' = <<>> /\ conn') \/ (jobs' = <<"BLE_DISCONNECT">> /\ ~conn')
      BY <3>1, <3>2, ShortSequences
    <3> QED
      BY <2>1, <2>2, <3>1, <3>3 DEF LinkInv
  <2>7. CASE BleDisconnect
    BY <2>1, <2>2, <2>7 DEF BleDisconnect, Job, LinkInv
  <2> QED
    BY <1>7, <2>3, <2>4, <2>5, <2>6, <2>7 DEF Btc
<1>8. InitNvsAborts \/ AbortOrPowerCut => Restart
  BY DEF InitNvsAborts, AbortOrPowerCut, Reset
<1>9. CASE StaStart \/ Provision \/ NetChanges \/ MqttTask \/ Cloud \/ UNCHANGED vars
  BY <1>1, <1>9 DEF StaStart, Provision, NetChanges, MqttTask, Cloud, vars, boot, ble
<1> QED
  BY <1>2, <1>4, <1>5, <1>6, <1>7, <1>8, <1>9 DEF Next, Main, Unnoticed

LEMMA PassedStep == TypeOK /\ BootInv /\ Passed /\ [Next]_vars => Passed'
<1> SUFFICES ASSUME TypeOK, BootInv, Passed, [Next]_vars PROVE Passed'
  OBVIOUS
<1>1. pc \in 1..12
  BY OrderTable DEF TypeOK
<1>2. CASE UNCHANGED <<pc, ready, failed, evq, station, started>>
  BY <1>2 DEF Passed
<1>3. CASE Restart
  <2>1. pc' = 1
    BY <1>3 DEF Restart
  <2> QED
    BY <2>1 DEF Passed
\* A step leaves its own trace, and no other is lost.
<1>4. ASSUME NEW step, Done(step), station' = station, evq = <<>> \/ evq' # <<>>,
             pc = 6 => evq' # <<>>, started => started', pc = 10 => started'
      PROVE  Passed'
  <2>1. pc \in 1..11 /\ Order[pc] = step /\ pc' = pc + 1 /\ ready' = ready \cup {step}
        /\ failed' = failed
    BY <1>4, DoneStep
  <2>2. pc' > 6 => evq' # <<>> \/ station' # "off"
    BY <1>4, <2>1 DEF Passed
  <2>3. pc' > 10 => (started' /\ "mqtt" \in ready') \/ "mqtt" \in failed'
    BY <1>4, <2>1, OrderTable DEF Passed
  <2>4. pc' > 11 => "sensors" \in ready' \cup failed'
    BY <2>1, OrderTable
  <2>5. pc' > 7 => "controller" \in ready' \cup failed'
    BY <2>1, OrderTable DEF Passed
  <2>6. pc' > 8 => {"controller", "callbacks"} \subseteq ready'
                   \/ failed' \cap Bluetooth # {}
    BY <2>1, OrderTable DEF Passed, Bluetooth
  <2>7. pc' > 9 => Bluetooth \subseteq ready' \/ failed' \cap Bluetooth # {}
    BY <2>1, OrderTable DEF Passed, Bluetooth
  <2> QED
    BY <2>2, <2>3, <2>4, <2>5, <2>6, <2>7 DEF Passed
<1>5. CASE usart1_init \/ equipment_init \/ InitNetif \/ RegisterHandlers \/ InitHost
             \/ RegisterCallbacks \/ StartSensors \/ InitNvs \/ InitProfile
  <2>1. PICK step \in {"uart", "pins", "netif", "handlers", "controller", "callbacks",
                       "sensors", "nvs", "profile"} : Done(step)
    BY <1>5 DEF usart1_init, equipment_init, InitNetif, RegisterHandlers, InitHost,
                RegisterCallbacks, StartSensors, InitNvs, InitProfile, Plain
  <2>2. UNCHANGED <<evq, station, started>>
    BY <1>5 DEF usart1_init, equipment_init, InitNetif, RegisterHandlers, InitHost,
                RegisterCallbacks, StartSensors, InitNvs, InitProfile, Plain, wifi, cloud
  <2>3. pc # 6 /\ pc # 10
    BY <2>1, AtTable DEF Done
  <2> QED
    BY <1>4, <2>1, <2>2, <2>3
<1>6. CASE StartWifi
  <2>1. Done("wifi") /\ UNCHANGED <<station, started>> /\ evq' = Append(evq, "STA_START")
    BY <1>6 DEF StartWifi, cloud
  <2>2. pc = 6 /\ evq' # <<>>
    <3>1. evq \in Seq({"STA_START"})
      BY DEF TypeOK
    <3> QED
      BY <2>1, <3>1, AtTable DEF Done
  <2> QED
    BY <1>4, <2>1, <2>2
<1>7. CASE StartMqtt
  <2>1. Done("mqtt") /\ UNCHANGED <<evq, station>> /\ started'
    BY <1>7 DEF StartMqtt, Session!Start, wifi
  <2>2. pc = 10
    BY <2>1, AtTable DEF Done
  <2> QED
    BY <1>4, <2>1, <2>2
<1>8. CASE BluetoothFails
  <2>1. pc \in 7..9 /\ pc' = 10 /\ UNCHANGED <<ready, evq, station>>
    BY <1>8, BluetoothFailsStep
  <2>2. PICK step \in Bluetooth : Fails(step)
    BY <1>8, BluetoothFailsStep
  <2>3. failed' \cap Bluetooth # {} /\ failed \subseteq failed'
    BY <2>2 DEF Fails
  <2>4. "controller" \in ready \cup failed'
    <3>1. CASE pc = 7
      BY <2>2, <3>1, FailsStep, OrderTable
    <3>2. CASE pc > 7
      BY <2>3, <3>2 DEF Passed
    <3> QED
      BY <2>1, <3>1, <3>2
  <2> QED
    BY <2>1, <2>3, <2>4 DEF Passed
<1>15. CASE Unnoticed
  <2>1. pc \in {10, 11} /\ pc' = pc + 1 /\ UNCHANGED <<ready, evq, station, started>>
    BY <1>15, UnnoticedStep
  <2>2. failed \subseteq failed'
    BY <1>15, UnnoticedStep DEF Fails
  <2>3. (pc = 10 => "mqtt" \in failed') /\ (pc = 11 => "sensors" \in failed')
    BY <1>15, UnnoticedStep DEF Fails
  <2> QED
    BY <2>1, <2>2, <2>3 DEF Passed
\* The event finds its handler.
<1>9. CASE StaStart
  <2>1. evq # <<>> /\ UNCHANGED <<pc, ready, failed, started>>
    BY <1>9 DEF StaStart, boot, cloud
  <2>2. "handlers" \in ready
    BY <1>1, <2>1, OrderTable DEF BootInv
  <2>3. station' # "off"
    BY <1>9, <2>2 DEF StaStart
  <2> QED
    BY <2>1, <2>3 DEF Passed
<1>10. CASE Provision
  <2>1. station' = "trying" /\ UNCHANGED <<pc, ready, failed, evq, started>>
    BY <1>10 DEF Provision, cloud
  <2> QED
    BY <2>1 DEF Passed
<1>11. InitNvsAborts \/ AbortOrPowerCut => Restart
  BY DEF InitNvsAborts, AbortOrPowerCut, Reset
<1>12. CASE NetChanges \/ MqttTask \/ Cloud
  <2>1. started' = started
    BY <1>12 DEF NetChanges, MqttTask, Cloud, Session!NetChanges, Session!Handler,
         Session!EventConnected, Session!EventDisconnected, Session!EventSubscribed,
         Session!EventPublished, Session!EventData, Session!Others, Session!Resend,
         Session!Broker, Session!CloudSends
  <2>2. UNCHANGED <<pc, ready, failed, evq, station>>
    BY <1>12 DEF NetChanges, MqttTask, Cloud, boot, wifi
  <2> QED
    BY <1>2, <2>1, <2>2
<1>13. CASE PhoneComes \/ PhoneLeaves \/ Btc
  BY <1>2, <1>13 DEF PhoneComes, PhoneLeaves, Btc, InitFinish, BleConnect, BleDisconnect,
         boot, wifi, cloud
<1>14. CASE UNCHANGED vars
  BY <1>2, <1>14 DEF vars, boot, wifi, cloud
<1> QED
  BY <1>3, <1>5, <1>6, <1>7, <1>8, <1>9, <1>10, <1>11, <1>12, <1>13, <1>14,
     <1>15 DEF Next, Main, Unnoticed

---------------------------------------------------------------------------
(* The theorems about them.                                                *)

LEMMA InvInit == Init => BootInv /\ LinkInv /\ Passed
  BY DEF Init, BootInv, LinkInv, Passed, Session!Init

\* Handlers are there before events, Wi-Fi before the phone's commands, the IP stack
\* before the client, and the serial port before the cloud and the sensors, wherever
\* app_main is and whichever step was skipped (app_main.c:14-23, user_blufi.c:366-389).
THEOREM NothingIsUsedTooEarly == Spec => []ReadyBeforeUse
<1>1. TypeOK /\ BootInv /\ LinkInv => ReadyBeforeUse
  <2> SUFFICES ASSUME TypeOK, BootInv, LinkInv PROVE ReadyBeforeUse
    OBVIOUS
  <2>1. pc \in 1..12
    BY OrderTable DEF TypeOK
  <2>2. evq # <<>> => {"netif", "handlers"} \subseteq ready
    BY <2>1, OrderTable DEF BootInv
  <2>3. conn => {"nvs", "wifi", "callbacks"} \subseteq ready
    <3> SUFFICES ASSUME conn PROVE {"nvs", "wifi", "callbacks"} \subseteq ready
      OBVIOUS
    <3>1. "profile" \in ready
      BY DEF LinkInv
    <3> QED
      BY <2>1, <3>1, OrderTable DEF BootInv
  <2>4. started => {"uart", "netif"} \subseteq ready
    BY <2>1, OrderTable DEF BootInv
  <2>5. "sensors" \in ready => {"uart", "pins"} \subseteq ready
    BY <2>1, OrderTable DEF BootInv
  <2> QED
    BY <2>2, <2>3, <2>4, <2>5 DEF ReadyBeforeUse
<1> QED
  BY <1>1, InitTyped, InvInit, TypeStep, BootInvStep, LinkInvStep, PTL DEF Spec

\* Once BTC has seen the phone leave the device advertises again: events of the link
\* and the calls of esp_blufi_adv_stop and _start keep their order
\* (user_blufi.c:202-221).
THEOREM TheDeviceIsFound == Spec => []PhoneCanReturn
<1>1. LinkInv => PhoneCanReturn
  BY DEF LinkInv, PhoneCanReturn
<1> QED
  BY <1>1, InitTyped, InvInit, TypeStep, BootInvStep, LinkInvStep, PTL DEF Spec

\* When app_main has ended a step is missing only if its own call failed or Bluetooth had
\* been given up before it, only steps whose failure ends neither are among them, and the
\* station was started or is about to be (app_main.c:14-23, user_blufi.c:361-396).
THEOREM TheBootIsComplete == Spec => []BootIsComplete
<1>1. TypeOK /\ BootInv /\ Passed => BootIsComplete
  <2> SUFFICES ASSUME TypeOK, BootInv, Passed, Booted PROVE BootIsComplete
    BY DEF BootIsComplete
  <2>1. pc = 12
    BY OrderTable DEF TypeOK, Booted
  <2>2. {"uart", "pins", "nvs", "netif", "handlers", "wifi"} \subseteq ready
    BY <2>1, OrderTable DEF BootInv
  <2>3. Bluetooth \subseteq ready \/ failed \cap Bluetooth # {}
    BY <2>1 DEF Passed
  <2>4. ((started /\ "mqtt" \in ready) \/ "mqtt" \in failed)
        /\ "sensors" \in ready \cup failed
    BY <2>1 DEF Passed
  <2>5. Steps = {"uart", "pins", "nvs", "netif", "handlers", "wifi", "mqtt", "sensors"}
                  \cup Bluetooth
    BY DEF Steps, Order, Bluetooth
  <2>6. \A step \in Steps \ ready :
           step \in failed \/ (step \in Bluetooth /\ failed \cap Bluetooth # {})
    BY <2>2, <2>3, <2>4, <2>5
  <2>7. station # "off" \/ evq # <<>>
    BY <2>1 DEF Passed
  <2> QED
    BY <2>4, <2>6, <2>7 DEF BootIsComplete, BootInv
<1> QED
  BY <1>1, InitTyped, InvInit, TypeStep, BootInvStep, PassedStep, PTL DEF Spec

\* Whatever the station is told, it stays started until the next boot.
LEMMA StationStays ==
    station # "off" /\ Booted /\ Booted' /\ TypeOK /\ [Next]_vars => (station # "off")'
<1> SUFFICES ASSUME station # "off", Booted, Booted', TypeOK, [Next]_vars
             PROVE  station' # "off"
  OBVIOUS
<1>1. \A step : ~At(step)
  BY DEF At
<1>2. ~Main
  BY <1>1 DEF Main, usart1_init, equipment_init, InitNvs, InitNvsAborts, InitNetif,
         RegisterHandlers, StartWifi, InitHost, RegisterCallbacks, InitProfile,
         BluetoothFails, StartMqtt, StartSensors, StartMqttFails, StartSensorsFails,
         Plain, Fails, Done
<1>3. ~AbortOrPowerCut
  <2>1. Restart => pc' = 1
    BY DEF Restart
  <2>2. pc' # 1
    BY OrderTable DEF Booted
  <2> QED
    BY <2>1, <2>2 DEF AbortOrPowerCut, Reset
<1>4. CASE StaStart \/ Provision
  BY <1>4 DEF StaStart, Provision
<1>5. CASE PhoneComes \/ PhoneLeaves \/ Btc \/ NetChanges \/ MqttTask \/ Cloud
           \/ UNCHANGED vars
  BY <1>5 DEF PhoneComes, PhoneLeaves, Btc, InitFinish, BleConnect, BleDisconnect,
              NetChanges, MqttTask, Cloud, vars, wifi
<1> QED
  BY <1>2, <1>3, <1>4, <1>5 DEF Next

\* If app_main ends, and the event task catches up, the station is started, and the client
\* and the sensors are running unless their own start failed, and it stays so until the
\* next reset (app_main.c:14-23): ComesUp but for the scheduling.
THEOREM ComesUpOnceBooted == Spec /\ <>[]Booted /\ []<>(evq = <<>>) => ComesUp
<1>1. BootIsComplete /\ Booted
        => (started \/ "mqtt" \in failed) /\ "sensors" \in ready \cup failed
  <2>1. "sensors" \in Steps /\ "sensors" \notin Bluetooth
    BY DEF Steps, Order, Bluetooth
  <2> QED
    BY <2>1 DEF BootIsComplete
<1>2. BootIsComplete /\ Booted /\ evq = <<>> => station # "off"
  BY DEF BootIsComplete
<1> QED
  BY <1>1, <1>2, TheBootIsComplete, TypeCorrect, StationStays, PTL DEF Spec, ComesUp
================================================================================
