------------------------ MODULE BlufiStation_proofs ------------------------
(***************************************************************************)
(* Proofs about BlufiStation, for every set of access points and passwords *)
(* and for every bound: the type invariant, that the globals follow the    *)
(* driver, that no reconnect is lost, which configuration is used, that    *)
(* the address is told of, and that the globals implement LinkView.        *)
(***************************************************************************)
EXTENDS BlufiStation, SequenceTheorems, TLAPS

USE ZeroAssumption, PasswdAssumption, FullSsidAssumption, BoundAssumption

---------------------------------------------------------------------------
(* Typing.                                                                 *)

LEMMA ConstantsTyped ==
    /\ NoConfig \in Config
    /\ NoReport \in Report /\ Failed \in Report
    /\ Start \in Event /\ Disconnected \in Event /\ GotIp \in Event
    /\ \A n \in Name : Connected(n) \in Event
    /\ \A ap \in AP : Provisioned(ap) \in Config
BY DEF NoConfig, Config, NoReport, Failed, Report, Start, Disconnected, GotIp,
       Connected, Event, Name, Provisioned

LEMMA ConnectTyped ==
    ASSUME TypeOK, esp_wifi_connect
    PROVE  /\ link' \in {"idle", "connecting", "up"}
           /\ using' \in Config
           /\ parked' \in BOOLEAN
BY DEF TypeOK, esp_wifi_connect

LEMMA DisconnectTyped ==
    ASSUME TypeOK, esp_wifi_disconnect
    PROVE  /\ link' \in {"idle", "connecting", "up"}
           /\ evq' \in Seq(Event)
BY ConstantsTyped DEF TypeOK, esp_wifi_disconnect

\* A mode makes the driver leave, makes it start the station anew, or changes nothing
\* for the station.
LEMMA OpmodeEffect ==
    ASSUME SetWifiOpmode
    PROVE  /\ UNCHANGED <<phone, flash, using, parked, dhcp, view, connected_bit,
                          ble_is_connected, btc, info, report, air, intent>>
           /\ \/ UNCHANGED <<link, evq>> /\ (sta_mode' => sta_mode)
              \/ link' = "idle" /\ evq' = Append(evq, Disconnected) /\ ~sta_mode'
              \/ link' = link /\ evq' = Append(evq, Start)
BY DEF SetWifiOpmode, esp_wifi_set_mode, esp_wifi_disconnect

LEMMA AbortReboots == SetWifiOpmodeAborts => Reboot
BY DEF SetWifiOpmodeAborts, PhoneCommand, Command, Reboot

\* The event task takes one event off its queue, which is an event.
LEMMA QueueTyped ==
    ASSUME TypeOK, evq # <<>>
    PROVE  /\ Head(evq) \in Event
           /\ Tail(evq) \in Seq(Event)
BY DEF TypeOK

\* Every variable keeps its type in every step.
LEMMA TypeStep == TypeOK /\ [Next]_vars => TypeOK'
<1> SUFFICES ASSUME TypeOK, [Next]_vars PROVE TypeOK'
  OBVIOUS
<1>1. CASE Associate
  <2>1. using.ssid \in Name
    BY DEF TypeOK, Config
  <2>2. evq' \in Seq(Event)
    BY <1>1, <2>1, ConstantsTyped DEF Associate, TypeOK
  <2> QED
    BY <1>1, <2>2 DEF Associate, TypeOK, view, phone
<1>2. CASE AttemptFails \/ LinkLost
  <2>1. evq' \in Seq(Event)
    BY <1>2, ConstantsTyped DEF AttemptFails, LinkLost, TypeOK
  <2> QED
    BY <1>2, <2>1 DEF AttemptFails, LinkLost, TypeOK, view, phone
<1>3. CASE DhcpAck
  BY <1>3 DEF DhcpAck, TypeOK, view, phone, driver
<1>4. CASE PostGotIp
  <2>1. evq' \in Seq(Event)
    BY <1>4, ConstantsTyped DEF PostGotIp, TypeOK
  <2> QED
    BY <1>4, <2>1 DEF PostGotIp, TypeOK, view, phone, driver
<1>5. CASE AirChanges
  BY <1>5 DEF AirChanges, TypeOK, view, phone, driver
<1>6. CASE StaStart
  <2>1. evq' \in Seq(Event)
    BY <1>6, QueueTyped DEF StaStart, Pending
  <2> QED
    BY <1>6, <2>1, ConnectTyped DEF StaStart, TypeOK, view, phone
<1>7. CASE StaConnected
  <2>1. evq' \in Seq(Event) /\ Head(evq).ap \in Name
    BY <1>7, QueueTyped DEF StaConnected, Pending, Event
  <2> QED
    BY <1>7, <2>1 DEF StaConnected, TypeOK, phone, driver
<1>8. CASE StaDisconnected
  <2>1. evq' \in Seq(Event)
    BY <1>8, QueueTyped DEF StaDisconnected, Pending
  <2> QED
    BY <1>8, <2>1, ConnectTyped DEF StaDisconnected, ForgetNames, TypeOK, phone, Name
<1>9. CASE StaGotIp
  <2>1. evq' \in Seq(Event)
    BY <1>9, QueueTyped DEF StaGotIp, Pending
  <2>2. report' \in Report
    BY <1>9 DEF StaGotIp, Deliver, Report, TypeOK
  <2> QED
    BY <1>9, <2>1, <2>2 DEF StaGotIp, TypeOK, view, phone, driver
<1>10. CASE BleConnect \/ BleDisconnect
  <2>1. report' \in Report
    BY <1>10, ConstantsTyped DEF BleConnect, BleDisconnect, TypeOK
  <2>2. ble_is_connected' \in BOOLEAN
    BY <1>10 DEF BleConnect, BleDisconnect
  <2>3. ops' \in 0..MaxOps
    BY <1>10 DEF BleConnect, BleDisconnect, PhoneCommand, Command, TypeOK
  <2> QED
    BY <1>10, <2>1, <2>2, <2>3 DEF BleConnect, BleDisconnect, TypeOK, view, phone, driver
<1>11. ASSUME NEW c \in Config, Receive(c), sent' \in Config, cut' \in BOOLEAN
       PROVE  TypeOK'
  <2>1. flash' \in Config /\ taken' \in BOOLEAN
    <3>1. (flash' = c /\ taken' = TRUE) \/ (flash' = flash /\ taken' = FALSE)
      BY <1>11 DEF Receive, esp_wifi_set_config
    <3> QED
      BY <3>1 DEF TypeOK
  <2>2. sta_config' \in Config /\ ops' \in 0..MaxOps
    BY <1>11 DEF Receive, PhoneCommand, Command, TypeOK
  <2>3. sent' \in Config /\ cut' \in BOOLEAN
    BY <1>11
  <2>4. UNCHANGED <<sta_mode, link, using, parked, dhcp, evq, view, connected_bit,
                    ble_is_connected, btc, info, report, air>> /\ intent' = "none"
    BY <1>11 DEF Receive
  <2> QED
    BY <2>1, <2>2, <2>3, <2>4 DEF TypeOK, view
<1>12. CASE RecvStaBssid \/ RecvStaSsid \/ RecvStaPasswd
  <2>0. sta_config \in Config /\ sent \in Config /\ cut \in BOOLEAN
    BY DEF TypeOK
  <2>1. CASE RecvStaBssid
    <3>1. PICK ap \in AP : /\ Receive([sta_config EXCEPT !.bssid = ap])
                           /\ sent' = [sent EXCEPT !.bssid = ap]
                           /\ cut' = cut
      BY <2>1 DEF RecvStaBssid
    <3>2. [sta_config EXCEPT !.bssid = ap] \in Config /\ sent' \in Config
      BY <2>0, <3>1 DEF Config, Name
    <3> QED
      BY <2>0, <3>1, <3>2, <1>11
  <2>2. CASE RecvStaSsid
    <3>1. PICK ap \in AP :
            /\ Receive([sta_config EXCEPT
                          !.ssid = ap,
                          !.passwd = IF ap \in FullSsid THEN NoPasswd ELSE @])
            /\ sent' = [sent EXCEPT !.ssid = ap]
            /\ cut' = (cut \/ ap \in FullSsid)
      BY <2>2 DEF RecvStaSsid
    <3>2. sent' \in Config /\ cut' \in BOOLEAN
      BY <2>0, <3>1 DEF Config, Name
    <3>3. [sta_config EXCEPT !.ssid = ap,
                             !.passwd = IF ap \in FullSsid THEN NoPasswd ELSE @] \in Config
      BY <2>0 DEF Config, Name
    <3> QED
      BY <3>1, <3>2, <3>3, <1>11
  <2>3. CASE RecvStaPasswd
    <3>1. PICK p \in Passwd \ {NoPasswd} :
            /\ Receive([sta_config EXCEPT !.passwd = p])
            /\ sent' = [sent EXCEPT !.passwd = p]
            /\ cut' = FALSE
      BY <2>3 DEF RecvStaPasswd
    <3>2. [sta_config EXCEPT !.passwd = p] \in Config /\ sent' \in Config
      BY <2>0, <3>1 DEF Config, Name
    <3> QED
      BY <3>1, <3>2, <1>11
  <2> QED
    BY <1>12, <2>1, <2>2, <2>3
<1>13. CASE ReqConnect
  BY <1>13, DisconnectTyped, ConstantsTyped
  DEF ReqConnect, PhoneCommand, Command, TypeOK, view, phone
<1>14. CASE ReqConnectFinish
  BY <1>14, ConnectTyped DEF ReqConnectFinish, TypeOK, view, phone
<1>15. CASE ReqDisconnect
  BY <1>15, DisconnectTyped DEF ReqDisconnect, PhoneCommand, Command, TypeOK, view, phone
<1>16. CASE GetWifiStatus
  <2>1. report' \in Report
    BY <1>16, ConstantsTyped DEF GetWifiStatus, Deliver, TypeOK
  <2> QED
    BY <1>16, <2>1 DEF GetWifiStatus, PhoneCommand, Command, TypeOK, view, phone, driver
<1>17. CASE StatusCopyBssid
  BY <1>17 DEF StatusCopyBssid, TypeOK, view, phone, driver
<1>18. CASE StatusSend
  <2>1. report' \in Report
    BY <1>18 DEF StatusSend, Deliver, Report, TypeOK
  <2> QED
    BY <1>18, <2>1 DEF StatusSend, TypeOK, view, phone, driver, Name
<1>19. CASE Reboot
  <2>1. /\ evq' \in Seq(Event) /\ report' \in Report
        /\ sta_config' \in Config /\ sent' \in Config /\ using' \in Config
    BY <1>19, ConstantsTyped DEF Reboot, Restart
  <2>2. /\ gl_sta_connected' \in BOOLEAN /\ parked' \in BOOLEAN
        /\ connected_bit' \in BOOLEAN /\ ble_is_connected' \in BOOLEAN
        /\ cut' \in BOOLEAN /\ taken' \in BOOLEAN /\ sta_mode' \in BOOLEAN
    BY <1>19 DEF Reboot, Restart
  <2>3. /\ gl_sta_bssid' \in Name /\ gl_sta_ssid' \in Name /\ info' \in Name
        /\ ops' \in 0..MaxOps
    BY <1>19 DEF Reboot, Restart, ForgetNames, Name, TypeOK
  <2> QED
    BY <1>19, <2>1, <2>2, <2>3 DEF Reboot, Restart, TypeOK
<1>20. CASE SetWifiOpmode
  <2>1. link' \in {"idle", "connecting", "up"} /\ evq' \in Seq(Event)
    BY <1>20, OpmodeEffect, ConstantsTyped DEF TypeOK
  <2>2. sta_mode' \in BOOLEAN /\ ops' \in 0..MaxOps
    BY <1>20 DEF SetWifiOpmode, esp_wifi_set_mode, PhoneCommand, Command, TypeOK
  <2>3. UNCHANGED <<phone, flash, using, parked, dhcp, view, connected_bit,
                    ble_is_connected, btc, info, report, air, intent>>
    BY <1>20, OpmodeEffect
  <2> QED
    BY <2>1, <2>2, <2>3 DEF TypeOK, phone, view
<1>21. CASE UNCHANGED vars
  BY <1>21 DEF vars, phone, driver, view, TypeOK
<1> QED
  BY <1>1, <1>2, <1>3, <1>4, <1>5, <1>6, <1>7, <1>8, <1>9, <1>10, <1>12, <1>13,
     <1>14, <1>15, <1>16, <1>17, <1>18, <1>19, <1>20, <1>21, AbortReboots
  DEF Next, Driver, EventTask, BtcStart, BtcResume

\* Every variable of user_blufi.c keeps its type, in every reachable state.
THEOREM TypeCorrect == Spec => []TypeOK
<1>1. Init => TypeOK
  <2> SUFFICES ASSUME Init PROVE TypeOK
    OBVIOUS
  <2>1. /\ evq \in Seq(Event) /\ report \in Report
        /\ sta_config \in Config /\ sent \in Config /\ using \in Config /\ flash \in Config
    BY ConstantsTyped DEF Init
  <2> QED
    <3>1. /\ gl_sta_connected \in BOOLEAN /\ parked \in BOOLEAN
          /\ connected_bit \in BOOLEAN /\ ble_is_connected \in BOOLEAN
          /\ cut \in BOOLEAN /\ taken \in BOOLEAN /\ sta_mode \in BOOLEAN
      BY DEF Init
    <3>2. /\ gl_sta_bssid \in Name /\ gl_sta_ssid \in Name /\ info \in Name
          /\ ops \in 0..MaxOps /\ air \subseteq AP
      BY DEF Init, Name
    <3> QED
      BY <2>1, <3>1, <3>2 DEF Init, TypeOK
<1> QED
  BY <1>1, TypeStep, PTL DEF Spec
---------------------------------------------------------------------------
(* The globals follow the driver.                                          *)

LEMMA AppendFacts ==
    ASSUME NEW q \in Seq(Event), NEW e \in Event
    PROVE  /\ DOMAIN Append(q, e) = 1..(Len(q) + 1)
           /\ DOMAIN q = 1..Len(q) /\ Len(q) \in Nat
           /\ \A i \in DOMAIN q : Append(q, e)[i] = q[i]
           /\ Append(q, e)[Len(q) + 1] = e
OBVIOUS

LEMMA TailFacts ==
    ASSUME NEW q \in Seq(Event), q # <<>>
    PROVE  /\ DOMAIN q = 1..Len(q) /\ Len(q) \in Nat \ {0}
           /\ DOMAIN Tail(q) = 1..(Len(q) - 1)
           /\ \A i \in DOMAIN Tail(q) : Tail(q)[i] = q[i + 1]
           /\ Head(q) = q[1]
OBVIOUS

\* Calling esp_wifi_connect never makes or breaks an association.
LEMMA ConnectKeepsAssociation ==
    ASSUME esp_wifi_connect
    PROVE  /\ Association' = Association
           /\ (link' = "up") = (link = "up")
BY DEF esp_wifi_connect, Association, Connected, Disconnected

\* An association event is posted with the change it tells of.
LEMMA ViewAfterPost ==
    ASSUME TypeOK, NEW e \in Event, IsAssoc(e), evq' = Append(evq, e), e = Association'
    PROVE  ViewFollowsLink'
<1>1. \A i \in DOMAIN evq' : i = Len(evq) + 1 \/ i \in DOMAIN evq
  BY AppendFacts DEF TypeOK
<1>2. Len(evq) + 1 \in DOMAIN evq' /\ evq'[Len(evq) + 1] = e
  BY AppendFacts DEF TypeOK
<1>3. ~ \A i \in DOMAIN evq' : ~IsAssoc(evq'[i])
  BY <1>2
<1>4. ASSUME NEW i \in DOMAIN evq', i \in DOMAIN evq
      PROVE  ~ \A j \in DOMAIN evq' : j > i => ~IsAssoc(evq'[j])
  BY <1>2, <1>4, AppendFacts DEF TypeOK
<1> QED
  BY <1>1, <1>2, <1>3, <1>4 DEF ViewFollowsLink, IsAssoc

\* An event of another kind is posted without a change of the association.
LEMMA ViewAfterOtherPost ==
    ASSUME TypeOK, ViewFollowsLink,
           NEW e \in Event, ~IsAssoc(e), evq' = Append(evq, e),
           UNCHANGED <<view, link, using>>
    PROVE  ViewFollowsLink'
<1>1. Association' = Association /\ (link' = "up") = (link = "up")
  BY DEF Association, Connected, Disconnected
<1>2. /\ gl_sta_connected' = gl_sta_connected
      /\ gl_sta_bssid' = gl_sta_bssid /\ gl_sta_ssid' = gl_sta_ssid
  BY DEF view
<1>3. \A i \in DOMAIN evq : i \in DOMAIN evq' /\ evq'[i] = evq[i]
  BY AppendFacts DEF TypeOK
<1>4. \A i \in DOMAIN evq' : IsAssoc(evq'[i]) => i \in DOMAIN evq
  BY AppendFacts DEF TypeOK
<1> QED
  BY <1>1, <1>2, <1>3, <1>4 DEF ViewFollowsLink, IsAssoc

\* An event that says nothing of the association is handled.
LEMMA ViewAfterOtherHandled ==
    ASSUME TypeOK, ViewFollowsLink,
           evq # <<>>, ~IsAssoc(Head(evq)), evq' = Tail(evq),
           Association' = Association, (link' = "up") = (link = "up"),
           UNCHANGED view
    PROVE  ViewFollowsLink'
<1>2. /\ gl_sta_connected' = gl_sta_connected
      /\ gl_sta_bssid' = gl_sta_bssid /\ gl_sta_ssid' = gl_sta_ssid
  BY DEF view
<1>1. /\ DOMAIN evq = 1..Len(evq) /\ Len(evq) \in Nat
      /\ DOMAIN evq' = 1..(Len(evq) - 1)
  BY TailFacts DEF TypeOK
<1>3. \A i \in DOMAIN evq' : i + 1 \in DOMAIN evq /\ evq'[i] = evq[i + 1]
  BY TailFacts DEF TypeOK
<1>4. \A i \in DOMAIN evq : i = 1 \/ (i - 1 \in DOMAIN evq' /\ evq[i] = evq'[i - 1])
  BY TailFacts DEF TypeOK
<1>5. ~IsAssoc(evq[1])
  BY TailFacts DEF TypeOK
<1>6. (\A i \in DOMAIN evq' : ~IsAssoc(evq'[i]))
        => \A i \in DOMAIN evq : ~IsAssoc(evq[i])
  BY <1>4, <1>5
<1>7. ASSUME NEW i \in DOMAIN evq',
             IsAssoc(evq'[i]), \A j \in DOMAIN evq' : j > i => ~IsAssoc(evq'[j])
      PROVE  evq'[i] = Association'
  <2>1. \A j \in DOMAIN evq : j > i + 1 => (j - 1 > i /\ j # 1)
    BY <1>1, <1>7
  <2>2. \A j \in DOMAIN evq : j > i + 1 => ~IsAssoc(evq[j])
    BY <1>4, <1>7, <2>1
  <2> QED
    BY <1>3, <1>7, <2>2 DEF ViewFollowsLink
<1> QED
  BY <1>2, <1>6, <1>7 DEF ViewFollowsLink, IsAssoc

\* An association event is handled: the globals take what it says.
LEMMA ViewAfterHandled ==
    ASSUME TypeOK, ViewFollowsLink,
           evq # <<>>, IsAssoc(Head(evq)), evq' = Tail(evq),
           Association' = Association, (link' = "up") = (link = "up"),
           gl_sta_connected' = (Head(evq).type = "STA_CONNECTED"),
           gl_sta_bssid' = IF gl_sta_connected' THEN Head(evq).ap ELSE Zero,
           gl_sta_ssid' = gl_sta_bssid'
    PROVE  ViewFollowsLink'
<1>1. /\ DOMAIN evq = 1..Len(evq) /\ Len(evq) \in Nat
      /\ DOMAIN evq' = 1..(Len(evq) - 1)
  BY TailFacts DEF TypeOK
<1>3. \A i \in DOMAIN evq' : i + 1 \in DOMAIN evq /\ evq'[i] = evq[i + 1]
  BY TailFacts DEF TypeOK
<1>4. \A i \in DOMAIN evq : i = 1 \/ (i - 1 \in DOMAIN evq' /\ evq[i] = evq'[i - 1])
  BY TailFacts DEF TypeOK
<1>5. 1 \in DOMAIN evq /\ evq[1] = Head(evq)
  BY TailFacts DEF TypeOK
<1>6. ASSUME \A i \in DOMAIN evq' : ~IsAssoc(evq'[i])
      PROVE  /\ gl_sta_connected' = (link' = "up")
             /\ gl_sta_bssid' = Association'.ap
             /\ gl_sta_ssid' = Association'.ap
  <2>1. \A j \in DOMAIN evq : j > 1 => ~IsAssoc(evq[j])
    BY <1>1, <1>4, <1>6
  <2>2. Head(evq) = Association
    BY <1>5, <2>1 DEF ViewFollowsLink
  <2>3. /\ (Head(evq).type = "STA_CONNECTED") = (link = "up")
        /\ link # "up" => Head(evq).ap = Zero
    BY <2>2 DEF Association, Connected, Disconnected
  <2> QED
    BY <2>2, <2>3
<1>7. ASSUME NEW i \in DOMAIN evq',
             IsAssoc(evq'[i]), \A j \in DOMAIN evq' : j > i => ~IsAssoc(evq'[j])
      PROVE  evq'[i] = Association'
  <2>1. \A j \in DOMAIN evq : j > i + 1 => (j - 1 > i /\ j # 1)
    BY <1>1, <1>7
  <2>2. \A j \in DOMAIN evq : j > i + 1 => ~IsAssoc(evq[j])
    BY <1>4, <1>7, <2>1
  <2> QED
    BY <1>3, <1>7, <2>2 DEF ViewFollowsLink
<1> QED
  BY <1>6, <1>7 DEF ViewFollowsLink, IsAssoc

LEMMA ViewUndisturbed ==
    ASSUME ViewFollowsLink, UNCHANGED <<evq, view, link, using>>
    PROVE  ViewFollowsLink'
BY DEF ViewFollowsLink, view, Association, Connected, Disconnected, IsAssoc

\* esp_wifi_disconnect tells of what it does, or does nothing.
LEMMA ViewAfterDisconnect ==
    ASSUME TypeOK, ViewFollowsLink, esp_wifi_disconnect, UNCHANGED <<view, using>>
    PROVE  ViewFollowsLink'
<1>1. CASE UNCHANGED <<link, evq>>
  BY <1>1, ViewUndisturbed
<1>2. CASE link' = "idle" /\ evq' = Append(evq, Disconnected)
  <2>1. IsAssoc(Disconnected) /\ Disconnected = Association'
    BY <1>2 DEF IsAssoc, Disconnected, Association
  <2> QED
    BY <1>2, <2>1, ConstantsTyped, ViewAfterPost
<1> QED
  BY <1>1, <1>2 DEF esp_wifi_disconnect

LEMMA ViewStep == TypeOK /\ ViewFollowsLink /\ [Next]_vars => ViewFollowsLink'
<1> SUFFICES ASSUME TypeOK, ViewFollowsLink, [Next]_vars PROVE ViewFollowsLink'
  OBVIOUS
<1>1. CASE Associate
  <2>1. Connected(using.ssid) \in Event
    BY ConstantsTyped DEF TypeOK, Config
  <2>2. /\ evq' = Append(evq, Connected(using.ssid))
        /\ IsAssoc(Connected(using.ssid))
        /\ Connected(using.ssid) = Association'
    BY <1>1 DEF Associate, Association, IsAssoc, Connected
  <2> QED
    BY <2>1, <2>2, ViewAfterPost
<1>2. CASE AttemptFails \/ LinkLost
  <2>1. /\ evq' = Append(evq, Disconnected)
        /\ IsAssoc(Disconnected) /\ Disconnected = Association'
    BY <1>2 DEF AttemptFails, LinkLost, Association, IsAssoc, Disconnected
  <2> QED
    BY <2>1, ConstantsTyped, ViewAfterPost
<1>3. CASE PostGotIp
  <2>1. evq' = Append(evq, GotIp) /\ ~IsAssoc(GotIp)
    BY <1>3 DEF PostGotIp, IsAssoc, GotIp
  <2> QED
    BY <1>3, <2>1, ConstantsTyped, ViewAfterOtherPost DEF PostGotIp, driver
<1>4. CASE StaStart
  <2>1. evq # <<>> /\ ~IsAssoc(Head(evq)) /\ evq' = Tail(evq) /\ UNCHANGED view
    BY <1>4 DEF StaStart, Pending, IsAssoc
  <2>2. esp_wifi_connect
    BY <1>4 DEF StaStart
  <2> QED
    BY <2>1, <2>2, ConnectKeepsAssociation, ViewAfterOtherHandled
<1>5. CASE StaConnected
  <2>1. /\ evq # <<>> /\ IsAssoc(Head(evq)) /\ evq' = Tail(evq)
        /\ Head(evq).type = "STA_CONNECTED"
    BY <1>5 DEF StaConnected, Pending, IsAssoc
  <2>2. /\ gl_sta_connected' = TRUE
        /\ gl_sta_bssid' = Head(evq).ap /\ gl_sta_ssid' = Head(evq).ap
    BY <1>5 DEF StaConnected
  <2>3. Association' = Association /\ (link' = "up") = (link = "up")
    BY <1>5 DEF StaConnected, driver, Association, Connected, Disconnected
  <2> QED
    BY <2>1, <2>2, <2>3, ViewAfterHandled
<1>6. CASE StaDisconnected
  <2>1. /\ evq # <<>> /\ IsAssoc(Head(evq)) /\ evq' = Tail(evq)
        /\ Head(evq).type # "STA_CONNECTED"
    BY <1>6 DEF StaDisconnected, Pending, IsAssoc
  <2>2. /\ gl_sta_connected' = FALSE
        /\ gl_sta_bssid' = Zero /\ gl_sta_ssid' = Zero
    BY <1>6 DEF StaDisconnected, ForgetNames
  <2>3. Association' = Association /\ (link' = "up") = (link = "up")
    BY <1>6, ConnectKeepsAssociation DEF StaDisconnected
  <2> QED
    BY <2>1, <2>2, <2>3, ViewAfterHandled
<1>7. CASE StaGotIp
  <2>1. /\ evq # <<>> /\ ~IsAssoc(Head(evq)) /\ evq' = Tail(evq)
        /\ UNCHANGED <<view, link, using>>
    BY <1>7 DEF StaGotIp, Pending, IsAssoc, driver
  <2>2. Association' = Association /\ (link' = "up") = (link = "up")
    BY <2>1 DEF Association, Connected, Disconnected
  <2> QED
    BY <2>1, <2>2, ViewAfterOtherHandled
<1>8. CASE ReqConnect \/ ReqDisconnect
  BY <1>8, ViewAfterDisconnect DEF ReqConnect, ReqDisconnect
<1>9. CASE ReqConnectFinish
  <2>1. /\ Association' = Association /\ (link' = "up") = (link = "up")
        /\ UNCHANGED <<evq, view>>
    BY <1>9, ConnectKeepsAssociation DEF ReqConnectFinish
  <2> QED
    BY <2>1 DEF ViewFollowsLink, view, IsAssoc
<1>10. CASE Reboot
  <2>1. /\ evq' = <<Start>> /\ ~IsAssoc(Start) /\ link' = "idle"
        /\ gl_sta_connected' = FALSE /\ gl_sta_bssid' = Zero /\ gl_sta_ssid' = Zero
    BY <1>10 DEF Reboot, Restart, ForgetNames, IsAssoc, Start
  <2>2. Association'.ap = Zero
    BY <2>1 DEF Association, Disconnected
  <2>3. \A i \in DOMAIN evq' : evq'[i] = Start
    BY <2>1
  <2> QED
    BY <2>1, <2>2, <2>3 DEF ViewFollowsLink, IsAssoc
<1>11. CASE DhcpAck \/ AirChanges \/ BleConnect \/ BleDisconnect
            \/ GetWifiStatus \/ StatusCopyBssid \/ StatusSend
  <2>1. UNCHANGED <<evq, view, link, using>>
    BY <1>11 DEF DhcpAck, AirChanges, BleConnect, BleDisconnect, GetWifiStatus,
                 StatusCopyBssid, StatusSend, driver
  <2> QED
    BY <2>1, ViewUndisturbed
<1>12. CASE RecvStaBssid \/ RecvStaSsid \/ RecvStaPasswd
  <2>1. UNCHANGED <<evq, view, link, using>>
    BY <1>12 DEF RecvStaBssid, RecvStaSsid, RecvStaPasswd, Receive
  <2> QED
    BY <2>1, ViewUndisturbed
<1>13. CASE SetWifiOpmode
  <2>1. UNCHANGED <<view, using>>
    BY <1>13, OpmodeEffect
  <2>2. CASE UNCHANGED <<link, evq>>
    BY <2>1, <2>2, ViewUndisturbed
  <2>3. CASE link' = "idle" /\ evq' = Append(evq, Disconnected)
    <3>1. IsAssoc(Disconnected) /\ Disconnected = Association'
      BY <2>3 DEF IsAssoc, Disconnected, Association
    <3> QED
      BY <2>3, <3>1, ConstantsTyped, ViewAfterPost
  <2>4. CASE link' = link /\ evq' = Append(evq, Start)
    <3>1. ~IsAssoc(Start)
      BY DEF IsAssoc, Start
    <3> QED
      BY <2>1, <2>4, <3>1, ConstantsTyped, ViewAfterOtherPost
  <2> QED
    BY <1>13, <2>2, <2>3, <2>4, OpmodeEffect
<1>14. CASE UNCHANGED vars
  BY <1>14, ViewUndisturbed DEF vars, driver
<1> QED
  BY <1>1, <1>2, <1>3, <1>4, <1>5, <1>6, <1>7, <1>8, <1>9, <1>10, <1>11, <1>12, <1>13,
     <1>14, AbortReboots
  DEF Next, Driver, EventTask, BtcStart, BtcResume

\* gl_sta_connected, gl_sta_bssid and gl_sta_ssid follow the driver's association,
\* whatever the phone, the radio and the power do.
THEOREM ViewCorrect == Spec => []ViewFollowsLink
<1>1. Init => ViewFollowsLink
  <2> SUFFICES ASSUME Init PROVE ViewFollowsLink
    OBVIOUS
  <2>1. /\ evq = <<Start>> /\ ~IsAssoc(Start) /\ link = "idle"
        /\ gl_sta_connected = FALSE /\ gl_sta_bssid = Zero /\ gl_sta_ssid = Zero
    BY DEF Init, IsAssoc, Start
  <2>2. Association.ap = Zero
    BY <2>1 DEF Association, Disconnected
  <2>3. \A i \in DOMAIN evq : evq[i] = Start
    BY <2>1
  <2> QED
    BY <2>1, <2>2, <2>3 DEF ViewFollowsLink, IsAssoc
<1> QED
  BY <1>1, ViewStep, TypeCorrect, PTL DEF Spec

---------------------------------------------------------------------------
(* No lost reconnect, and the configuration of an attempt.                 *)

Retry(e) == e.type \in {"STA_START", "STA_DISCONNECTED"}

LEMMA RetryKept ==
    ASSUME TypeOK, NEW e \in Event, evq' = Append(evq, e),
           \E i \in DOMAIN evq : Retry(evq[i])
    PROVE  \E i \in DOMAIN evq' : Retry(evq'[i])
BY AppendFacts DEF TypeOK

LEMMA RetryPosted ==
    ASSUME TypeOK, evq' = Append(evq, Disconnected)
    PROVE  \E i \in DOMAIN evq' : Retry(evq'[i])
BY AppendFacts, ConstantsTyped DEF TypeOK, Retry, Disconnected

LEMMA RetryBehind ==
    ASSUME TypeOK, evq # <<>>, ~Retry(Head(evq)), evq' = Tail(evq),
           \E i \in DOMAIN evq : Retry(evq[i])
    PROVE  \E i \in DOMAIN evq' : Retry(evq'[i])
<1>1. PICK i \in DOMAIN evq : Retry(evq[i])
  OBVIOUS
<1>2. i # 1
  BY <1>1, TailFacts DEF TypeOK
<1>3. i - 1 \in DOMAIN evq' /\ evq'[i - 1] = evq[i]
  BY <1>2, TailFacts DEF TypeOK
<1> QED
  BY <1>1, <1>3

LEMMA NoLostReconnectStep ==
    TypeOK /\ NoLostReconnect /\ [Next]_vars => NoLostReconnect'
<1> SUFFICES ASSUME TypeOK, NoLostReconnect, [Next]_vars, sta_mode', link' = "idle"
             PROVE  \/ parked'
                    \/ btc' = "reconnect"
                    \/ \E i \in DOMAIN evq' : Retry(evq'[i])
  BY DEF NoLostReconnect, Retry
<1>0. (sta_mode /\ link = "idle") => \/ parked
                                      \/ btc = "reconnect"
                                      \/ \E i \in DOMAIN evq : Retry(evq[i])
  BY DEF NoLostReconnect, Retry
<1>1. CASE Associate
  BY <1>1 DEF Associate
<1>2. CASE AttemptFails \/ LinkLost
  BY <1>2, RetryPosted DEF AttemptFails, LinkLost
<1>3. CASE PostGotIp
  BY <1>0, <1>3, RetryKept, ConstantsTyped DEF PostGotIp, driver
<1>4. CASE StaStart \/ StaDisconnected \/ ReqConnectFinish
  BY <1>4 DEF StaStart, StaDisconnected, ReqConnectFinish, esp_wifi_connect
<1>5. CASE StaConnected \/ StaGotIp
  <2>1. evq # <<>> /\ ~Retry(Head(evq)) /\ evq' = Tail(evq) /\ UNCHANGED <<driver, btc>>
    BY <1>5 DEF StaConnected, StaGotIp, Pending, Retry
  <2> QED
    BY <1>0, <2>1, RetryBehind DEF driver
<1>6. CASE ReqConnect
  BY <1>6 DEF ReqConnect
<1>7. CASE ReqDisconnect
  BY <1>0, <1>7, RetryPosted DEF ReqDisconnect, esp_wifi_disconnect
<1>8. CASE DhcpAck \/ AirChanges \/ BleConnect \/ BleDisconnect
  BY <1>0, <1>8 DEF DhcpAck, AirChanges, BleConnect, BleDisconnect, driver
<1>9. CASE RecvStaBssid \/ RecvStaSsid \/ RecvStaPasswd
  BY <1>0, <1>9 DEF RecvStaBssid, RecvStaSsid, RecvStaPasswd, Receive
<1>10. CASE GetWifiStatus \/ StatusCopyBssid \/ StatusSend
  BY <1>0, <1>10
  DEF GetWifiStatus, StatusCopyBssid, StatusSend, PhoneCommand, Command, driver
<1>11. CASE Reboot
  BY <1>11 DEF Reboot, Restart, Retry, Start
<1>12. CASE SetWifiOpmode
  <2>1. CASE UNCHANGED <<link, evq>> /\ sta_mode
    BY <1>0, <1>12, <2>1, OpmodeEffect
  <2>2. CASE evq' = Append(evq, Start)
    BY <2>2, AppendFacts, ConstantsTyped DEF TypeOK, Retry, Start
  <2> QED
    BY <1>12, <2>1, <2>2, OpmodeEffect
<1>13. CASE UNCHANGED vars
  BY <1>0, <1>13 DEF vars, driver
<1> QED
  BY <1>1, <1>2, <1>3, <1>4, <1>5, <1>6, <1>7, <1>8, <1>9, <1>10, <1>11, <1>12, <1>13,
     AbortReboots
  DEF Next, Driver, EventTask, BtcStart, BtcResume

\* An idle station that the mode has always has something on its way that calls
\* esp_wifi_connect, whatever modes there were before.
THEOREM ReconnectNeverLost == Spec => []NoLostReconnect
<1>1. Init => NoLostReconnect
  BY DEF Init, NoLostReconnect, Start
<1> QED
  BY <1>1, NoLostReconnectStep, TypeCorrect, PTL DEF Spec

\* AttemptUsesRequestedConfig is not inductive: an attempt that the event task starts
\* between the two calls of REQ_CONNECT_TO_AP has to be with the new configuration too,
\* and what is in flash is what the phone sent because the RAM copy is, refused or not.
RequestedConfig ==
    (link # "idle" /\ (intent = "connect" \/ btc = "reconnect")) => using = flash

SentIsKept == sta_config = Meant /\ (taken => flash = Meant)

LEMMA RequestedConfigStep == RequestedConfig /\ [Next]_vars => RequestedConfig'
<1> SUFFICES ASSUME RequestedConfig, [Next]_vars PROVE RequestedConfig'
  OBVIOUS
<1>1. CASE Driver \/ AirChanges
  BY <1>1 DEF Driver, AirChanges, Associate, AttemptFails, LinkLost, DhcpAck,
              PostGotIp, driver, RequestedConfig
<1>2. CASE StaStart \/ StaDisconnected
  BY <1>2 DEF StaStart, StaDisconnected, esp_wifi_connect, RequestedConfig
<1>3. CASE StaConnected \/ StaGotIp
  BY <1>3 DEF StaConnected, StaGotIp, driver, RequestedConfig
<1>4. CASE BleConnect \/ BleDisconnect \/ GetWifiStatus
  BY <1>4 DEF BleConnect, BleDisconnect, GetWifiStatus, PhoneCommand, Command,
              driver, RequestedConfig
<1>5. CASE RecvStaBssid \/ RecvStaSsid \/ RecvStaPasswd
  <2>1. intent' = "none" /\ btc' # "reconnect"
    BY <1>5 DEF RecvStaBssid, RecvStaSsid, RecvStaPasswd, Receive, PhoneCommand, Command
  <2> QED
    BY <2>1 DEF RequestedConfig
<1>6. CASE ReqConnect
  BY <1>6 DEF ReqConnect, esp_wifi_disconnect, RequestedConfig
<1>7. CASE ReqDisconnect
  BY <1>7 DEF ReqDisconnect, PhoneCommand, Command, esp_wifi_disconnect,
              RequestedConfig
<1>8. CASE ReqConnectFinish
  BY <1>8 DEF ReqConnectFinish, esp_wifi_connect, RequestedConfig
<1>9. CASE StatusCopyBssid \/ StatusSend
  BY <1>9 DEF StatusCopyBssid, StatusSend, driver, RequestedConfig
<1>10. CASE SetWifiOpmode
  <2>1. UNCHANGED <<flash, using, intent, btc>> /\ (link' = "idle" \/ link' = link)
    BY <1>10, OpmodeEffect
  <2> QED
    BY <2>1 DEF RequestedConfig
<1>11. CASE Reboot
  BY <1>11 DEF Reboot, Restart, RequestedConfig
<1>12. CASE UNCHANGED vars
  BY <1>12 DEF vars, driver, RequestedConfig
<1> QED
  BY <1>1, <1>2, <1>3, <1>4, <1>5, <1>6, <1>7, <1>8, <1>9, <1>10, <1>11, <1>12,
     AbortReboots
  DEF Next, EventTask, BtcStart, BtcResume

\* One field more, in the RAM copy as well as in what the phone sent.
LEMMA ReceiveKeepsSent ==
    ASSUME TypeOK, NEW c \in Config, Receive(c), c = Meant'
    PROVE  SentIsKept'
BY DEF Receive, esp_wifi_set_config, SentIsKept, TypeOK

LEMMA SentIsKeptStep == TypeOK /\ SentIsKept /\ [Next]_vars => SentIsKept'
<1> SUFFICES ASSUME TypeOK, SentIsKept, [Next]_vars PROVE SentIsKept'
  OBVIOUS
<1>0. /\ sent \in Config /\ sta_config \in Config /\ cut \in BOOLEAN
      /\ sta_config = Meant
  BY DEF TypeOK, SentIsKept
<1>1. ASSUME UNCHANGED <<phone, flash>> PROVE SentIsKept'
  BY <1>1 DEF SentIsKept, Meant, phone
<1>2. CASE RecvStaBssid
  <2>1. PICK ap \in AP : /\ Receive([sta_config EXCEPT !.bssid = ap])
                         /\ sent' = [sent EXCEPT !.bssid = ap]
                         /\ cut' = cut
    BY <1>2 DEF RecvStaBssid
  <2>2. [sta_config EXCEPT !.bssid = ap] \in Config
    BY <1>0 DEF Config, Name
  <2>3. [sta_config EXCEPT !.bssid = ap] = Meant'
    BY <1>0, <2>1 DEF Meant, Config
  <2> QED
    BY <2>1, <2>2, <2>3, ReceiveKeepsSent
<1>3. CASE RecvStaSsid
  <2>1. PICK ap \in AP :
          /\ Receive([sta_config EXCEPT
                        !.ssid = ap,
                        !.passwd = IF ap \in FullSsid THEN NoPasswd ELSE @])
          /\ sent' = [sent EXCEPT !.ssid = ap]
          /\ cut' = (cut \/ ap \in FullSsid)
    BY <1>3 DEF RecvStaSsid
  <2> DEFINE c == [sta_config EXCEPT
                     !.ssid = ap, !.passwd = IF ap \in FullSsid THEN NoPasswd ELSE @]
  <2>2. c \in Config
    BY <1>0 DEF Config, Name
  <2>3. c = Meant'
    <3>1. CASE ap \in FullSsid
      BY <1>0, <2>1, <3>1 DEF Meant, Config
    <3>2. CASE ap \notin FullSsid
      BY <1>0, <2>1, <3>2 DEF Meant, Config
    <3> QED
      BY <3>1, <3>2
  <2> QED
    BY <2>1, <2>2, <2>3, ReceiveKeepsSent
<1>4. CASE RecvStaPasswd
  <2>1. PICK p \in Passwd \ {NoPasswd} :
          /\ Receive([sta_config EXCEPT !.passwd = p])
          /\ sent' = [sent EXCEPT !.passwd = p]
          /\ cut' = FALSE
    BY <1>4 DEF RecvStaPasswd
  <2>2. [sta_config EXCEPT !.passwd = p] \in Config
    BY <1>0 DEF Config, Name
  <2>3. [sta_config EXCEPT !.passwd = p] = Meant'
    BY <1>0, <2>1 DEF Meant, Config
  <2> QED
    BY <2>1, <2>2, <2>3, ReceiveKeepsSent
<1>5. CASE Reboot
  BY <1>5 DEF Reboot, Restart, SentIsKept, Meant, NoConfig
<1>6. CASE \/ Associate \/ AttemptFails \/ LinkLost \/ DhcpAck \/ PostGotIp \/ AirChanges
           \/ StaStart \/ StaConnected \/ StaDisconnected \/ StaGotIp
  BY <1>1, <1>6
  DEF Associate, AttemptFails, LinkLost, DhcpAck, PostGotIp, AirChanges,
      StaStart, StaConnected, StaDisconnected, StaGotIp, driver
<1>7. CASE \/ BleConnect \/ BleDisconnect \/ ReqConnect \/ ReqConnectFinish
           \/ ReqDisconnect \/ GetWifiStatus \/ StatusCopyBssid \/ StatusSend
  BY <1>1, <1>7
  DEF BleConnect, BleDisconnect, ReqConnect, ReqConnectFinish, ReqDisconnect,
      GetWifiStatus, StatusCopyBssid, StatusSend, driver
<1>8. CASE SetWifiOpmode
  BY <1>1, <1>8, OpmodeEffect
<1>9. CASE UNCHANGED vars
  BY <1>1, <1>9 DEF vars, driver
<1> QED
  BY <1>2, <1>3, <1>4, <1>5, <1>6, <1>7, <1>8, <1>9, AbortReboots
  DEF Next, Driver, EventTask, BtcStart, BtcResume

\* After REQ_CONNECT_TO_AP the driver works with what the phone sent, whatever fields
\* came in whatever order, and whichever of them but the last one it refused; only a
\* password that a 32-character SSID followed is missing.
THEOREM RequestedConfigUsed == Spec => []AttemptUsesRequestedConfig
<1>1. Init => RequestedConfig /\ SentIsKept
  BY DEF Init, RequestedConfig, SentIsKept, Meant, NoConfig
<1>2. RequestedConfig /\ SentIsKept => AttemptUsesRequestedConfig
  BY DEF RequestedConfig, SentIsKept, AttemptUsesRequestedConfig
<1> QED
  BY <1>1, <1>2, RequestedConfigStep, SentIsKeptStep, TypeCorrect, PTL DEF Spec
---------------------------------------------------------------------------
(* The globals implement LinkView.                                         *)

Says == {Told(e) : e \in Event}

LEMMA MadeSeq ==
    ASSUME NEW S, NEW n \in Nat, NEW s \in [1..n -> S]
    PROVE  s \in Seq(S) /\ Len(s) = n
<1>1. s \in Seq(S)
  BY SeqDef
<1> QED
  BY <1>1, LenProperties

NewsOf(q) == [i \in DOMAIN q |-> Told(q[i])]

LEMMA NewsOfTyped ==
    ASSUME NEW q \in Seq(Event)
    PROVE  /\ NewsOf(q) \in Seq(Says) /\ Len(NewsOf(q)) = Len(q) /\ Len(q) \in Nat
           /\ \A i \in 1..Len(q) : q[i] \in Event /\ NewsOf(q)[i] = Told(q[i])
<1>1. Len(q) \in Nat /\ DOMAIN q = 1..Len(q)
  OBVIOUS
<1>2. \A i \in 1..Len(q) : q[i] \in Event
  BY ElementOfSeq
<1>3. NewsOf(q) \in [1..Len(q) -> Says]
  BY <1>1, <1>2 DEF NewsOf, Says
<1> QED
  BY <1>1, <1>2, <1>3, MadeSeq DEF NewsOf

LEMMA NewsTyped ==
    ASSUME TypeOK
    PROVE  /\ News \in Seq(Says) /\ Len(News) = Len(evq) /\ Len(evq) \in Nat
           /\ \A i \in 1..Len(evq) : evq[i] \in Event /\ News[i] = Told(evq[i])
BY NewsOfTyped DEF NewsOf, News, TypeOK

LEMMA NewsTypedNext ==
    ASSUME TypeOK'
    PROVE  /\ News' \in Seq(Says) /\ Len(News') = Len(evq')
           /\ \A i \in 1..Len(evq') : News'[i] = Told(evq'[i])
BY NewsOfTyped DEF NewsOf, News, TypeOK

\* What is posted on the event queue is appended to the news ...
LEMMA NewsPosted ==
    ASSUME TypeOK, TypeOK', NEW e \in Event, evq' = Append(evq, e)
    PROVE  News' = Append(News, Told(e))
<1>1. /\ News' \in Seq(Says) /\ Len(News') = Len(evq')
      /\ \A i \in 1..Len(evq') : News'[i] = Told(evq'[i])
  BY NewsTypedNext
<1>2. Len(evq') = Len(evq) + 1 /\ evq'[Len(evq) + 1] = e
      /\ \A i \in 1..Len(evq) : evq'[i] = evq[i]
  BY DEF TypeOK
<1>3. Told(e) \in Says
  BY DEF Says
<1>4. /\ Append(News, Told(e)) \in Seq(Says)
      /\ Len(Append(News, Told(e))) = Len(News) + 1
      /\ \A i \in 1..Len(News) : Append(News, Told(e))[i] = News[i]
      /\ Append(News, Told(e))[Len(News) + 1] = Told(e)
  BY <1>3, NewsTyped
<1>5. \A i \in 1..Len(evq') : i = Len(evq) + 1 \/ i \in 1..Len(evq)
  BY <1>2, NewsTyped
<1>6. \A i \in 1..Len(News') : News'[i] = Append(News, Told(e))[i]
  BY <1>1, <1>2, <1>4, <1>5, NewsTyped
<1> QED
  BY <1>1, <1>2, <1>4, <1>6, NewsTyped, SeqEqual

\* ... and what is taken off it is what the observer hears.
LEMMA NewsTaken ==
    ASSUME TypeOK, TypeOK', evq # <<>>, evq' = Tail(evq)
    PROVE  News # <<>> /\ Head(News) = Told(Head(evq)) /\ News' = Tail(News)
<1>1. /\ News' \in Seq(Says) /\ Len(News') = Len(evq')
      /\ \A i \in 1..Len(evq') : News'[i] = Told(evq'[i])
  BY NewsTypedNext
<1>2. /\ Len(evq) \in Nat \ {0} /\ Len(evq') = Len(evq) - 1
      /\ Head(evq) = evq[1]
      /\ \A i \in 1..Len(evq') : i + 1 \in 1..Len(evq) /\ evq'[i] = evq[i + 1]
  BY HeadTailProperties, TailFacts DEF TypeOK
<1>3. News # <<>> /\ Head(News) = News[1]
  BY <1>2, NewsTyped
<1>4. /\ Tail(News) \in Seq(Says) /\ Len(Tail(News)) = Len(News) - 1
      /\ \A i \in 1..Len(Tail(News)) : Tail(News)[i] = News[i + 1]
  BY <1>3, NewsTyped, HeadTailProperties
<1>5. \A i \in 1..Len(News') : News'[i] = Tail(News)[i]
  BY <1>1, <1>2, <1>4, NewsTyped
<1>6. News' = Tail(News)
  BY <1>1, <1>2, <1>4, <1>5, NewsTyped, SeqEqual
<1> QED
  BY <1>2, <1>3, <1>6, NewsTyped
LEMMA ToldFacts ==
    /\ \A n \in Name : Told(Connected(n)) = Seen("up", n, n)
    /\ Told(Disconnected) = NotUp
    /\ Told(Start) = Seen("other", Zero, Zero) /\ Told(GotIp) = Seen("other", Zero, Zero)
    /\ \A a, b \in Name : Seen("up", a, b) # Seen("other", Zero, Zero)
    /\ NotUp # Seen("other", Zero, Zero)
BY DEF Told, Connected, Disconnected, Start, GotIp, Seen, NotUp

LEMMA NowFacts ==
    /\ link = "up" => Now = Seen("up", using.ssid, using.ssid)
    /\ link # "up" => Now = NotUp
    /\ link' = "up" => Now' = Seen("up", using'.ssid, using'.ssid)
    /\ link' # "up" => Now' = NotUp
BY DEF Now, Association, Told, Connected, Disconnected, NotUp, Seen

LEMMA ViewStutters ==
    ASSUME UNCHANGED <<evq, view>>, Now' = Now
    PROVE  UNCHANGED <<Now, News, Known>>
BY DEF view, News, Known

\* The event task hears of an association, or of something else.
LEMMA ViewHears ==
    ASSUME TypeOK, TypeOK', evq # <<>>, evq' = Tail(evq), Now' = Now,
           Known' = IF Told(Head(evq)) = Seen("other", Zero, Zero) THEN Known
                    ELSE Told(Head(evq))
    PROVE  View!Hear
BY NewsTaken DEF View!Hear

\* The driver leaves, or fails to join.
LEMMA ViewLeaves ==
    ASSUME TypeOK, TypeOK', link' # "up", evq' = Append(evq, Disconnected), UNCHANGED view
    PROVE  View!Next
<1>1. News' = Append(News, NotUp)
  BY NewsPosted, ConstantsTyped, ToldFacts
<1>2. Now' = NotUp
  BY NowFacts
<1>3. View!Change(NotUp)
  BY <1>1, <1>2 DEF View!Change, Known, view
<1> QED
  BY <1>3 DEF View!Next
LEMMA ViewUnmoved ==
    ASSUME UNCHANGED <<evq, view>>,
           (link' = link /\ using' = using) \/ (link # "up" /\ link' # "up")
    PROVE  UNCHANGED <<Now, News, Known>>
<1>1. Now' = Now
  BY NowFacts
<1> QED
  BY <1>1, ViewStutters

LEMMA ConnectUnmoved == esp_wifi_connect => Now' = Now
BY NowFacts DEF esp_wifi_connect

\* Every step of the three tasks, the driver and the phone is a step of LinkView, or
\* none.
LEMMA ImplementsStep ==
    TypeOK /\ TypeOK' /\ [Next]_vars => [View!Next]_<<Now, News, Known>>
<1> SUFFICES ASSUME TypeOK, TypeOK', [Next]_vars
             PROVE  View!Next \/ UNCHANGED <<Now, News, Known>>
  OBVIOUS
<1>1. CASE Associate
  <2>1. /\ using.ssid \in AP /\ using.ssid \in Name
        /\ link' = "up" /\ using' = using
        /\ evq' = Append(evq, Connected(using.ssid)) /\ UNCHANGED view
    BY <1>1 DEF Associate, Accepts, TypeOK, Name
  <2>2. Now' = Seen("up", using.ssid, using.ssid)
    BY <2>1, NowFacts
  <2>3. News' = Append(News, Seen("up", using.ssid, using.ssid))
    BY <2>1, NewsPosted, ConstantsTyped, ToldFacts
  <2>4. View!Change(Seen("up", using.ssid, using.ssid))
    BY <2>1, <2>2, <2>3 DEF View!Change, Known, view
  <2> QED
    BY <2>1, <2>4 DEF View!Next
<1>2. CASE AttemptFails \/ LinkLost
  BY <1>2, ViewLeaves DEF AttemptFails, LinkLost
<1>3. CASE DhcpAck \/ AirChanges \/ BleConnect \/ BleDisconnect \/ GetWifiStatus
             \/ StatusCopyBssid \/ StatusSend
  BY <1>3, ViewUnmoved
  DEF DhcpAck, AirChanges, BleConnect, BleDisconnect, GetWifiStatus, StatusCopyBssid,
      StatusSend, driver
<1>4. CASE PostGotIp
  <2>1. evq' = Append(evq, GotIp) /\ UNCHANGED <<view, link, using>>
    BY <1>4 DEF PostGotIp, driver
  <2>2. News' = Append(News, Seen("other", Zero, Zero))
    BY <2>1, NewsPosted, ConstantsTyped, ToldFacts
  <2>3. Now' = Now /\ Known' = Known
    BY <2>1, NowFacts DEF Known, view
  <2> QED
    BY <2>2, <2>3 DEF View!Next, View!Mention
<1>5. CASE StaStart
  <2>1. evq # <<>> /\ evq' = Tail(evq) /\ Now' = Now /\ Known' = Known
    BY <1>5, ConnectUnmoved DEF StaStart, Pending, Known, view
  <2>2. Told(Head(evq)) = Seen("other", Zero, Zero)
    BY <1>5 DEF StaStart, Pending, Told
  <2> QED
    BY <2>1, <2>2, ViewHears DEF View!Next
<1>6. CASE StaConnected
  <2>1. evq # <<>> /\ evq' = Tail(evq) /\ Now' = Now
    BY <1>6, NowFacts DEF StaConnected, Pending, driver
  <2>2. Told(Head(evq)) = Seen("up", Head(evq).ap, Head(evq).ap)
    BY <1>6 DEF StaConnected, Pending, Told
  <2>3. Known' = Seen("up", Head(evq).ap, Head(evq).ap)
    BY <1>6 DEF StaConnected, Known
  <2>4. Head(evq).ap \in Name
    BY <2>1, QueueTyped DEF Event
  <2> QED
    BY <2>1, <2>2, <2>3, <2>4, ToldFacts, ViewHears DEF View!Next
<1>7. CASE StaDisconnected
  <2>1. evq # <<>> /\ evq' = Tail(evq) /\ Now' = Now
    BY <1>7, ConnectUnmoved DEF StaDisconnected, Pending
  <2>2. Told(Head(evq)) = NotUp
    BY <1>7 DEF StaDisconnected, Pending, Told
  <2>3. Known' = NotUp
    BY <1>7 DEF StaDisconnected, ForgetNames, Known, NotUp
  <2> QED
    BY <2>1, <2>2, <2>3, ToldFacts, ViewHears DEF View!Next
<1>8. CASE StaGotIp
  <2>1. evq # <<>> /\ evq' = Tail(evq) /\ Now' = Now /\ Known' = Known
    BY <1>8, NowFacts DEF StaGotIp, Pending, Known, view, driver
  <2>2. Told(Head(evq)) = Seen("other", Zero, Zero)
    BY <1>8 DEF StaGotIp, Pending, Told
  <2> QED
    BY <2>1, <2>2, ViewHears DEF View!Next
<1>9. CASE RecvStaBssid \/ RecvStaSsid \/ RecvStaPasswd
  <2>1. UNCHANGED <<evq, view, link, using>>
    BY <1>9 DEF RecvStaBssid, RecvStaSsid, RecvStaPasswd, Receive
  <2> QED
    BY <2>1, ViewUnmoved
<1>10. CASE ReqConnect \/ ReqDisconnect
  <2>1. esp_wifi_disconnect /\ UNCHANGED <<view, using>>
    BY <1>10 DEF ReqConnect, ReqDisconnect
  <2>2. CASE UNCHANGED <<link, evq>>
    BY <2>1, <2>2, ViewUnmoved
  <2>3. CASE link' = "idle" /\ evq' = Append(evq, Disconnected)
    BY <2>1, <2>3, ViewLeaves
  <2> QED
    BY <2>1, <2>2, <2>3 DEF esp_wifi_disconnect
<1>11. CASE ReqConnectFinish
  <2>1. Now' = Now /\ UNCHANGED <<evq, view>>
    BY <1>11, ConnectUnmoved DEF ReqConnectFinish
  <2> QED
    BY <2>1, ViewStutters
<1>12. CASE Reboot
  <2>1. Now' = NotUp
    BY <1>12, NowFacts DEF Reboot, Restart
  <2>2. Known' = NotUp
    BY <1>12 DEF Reboot, Restart, ForgetNames, Known, NotUp
  <2>3. News' \in Seq({Seen("other", Zero, Zero)})
    BY <1>12, ToldFacts DEF Reboot, Restart, News
  <2> QED
    BY <2>1, <2>2, <2>3 DEF View!Next, View!Restart
<1>13. CASE SetWifiOpmode
  <2>1. UNCHANGED <<view, using>>
    BY <1>13, OpmodeEffect
  <2>2. CASE UNCHANGED <<link, evq>>
    BY <2>1, <2>2, ViewUnmoved
  <2>3. CASE link' = "idle" /\ evq' = Append(evq, Disconnected)
    BY <2>1, <2>3, ViewLeaves
  <2>4. CASE link' = link /\ evq' = Append(evq, Start)
    <3>1. News' = Append(News, Seen("other", Zero, Zero))
      BY <2>4, NewsPosted, ConstantsTyped, ToldFacts
    <3>2. Now' = Now /\ Known' = Known
      BY <2>1, <2>4, NowFacts DEF Known, view
    <3> QED
      BY <3>1, <3>2 DEF View!Next, View!Mention
  <2> QED
    BY <1>13, <2>2, <2>3, <2>4, OpmodeEffect
<1>14. CASE UNCHANGED vars
  BY <1>14, ViewUnmoved DEF vars, driver
<1> QED
  BY <1>1, <1>2, <1>3, <1>4, <1>5, <1>6, <1>7, <1>8, <1>9, <1>10, <1>11, <1>12, <1>13,
     <1>14, AbortReboots
  DEF Next, Driver, EventTask, BtcStart, BtcResume

\* What GET_WIFI_STATUS and the reports are made from follows the association as
\* LinkView says, for every set of access points and any number of commands.
THEOREM GlobalsImplementView == Spec => ImplementsView
<1>1. Init => View!Start
  <2> SUFFICES ASSUME Init PROVE View!Start
    OBVIOUS
  <2>1. Now = NotUp /\ Known = NotUp
    BY NowFacts DEF Init, Known, NotUp
  <2>2. News \in Seq({Seen("other", Zero, Zero)})
    BY ToldFacts DEF Init, News
  <2> QED
    BY <2>1, <2>2 DEF View!Start
<1>2. TypeOK /\ TypeOK' /\ [Next]_vars => [View!Next]_<<Now, News, Known>>
  BY ImplementsStep
<1> QED
  BY <1>1, <1>2, TypeCorrect, PTL DEF Spec, ImplementsView, View!Spec, View!vars
---------------------------------------------------------------------------
(* The address is told of.  The property speaks of an association that the *)
(* handlers have caught up with; the invariant has to say besides what     *)
(* holds while they have not: DHCP runs as long as the globals say         *)
(* "connected", and an association that was left is told of by an event    *)
(* behind that of its beginning, so that a phone that asks for the         *)
(* connection again waits for a new address.                               *)

Has(q, type) == \E i \in DOMAIN q : q[i].type = type

\* Every association that is told of has its end told of behind it.
Ends(q) == \A i \in DOMAIN q : q[i].type = "STA_CONNECTED" =>
              \E j \in DOMAIN q : j > i /\ q[j].type = "STA_DISCONNECTED"

DhcpFollows == dhcp # "off" <=> gl_sta_connected

LeftIsTold ==
    link # "up" => /\ gl_sta_connected => Has(evq, "STA_DISCONNECTED")
                   /\ Ends(evq)

BitFollows == dhcp = "bound" => connected_bit \/ Has(evq, "GOT_IP")

AskerIsTold ==
    (btc = "reconnect" \/ intent = "connect") =>
       /\ ble_is_connected
       /\ dhcp = "bound" => \/ report.kind = "success"
                            \/ Has(evq, "GOT_IP") \/ Has(evq, "STA_DISCONNECTED")

LEMMA HasAppended ==
    ASSUME NEW q \in Seq(Event), NEW e \in Event, NEW type
    PROVE  Has(Append(q, e), type) <=> Has(q, type) \/ e.type = type
<1>1. /\ DOMAIN Append(q, e) = 1..(Len(q) + 1) /\ DOMAIN q = 1..Len(q) /\ Len(q) \in Nat
      /\ \A i \in DOMAIN q : Append(q, e)[i] = q[i]
      /\ Append(q, e)[Len(q) + 1] = e
  BY AppendFacts
<1>2. \A i \in DOMAIN Append(q, e) : i \in DOMAIN q \/ i = Len(q) + 1
  BY <1>1
<1>3. DOMAIN q \subseteq DOMAIN Append(q, e) /\ Len(q) + 1 \in DOMAIN Append(q, e)
  BY <1>1
<1> QED
  BY <1>1, <1>2, <1>3 DEF Has

LEMMA HasBehind ==
    ASSUME NEW q \in Seq(Event), q # <<>>, NEW type, Has(q, type), Head(q).type # type
    PROVE  Has(Tail(q), type)
<1>1. PICK i \in DOMAIN q : q[i].type = type
  BY DEF Has
<1>2. i # 1
  BY <1>1, TailFacts
<1>3. i - 1 \in DOMAIN Tail(q) /\ Tail(q)[i - 1] = q[i]
  BY <1>2, TailFacts
<1> QED
  BY <1>1, <1>3 DEF Has

LEMMA EndsAppended ==
    ASSUME NEW q \in Seq(Event), NEW e \in Event,
           e.type = "STA_DISCONNECTED" \/ (Ends(q) /\ e.type # "STA_CONNECTED")
    PROVE  Ends(Append(q, e))
<1>1. /\ DOMAIN Append(q, e) = 1..(Len(q) + 1) /\ DOMAIN q = 1..Len(q) /\ Len(q) \in Nat
      /\ \A i \in DOMAIN q : Append(q, e)[i] = q[i]
      /\ Append(q, e)[Len(q) + 1] = e
  BY AppendFacts
<1> SUFFICES ASSUME NEW i \in DOMAIN Append(q, e), Append(q, e)[i].type = "STA_CONNECTED"
             PROVE  \E j \in DOMAIN Append(q, e) :
                       j > i /\ Append(q, e)[j].type = "STA_DISCONNECTED"
  BY DEF Ends
<1>2. i \in DOMAIN q
  BY <1>1
<1>3. CASE e.type = "STA_DISCONNECTED"
  BY <1>1, <1>2, <1>3
<1>4. CASE Ends(q)
  <2>1. PICK j \in DOMAIN q : j > i /\ q[j].type = "STA_DISCONNECTED"
    BY <1>1, <1>2, <1>4 DEF Ends
  <2> QED
    BY <1>1, <2>1
<1> QED
  BY <1>3, <1>4

LEMMA EndsBehind ==
    ASSUME NEW q \in Seq(Event), q # <<>>, Ends(q)
    PROVE  /\ Ends(Tail(q))
           /\ Head(q).type = "STA_CONNECTED" => Has(Tail(q), "STA_DISCONNECTED")
<1>1. /\ DOMAIN q = 1..Len(q) /\ Len(q) \in Nat \ {0}
      /\ DOMAIN Tail(q) = 1..(Len(q) - 1)
      /\ \A i \in DOMAIN Tail(q) : Tail(q)[i] = q[i + 1]
      /\ Head(q) = q[1]
  BY TailFacts
\* What ends behind i in q does so behind i - 1 in its tail.
<1>2. ASSUME NEW i \in DOMAIN q, q[i].type = "STA_CONNECTED"
      PROVE  \E j \in DOMAIN Tail(q) : j > i - 1 /\ Tail(q)[j].type = "STA_DISCONNECTED"
  <2>1. PICK k \in DOMAIN q : k > i /\ q[k].type = "STA_DISCONNECTED"
    BY <1>2 DEF Ends
  <2>2. k - 1 \in DOMAIN Tail(q) /\ k - 1 > i - 1 /\ Tail(q)[k - 1] = q[k]
    BY <1>1, <2>1
  <2> QED
    BY <2>1, <2>2
<1>3. Ends(Tail(q))
  <2> SUFFICES ASSUME NEW i \in DOMAIN Tail(q), Tail(q)[i].type = "STA_CONNECTED"
               PROVE  \E j \in DOMAIN Tail(q) :
                         j > i /\ Tail(q)[j].type = "STA_DISCONNECTED"
    BY DEF Ends
  <2>1. i + 1 \in DOMAIN q /\ q[i + 1].type = "STA_CONNECTED" /\ (i + 1) - 1 = i
    BY <1>1
  <2> QED
    BY <1>2, <2>1
<1>4. Head(q).type = "STA_CONNECTED" => Has(Tail(q), "STA_DISCONNECTED")
  <2>1. 1 \in DOMAIN q
    BY <1>1
  <2> QED
    BY <1>1, <1>2, <2>1 DEF Has
<1> QED
  BY <1>3, <1>4

\* The phone's commands that leave driver, DHCP and queue alone, and the radio.
Aside == \/ AirChanges \/ BleConnect \/ BleDisconnect
         \/ RecvStaBssid \/ RecvStaSsid \/ RecvStaPasswd
         \/ GetWifiStatus \/ StatusCopyBssid \/ StatusSend

LEMMA AsideStep ==
    ASSUME Aside
    PROVE  UNCHANGED <<link, using, parked, dhcp, evq, gl_sta_connected, connected_bit>>
BY DEF Aside, AirChanges, BleConnect, BleDisconnect, RecvStaBssid, RecvStaSsid,
       RecvStaPasswd, Receive, GetWifiStatus, StatusCopyBssid, StatusSend, driver, view

LEMMA NextSplit ==
    Next => \/ Associate \/ AttemptFails \/ LinkLost \/ DhcpAck \/ PostGotIp
            \/ StaStart \/ StaConnected \/ StaDisconnected \/ StaGotIp
            \/ ReqConnect \/ ReqDisconnect \/ ReqConnectFinish \/ Aside
            \/ SetWifiOpmode \/ Reboot
BY AbortReboots DEF Next, Driver, EventTask, BtcStart, BtcResume, Aside

LEMMA DhcpFollowsStep == TypeOK /\ DhcpFollows /\ [Next]_vars => DhcpFollows'
<1> SUFFICES ASSUME TypeOK, DhcpFollows, [Next]_vars PROVE DhcpFollows'
  OBVIOUS
<1>1. CASE UNCHANGED <<dhcp, gl_sta_connected>>
  BY <1>1 DEF DhcpFollows
<1>2. CASE Associate \/ AttemptFails \/ LinkLost \/ StaStart \/ StaGotIp
             \/ ReqConnect \/ ReqDisconnect \/ ReqConnectFinish
  BY <1>1, <1>2 DEF Associate, AttemptFails, LinkLost, StaStart, StaGotIp, ReqConnect,
                    ReqDisconnect, ReqConnectFinish, view
<1>3. CASE DhcpAck \/ PostGotIp
  BY <1>3 DEF DhcpAck, PostGotIp, view, DhcpFollows
<1>4. CASE StaConnected
  BY <1>4 DEF StaConnected, DhcpFollows
<1>5. CASE StaDisconnected \/ Reboot
  BY <1>5 DEF StaDisconnected, Reboot, Restart, DhcpFollows
<1>6. CASE Aside
  BY <1>1, <1>6, AsideStep
<1>7. CASE SetWifiOpmode
  BY <1>1, <1>7, OpmodeEffect DEF view
<1>8. CASE UNCHANGED vars
  BY <1>1, <1>8 DEF vars, view
<1> QED
  BY <1>2, <1>3, <1>4, <1>5, <1>6, <1>7, <1>8, NextSplit

\* What a disconnection leaves behind, if there was something to leave.
LEMMA LeftAfterPost ==
    ASSUME TypeOK, evq' = Append(evq, Disconnected)
    PROVE  LeftIsTold' /\ Has(evq', "STA_DISCONNECTED")
<1>1. evq \in Seq(Event) /\ Disconnected \in Event
      /\ Disconnected.type = "STA_DISCONNECTED"
  BY ConstantsTyped DEF TypeOK, Disconnected
<1>2. Has(evq', "STA_DISCONNECTED")
  BY <1>1, HasAppended
<1>3. Ends(evq')
  BY <1>1, EndsAppended
<1> QED
  BY <1>2, <1>3 DEF LeftIsTold

LEMMA LeftIsToldStep == TypeOK /\ LeftIsTold /\ [Next]_vars => LeftIsTold'
<1> SUFFICES ASSUME TypeOK, LeftIsTold, [Next]_vars PROVE LeftIsTold'
  OBVIOUS
<1>1. evq \in Seq(Event)
  BY DEF TypeOK
<1>2. ASSUME link' = "up" <=> link = "up", UNCHANGED <<evq, gl_sta_connected>>
      PROVE  LeftIsTold'
  BY <1>2 DEF LeftIsTold
<1>3. CASE Associate
  BY <1>3 DEF Associate, LeftIsTold
<1>4. CASE AttemptFails \/ LinkLost
  BY <1>4, LeftAfterPost DEF AttemptFails, LinkLost
<1>5. CASE DhcpAck
  BY <1>2, <1>5 DEF DhcpAck, driver, view
<1>6. CASE PostGotIp
  <2>1. /\ evq' = Append(evq, GotIp) /\ GotIp \in Event /\ GotIp.type = "GOT_IP"
        /\ UNCHANGED <<link, gl_sta_connected>>
    BY <1>6, ConstantsTyped DEF PostGotIp, GotIp, driver, view
  <2>2. /\ Has(evq, "STA_DISCONNECTED") => Has(evq', "STA_DISCONNECTED")
        /\ Ends(evq) => Ends(evq')
    BY <1>1, <2>1, HasAppended, EndsAppended
  <2> QED
    BY <2>1, <2>2 DEF LeftIsTold
<1>7. CASE StaStart \/ StaGotIp
  <2>1. /\ evq # <<>> /\ evq' = Tail(evq) /\ Head(evq).type # "STA_DISCONNECTED"
        /\ gl_sta_connected' = gl_sta_connected
    BY <1>7 DEF StaStart, StaGotIp, Pending, view
  <2>2. link' = "up" <=> link = "up"
    BY <1>7 DEF StaStart, StaGotIp, esp_wifi_connect, driver
  <2>3. /\ Has(evq, "STA_DISCONNECTED") => Has(evq', "STA_DISCONNECTED")
        /\ Ends(evq) => Ends(evq')
    BY <1>1, <2>1, HasBehind, EndsBehind
  <2> QED
    BY <2>1, <2>2, <2>3 DEF LeftIsTold
<1>8. CASE StaConnected
  <2>1. /\ evq # <<>> /\ evq' = Tail(evq) /\ Head(evq).type = "STA_CONNECTED"
        /\ link' = link
    BY <1>8 DEF StaConnected, Pending, driver
  <2>2. Ends(evq) => Ends(evq') /\ Has(evq', "STA_DISCONNECTED")
    BY <1>1, <2>1, EndsBehind
  <2> QED
    BY <2>1, <2>2 DEF LeftIsTold
<1>9. CASE StaDisconnected
  <2>1. evq # <<>> /\ evq' = Tail(evq) /\ ~gl_sta_connected'
    BY <1>9 DEF StaDisconnected, Pending
  <2>2. link' = "up" <=> link = "up"
    BY <1>9 DEF StaDisconnected, esp_wifi_connect
  <2>3. Ends(evq) => Ends(evq')
    BY <1>1, <2>1, EndsBehind
  <2> QED
    BY <2>1, <2>2, <2>3 DEF LeftIsTold
<1>10. CASE ReqConnect \/ ReqDisconnect
  <2>1. esp_wifi_disconnect /\ gl_sta_connected' = gl_sta_connected
    BY <1>10 DEF ReqConnect, ReqDisconnect, view
  <2> QED
    BY <1>2, <2>1, LeftAfterPost DEF esp_wifi_disconnect
<1>11. CASE ReqConnectFinish
  BY <1>2, <1>11 DEF ReqConnectFinish, esp_wifi_connect, view
<1>12. CASE Aside
  BY <1>2, <1>12, AsideStep
<1>13. CASE Reboot
  <2>1. evq' = <<Start>> /\ ~gl_sta_connected' /\ Start.type = "STA_START"
    BY <1>13 DEF Reboot, Restart, Start
  <2>2. Ends(evq')
    BY <2>1 DEF Ends
  <2> QED
    BY <2>1, <2>2 DEF LeftIsTold
<1>14. CASE SetWifiOpmode
  <2>1. gl_sta_connected' = gl_sta_connected
    BY <1>14, OpmodeEffect DEF view
  <2>2. CASE UNCHANGED <<link, evq>>
    BY <1>2, <2>1, <2>2
  <2>3. CASE evq' = Append(evq, Disconnected)
    BY <2>3, LeftAfterPost
  <2>4. CASE link' = link /\ evq' = Append(evq, Start)
    <3>1. Start \in Event /\ Start.type = "STA_START"
      BY ConstantsTyped DEF Start
    <3>2. /\ Has(evq, "STA_DISCONNECTED") => Has(evq', "STA_DISCONNECTED")
          /\ Ends(evq) => Ends(evq')
      BY <1>1, <2>4, <3>1, HasAppended, EndsAppended
    <3> QED
      BY <2>1, <2>4, <3>2 DEF LeftIsTold
  <2> QED
    BY <1>14, <2>2, <2>3, <2>4, OpmodeEffect
<1>15. CASE UNCHANGED vars
  BY <1>2, <1>15 DEF vars, driver, view
<1> QED
  BY <1>3, <1>4, <1>5, <1>6, <1>7, <1>8, <1>9, <1>10, <1>11, <1>12, <1>13, <1>14, <1>15,
     NextSplit

\* The events that are waited for stay in the queue until they are handled.
LEMMA PendingStays ==
    ASSUME TypeOK, [Next]_vars, ~StaDisconnected, ~Reboot
    PROVE  /\ Has(evq, "STA_DISCONNECTED") => Has(evq', "STA_DISCONNECTED")
           /\ ~StaGotIp /\ Has(evq, "GOT_IP") => Has(evq', "GOT_IP")
<1>1. evq \in Seq(Event)
  BY DEF TypeOK
<1>2. CASE UNCHANGED evq
  BY <1>2
<1>3. ASSUME NEW e \in Event, evq' = Append(evq, e)
      PROVE  \A type : Has(evq, type) => Has(evq', type)
  BY <1>1, <1>3, HasAppended
<1>4. ASSUME NEW type, evq # <<>>, evq' = Tail(evq), Head(evq).type # type, Has(evq, type)
      PROVE  Has(evq', type)
  BY <1>1, <1>4, HasBehind
<1>5. CASE Associate
  <2>1. evq' = Append(evq, Connected(using.ssid)) /\ Connected(using.ssid) \in Event
    BY <1>5, ConstantsTyped DEF Associate, TypeOK, Config
  <2> QED
    BY <1>3, <2>1
<1>6. CASE AttemptFails \/ LinkLost \/ PostGotIp
  BY <1>3, <1>6, ConstantsTyped DEF AttemptFails, LinkLost, PostGotIp
<1>7. CASE StaStart \/ StaConnected
  BY <1>4, <1>7 DEF StaStart, StaConnected, Pending
<1>8. CASE StaGotIp
  BY <1>4, <1>8 DEF StaGotIp, Pending
<1>9. CASE ReqConnect \/ ReqDisconnect
  BY <1>2, <1>3, <1>9, ConstantsTyped DEF ReqConnect, ReqDisconnect, esp_wifi_disconnect
<1>10. CASE DhcpAck \/ ReqConnectFinish \/ UNCHANGED vars
  BY <1>2, <1>10 DEF DhcpAck, ReqConnectFinish, vars
<1>11. CASE Aside
  BY <1>2, <1>11, AsideStep
<1>12. CASE SetWifiOpmode
  BY <1>2, <1>3, <1>12, OpmodeEffect, ConstantsTyped
<1> QED
  BY <1>5, <1>6, <1>7, <1>8, <1>9, <1>10, <1>11, <1>12, NextSplit

\* What ends and what begins the time with an address.
LEMMA BoundStep ==
    ASSUME TypeOK, [Next]_vars, dhcp' = "bound"
    PROVE  /\ ~StaDisconnected /\ ~Reboot
           /\ (dhcp = "bound" /\ connected_bit' = connected_bit)
              \/ (dhcp = "bound" /\ connected_bit')
              \/ Has(evq', "GOT_IP")
<1>1. ~StaDisconnected /\ ~Reboot
  BY DEF StaDisconnected, Reboot, Restart
<1>2. CASE PostGotIp
  <2>1. evq \in Seq(Event) /\ GotIp \in Event /\ GotIp.type = "GOT_IP"
        /\ evq' = Append(evq, GotIp)
    BY <1>2, ConstantsTyped DEF PostGotIp, TypeOK, GotIp
  <2> QED
    BY <1>1, <2>1, HasAppended
<1>3. CASE StaGotIp
  BY <1>1, <1>3 DEF StaGotIp
<1>4. CASE Associate \/ AttemptFails \/ LinkLost \/ StaStart \/ ReqConnect \/ ReqDisconnect
             \/ ReqConnectFinish
  BY <1>1, <1>4 DEF Associate, AttemptFails, LinkLost, StaStart, ReqConnect, ReqDisconnect,
                    ReqConnectFinish
<1>5. CASE DhcpAck \/ StaConnected
  BY <1>5 DEF DhcpAck, StaConnected
<1>6. CASE Aside
  BY <1>1, <1>6, AsideStep
<1>7. CASE SetWifiOpmode
  BY <1>1, <1>7, OpmodeEffect
<1>8. CASE UNCHANGED vars
  BY <1>1, <1>8 DEF vars
<1> QED
  BY <1>1, <1>2, <1>3, <1>4, <1>5, <1>6, <1>7, <1>8, NextSplit

LEMMA BitFollowsStep == TypeOK /\ BitFollows /\ [Next]_vars => BitFollows'
<1> SUFFICES ASSUME TypeOK, BitFollows, [Next]_vars, dhcp' = "bound"
             PROVE  connected_bit' \/ Has(evq', "GOT_IP")
  BY DEF BitFollows
<1>1. CASE StaGotIp
  BY <1>1 DEF StaGotIp
<1>2. CASE ~StaGotIp
  BY <1>2, BoundStep, PendingStays DEF BitFollows
<1> QED
  BY <1>1, <1>2

LEMMA AskerIsToldStep ==
    TypeOK /\ DhcpFollows /\ LeftIsTold /\ AskerIsTold /\ [Next]_vars => AskerIsTold'
<1> DEFINE Asked == btc = "reconnect" \/ intent = "connect"
<1> DEFINE Answered == \/ report.kind = "success"
                       \/ Has(evq, "GOT_IP") \/ Has(evq, "STA_DISCONNECTED")
<1> SUFFICES ASSUME TypeOK, DhcpFollows, LeftIsTold, AskerIsTold, [Next]_vars, Asked'
             PROVE  ble_is_connected' /\ (dhcp' = "bound" => Answered')
  BY DEF AskerIsTold
<1>1. CASE StaGotIp
  <2>1. Asked /\ ble_is_connected' = ble_is_connected
    BY <1>1 DEF StaGotIp
  <2>2. ble_is_connected
    BY <2>1 DEF AskerIsTold
  <2>3. report'.kind = "success"
    BY <1>1, <2>2 DEF StaGotIp, Deliver
  <2> QED
    BY <2>1, <2>2, <2>3
<1>2. CASE ~StaGotIp
\* An answer that the phone has is not taken from it.
  <2>1. ASSUME Asked, ble_is_connected' = ble_is_connected,
               dhcp' = "bound" => report' = report \/ report'.kind = "success"
        PROVE  ble_is_connected' /\ (dhcp' = "bound" => Answered')
    <3>1. ble_is_connected /\ (dhcp = "bound" => Answered)
      BY <2>1 DEF AskerIsTold
    <3>2. dhcp' = "bound" => dhcp = "bound" \/ Has(evq', "GOT_IP")
      BY BoundStep
    <3>3. dhcp' = "bound" =>
             /\ Has(evq, "GOT_IP") => Has(evq', "GOT_IP")
             /\ Has(evq, "STA_DISCONNECTED") => Has(evq', "STA_DISCONNECTED")
      BY <1>2, BoundStep, PendingStays
    <3> QED
      BY <2>1, <3>1, <3>2, <3>3
  <2>2. CASE Associate \/ AttemptFails \/ LinkLost \/ DhcpAck \/ PostGotIp \/ AirChanges
             \/ StaStart \/ StaConnected \/ StaDisconnected \/ SetWifiOpmode
             \/ UNCHANGED vars
    <3>1. UNCHANGED <<btc, intent, ble_is_connected, report>>
      BY <2>2, OpmodeEffect DEF Associate, AttemptFails, LinkLost, DhcpAck, PostGotIp, AirChanges,
                  StaStart, StaConnected, StaDisconnected, vars
    <3> QED
      BY <2>1, <3>1
  <2>3. CASE BleConnect \/ BleDisconnect \/ RecvStaBssid \/ RecvStaSsid \/ RecvStaPasswd
             \/ ReqDisconnect \/ Reboot
    <3>1. intent' = "none" /\ btc' # "reconnect"
      BY <2>3 DEF BleConnect, BleDisconnect, RecvStaBssid, RecvStaSsid, RecvStaPasswd,
                  Receive, ReqDisconnect, Reboot, Restart, PhoneCommand, Command
    <3> QED
      BY <3>1
\* What the association that is left has brought is over, or its end is told of.
  <2>4. CASE ReqConnect
    <3>1. ble_is_connected /\ ble_is_connected' = ble_is_connected
          /\ dhcp' = dhcp /\ esp_wifi_disconnect
      BY <2>4 DEF ReqConnect, PhoneCommand
    <3>2. CASE link = "idle" /\ UNCHANGED evq
      BY <3>1, <3>2 DEF LeftIsTold, DhcpFollows
    <3>3. CASE evq' = Append(evq, Disconnected)
      BY <3>1, <3>3, LeftAfterPost
    <3> QED
      BY <3>1, <3>2, <3>3 DEF esp_wifi_disconnect
  <2>5. CASE ReqConnectFinish
    BY <2>1, <2>5 DEF ReqConnectFinish
  <2>6. CASE GetWifiStatus
    <3>1. Asked /\ ble_is_connected' = ble_is_connected
      BY <2>6 DEF GetWifiStatus
    <3>2. report' = report \/ ~gl_sta_connected
      BY <2>6 DEF GetWifiStatus
    <3>3. dhcp' = dhcp
      BY <2>6 DEF GetWifiStatus
    <3> QED
      BY <2>1, <3>1, <3>2, <3>3 DEF DhcpFollows
  <2>7. CASE StatusCopyBssid \/ StatusSend
    <3>1. Asked /\ ble_is_connected' = ble_is_connected
      BY <2>7 DEF StatusCopyBssid, StatusSend
    <3>2. report' = report \/ report'.kind = "success"
      BY <2>7 DEF StatusCopyBssid, StatusSend, Deliver
    <3> QED
      BY <2>1, <3>1, <3>2
  <2> QED
    BY <1>2, <2>2, <2>3, <2>4, <2>5, <2>6, <2>7, NextSplit DEF Aside
<1> QED
  BY <1>1, <1>2

\* On an association that the handlers have caught up with DHCP is running, and an
\* address that was reported is known to the firmware and to the phone that asked for
\* the connection, though both were asked for on one association and come on the next:
\* the safety half of PhoneLearnsSuccess (user_blufi.c:51-84, 98-113, 226-233).
THEOREM AddressReachesThePhone == Spec => []AddressIsTold
<1>1. Init => DhcpFollows /\ LeftIsTold /\ BitFollows /\ AskerIsTold
  <2> SUFFICES ASSUME Init PROVE DhcpFollows /\ LeftIsTold /\ BitFollows /\ AskerIsTold
    OBVIOUS
  <2>1. /\ evq = <<Start>> /\ Start.type = "STA_START" /\ gl_sta_connected = FALSE
        /\ dhcp = "off" /\ btc = "idle" /\ intent = "none"
    BY DEF Init, Start
  <2>2. Ends(evq)
    BY <2>1 DEF Ends
  <2> QED
    BY <2>1, <2>2 DEF DhcpFollows, LeftIsTold, BitFollows, AskerIsTold
<1>2. ViewFollowsLink /\ DhcpFollows /\ BitFollows /\ AskerIsTold => AddressIsTold
  <2> SUFFICES ASSUME ViewFollowsLink, DhcpFollows, BitFollows, AskerIsTold,
                      link = "up", \A i \in DOMAIN evq : ~IsAssoc(evq[i])
               PROVE  /\ dhcp # "off"
                      /\ (dhcp = "bound" /\ \A i \in DOMAIN evq : evq[i].type # "GOT_IP") =>
                            connected_bit /\ (intent = "connect" => report.kind = "success")
    BY DEF AddressIsTold
  <2>1. gl_sta_connected
    BY DEF ViewFollowsLink
  <2>2. ~Has(evq, "STA_DISCONNECTED")
    BY DEF Has, IsAssoc
  <2>3. (\A i \in DOMAIN evq : evq[i].type # "GOT_IP") => ~Has(evq, "GOT_IP")
    BY DEF Has
  <2> QED
    BY <2>1, <2>2, <2>3 DEF DhcpFollows, BitFollows, AskerIsTold
<1> QED
  BY <1>1, <1>2, DhcpFollowsStep, LeftIsToldStep, BitFollowsStep, AskerIsToldStep,
     TypeCorrect, ViewCorrect, PTL DEF Spec
---------------------------------------------------------------------------
(* What lasts is known in the end, whenever the event task catches up with *)
(* the association events again and again.                                 *)

Heard == \A i \in DOMAIN evq : ~IsAssoc(evq[i])

\* The globals say c, and so does whatever is still to be heard.
SaysOnly(c) ==
    /\ Known = c
    /\ \A i \in 1..Len(News) : News[i] \in {c, Seen("other", Zero, Zero)}

LEMMA HeardSays ==
    ASSUME TypeOK, ViewFollowsLink, Heard
    PROVE  SaysOnly(Now)
<1>1. Known = Now
  <2>1. /\ gl_sta_connected = (link = "up")
        /\ gl_sta_bssid = Association.ap /\ gl_sta_ssid = Association.ap
    BY DEF ViewFollowsLink, Heard
  <2>2. CASE link = "up"
    BY <2>1, <2>2, NowFacts DEF Known, Association, Connected
  <2>3. CASE link # "up"
    BY <2>1, <2>3, NowFacts DEF Known, Association, Disconnected, NotUp
  <2> QED
    BY <2>2, <2>3
<1>2. \A i \in 1..Len(News) : News[i] = Seen("other", Zero, Zero)
  <2> SUFFICES ASSUME NEW i \in 1..Len(News) PROVE News[i] = Seen("other", Zero, Zero)
    OBVIOUS
  <2>1. i \in 1..Len(evq) /\ News[i] = Told(evq[i])
    BY NewsTyped
  <2>2. ~IsAssoc(evq[i])
    BY <2>1 DEF Heard, TypeOK
  <2> QED
    BY <2>1, <2>2 DEF IsAssoc, Told
<1> QED
  BY <1>1, <1>2 DEF SaysOnly

LEMMA SaysOnlyStep ==
    ASSUME TypeOK, TypeOK', [Next]_vars, NEW c, SaysOnly(c), Now' = c
    PROVE  SaysOnly(c)'
<1> DEFINE other == Seen("other", Zero, Zero)
<1>1. News \in Seq(Says)
  BY NewsTyped
<1>2. CASE \E v \in {Seen("up", ap, ap) : ap \in AP} \cup {NotUp} : View!Change(v)
  <2>1. News' = Append(News, c) /\ Known' = c
        /\ c \in {Seen("up", ap, ap) : ap \in AP} \cup {NotUp}
    BY <1>2 DEF View!Change, SaysOnly
  <2>2. c \in Says
    <3>1. CASE c = NotUp
      BY <3>1, ConstantsTyped, ToldFacts DEF Says
    <3>2. ASSUME NEW ap \in AP, c = Seen("up", ap, ap) PROVE c \in Says
      <4>1. ap \in Name
        BY DEF Name
      <4> QED
        BY <3>2, <4>1, ConstantsTyped, ToldFacts DEF Says
    <3> QED
      BY <2>1, <3>1, <3>2
  <2> QED
    BY <2>1, <1>1 DEF SaysOnly
<1>3. CASE View!Mention
  <2>1. News' = Append(News, other) /\ Known' = c
    BY <1>3 DEF View!Mention, SaysOnly
  <2> QED
    BY <2>1, <1>1 DEF SaysOnly
<1>4. CASE View!Hear
  <2>1. News # <<>> /\ News' = Tail(News)
        /\ Known' = IF Head(News) = other THEN Known ELSE Head(News)
    BY <1>4 DEF View!Hear
  <2>2. Head(News) \in {c, other}
    BY <2>1, <1>1, HeadTailProperties DEF SaysOnly
  <2>3. Len(Tail(News)) = Len(News) - 1
        /\ \A i \in 1..Len(Tail(News)) : Tail(News)[i] = News[i + 1] /\ i + 1 \in 1..Len(News)
    BY <2>1, <1>1, HeadTailProperties
  <2>4. Known' = c
    BY <2>1, <2>2 DEF SaysOnly
  <2> QED
    BY <2>1, <2>3, <2>4 DEF SaysOnly
<1>5. CASE View!Restart
  <2>1. Known' = c /\ News' \in Seq({other})
    BY <1>5 DEF View!Restart
  <2> QED
    BY <2>1 DEF SaysOnly
<1>6. CASE UNCHANGED <<Now, News, Known>>
  BY <1>6 DEF SaysOnly
<1> QED
  BY <1>2, <1>3, <1>4, <1>5, <1>6, ImplementsStep DEF View!Next

\* Whatever lasts of the association, the globals come to say it for good, if the event
\* task catches up with the events of the driver again and again (user_blufi.c:98-113):
\* ViewCatchesUp, value by value, but for the scheduling.
THEOREM WhatLastsIsKnown ==
    ASSUME NEW CONSTANT c
    PROVE  Spec /\ []<>Heard => (<>[](Now = c) => <>[](Known = c))
<1>1. TypeOK /\ ViewFollowsLink /\ Heard /\ Now = c => SaysOnly(c)
  BY HeardSays
<1>2. TypeOK /\ TypeOK' /\ [Next]_vars /\ SaysOnly(c) /\ (Now = c)' => SaysOnly(c)'
  BY SaysOnlyStep
<1>3. SaysOnly(c) => Known = c
  BY DEF SaysOnly
<1> QED
  BY <1>1, <1>2, <1>3, TypeCorrect, ViewCorrect, PTL DEF Spec
=============================================================================
