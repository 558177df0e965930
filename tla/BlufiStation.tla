--------------------------- MODULE BlufiStation ---------------------------
(***************************************************************************)
(* The station side of components/src/user_blufi.c: how the phone's BluFi  *)
(* commands, the events of the Wi-Fi driver and the events of the IP stack *)
(* move the device between "no network" and "connected to the AP with an   *)
(* IP".                                                                    *)
(*                                                                         *)
(* Three tasks touch the globals of the file:                              *)
(*   - the system event task runs wifi_event_handler and ip_event_handler, *)
(*     one queued event at a time;                                         *)
(*   - the Bluetooth callback task (BTC) runs example_event_callback, one  *)
(*     phone command at a time;                                            *)
(*   - the Wi-Fi driver and the TCP/IP task only post events and obey      *)
(*     esp_wifi_connect, esp_wifi_disconnect and esp_wifi_set_config.      *)
(* The event task and BTC share a core and the event task has the higher   *)
(* priority, so a handler of the former is one step and a handler of the   *)
(* latter is split wherever the other can see the difference.              *)
(***************************************************************************)
EXTENDS Naturals, Sequences

CONSTANTS
    AP,        \* access points; one value stands for the SSID and the BSSID
    Zero,      \* the all-zero SSID or BSSID
    Passwd,    \* passwords
    NoPasswd,  \* the empty password
    PasswdOf,  \* the password each access point accepts
    FullSsid,  \* access points whose SSID has all 32 characters
    MaxEvq,    \* bound: events of the Wi-Fi driver waiting for the event task
    MaxOps     \* bound: commands of the phone, BLE links and power cycles

ASSUME ZeroAssumption == Zero \notin AP
ASSUME PasswdAssumption ==
    /\ NoPasswd \in Passwd
    /\ PasswdOf \in [AP -> Passwd]
ASSUME FullSsidAssumption == FullSsid \subseteq AP
ASSUME BoundAssumption == MaxEvq \in Nat \ {0} /\ MaxOps \in Nat

VARIABLES
    sta_config,        \* the RAM copy BTC edits, one field per command
    sent,              \* ghost: the same fields, as the phone sent them
    cut,               \* ghost: a 32-character SSID came after the password
    taken,             \* ghost: the driver took the last field that the phone sent
    flash,             \* the configuration the driver keeps (it survives a reset)
    sta_mode,          \* has the mode of the driver a station?
    link,              \* the driver's association: "idle", "connecting" or "up"
    using,             \* the configuration of the current attempt or association
    parked,            \* ghost: esp_wifi_connect was last refused for want of an SSID
    dhcp,              \* DHCP client: "off", "discover", "acked" or "bound"
    evq,               \* the system event queue
    gl_sta_connected, gl_sta_bssid, gl_sta_ssid,
    connected_bit,     \* CONNECTED_BIT of wifi_event_group
    ble_is_connected,
    btc,               \* where BTC stands in the command it is running
    info,              \* the esp_blufi_extra_info_t on BTC's stack (its BSSID)
    report,            \* the last Wi-Fi report that reached the phone; that of AP_START,
                       \* which names no station, is BlufiModes'
    air,               \* the access points within reach
    intent,            \* ghost: what the phone last asked for
    ops                \* commands used, for the bound

phone  == <<sta_config, sent, cut, taken>>
driver == <<flash, sta_mode, link, using, parked>>
view   == <<gl_sta_connected, gl_sta_bssid, gl_sta_ssid>>
vars   == <<phone, driver, dhcp, evq, view,
            connected_bit, ble_is_connected, btc, info, report, air, intent, ops>>

Name   == AP \cup {Zero}
Config == [ssid : Name, passwd : Passwd, bssid : Name]
Report == [kind : {"none", "success", "fail"}, bssid : Name, ssid : Name]
Event  == [type : {"STA_START", "STA_CONNECTED", "STA_DISCONNECTED", "GOT_IP"},
           ap : Name]

NoConfig == [ssid |-> Zero, passwd |-> NoPasswd, bssid |-> Zero]
NoReport == [kind |-> "none", bssid |-> Zero, ssid |-> Zero]
Failed   == [kind |-> "fail", bssid |-> Zero, ssid |-> Zero]

Start         == [type |-> "STA_START", ap |-> Zero]
Connected(ap) == [type |-> "STA_CONNECTED", ap |-> ap]
Disconnected  == [type |-> "STA_DISCONNECTED", ap |-> Zero]
GotIp         == [type |-> "GOT_IP", ap |-> Zero]

\* What a device provisioned for access point ap has in flash.
Provisioned(ap) == [ssid |-> ap, passwd |-> PasswdOf[ap], bssid |-> Zero]

\* Would the access point let a station with configuration c in now?
Accepts(c) == /\ c.ssid \in air
              /\ c.passwd = PasswdOf[c.ssid]
              /\ c.bssid \in {Zero, c.ssid}

---------------------------------------------------------------------------
(* The state after a reset. The globals are in .bss; flash is not.         *)

Init ==
    /\ sta_config = NoConfig /\ sent = NoConfig /\ cut = FALSE /\ taken = FALSE
    /\ sta_mode = TRUE /\ link = "idle" /\ using = NoConfig /\ parked = FALSE
    /\ dhcp = "off"
    /\ evq = <<Start>>
    /\ gl_sta_connected = FALSE /\ gl_sta_bssid = Zero /\ gl_sta_ssid = Zero
    /\ connected_bit = FALSE
    /\ ble_is_connected = FALSE
    /\ btc = "idle" /\ info = Zero
    /\ report = NoReport /\ intent = "none"
    /\ flash \in {NoConfig} \cup {Provisioned(ap) : ap \in AP}
    /\ air \in SUBSET AP
    /\ ops = 0

---------------------------------------------------------------------------
(* The Wi-Fi driver, as the callers in user_blufi.c see it.                *)

\* Refused while an attempt is running, without a station in the mode or without an
\* SSID, ignored when up; nobody looks at what it returns.
esp_wifi_connect ==
    \/ /\ link # "idle" \/ ~sta_mode
       /\ UNCHANGED <<link, using, parked>>
    \/ /\ link = "idle" /\ sta_mode /\ flash.ssid = Zero
       /\ parked' = TRUE
       /\ UNCHANGED <<link, using>>
    \/ /\ link = "idle" /\ sta_mode /\ flash.ssid # Zero
       /\ link' = "connecting" /\ using' = flash /\ parked' = FALSE

\* Nothing is posted when there is nothing to leave.
esp_wifi_disconnect ==
    \/ /\ link = "idle"
       /\ UNCHANGED <<link, evq>>
    \/ /\ link # "idle" /\ Len(evq) < MaxEvq
       /\ link' = "idle"
       /\ evq' = Append(evq, Disconnected)

\* Refused without a station in the mode, in the middle of an attempt, or because of the
\* storage; the old configuration stays, and the callers do not look.
esp_wifi_set_config(c) ==
    \/ sta_mode /\ flash' = c /\ taken' = TRUE
    \/ UNCHANGED flash /\ taken' = FALSE

\* A mode without a station ends what the station is at; one with it starts it anew.
esp_wifi_set_mode(station) ==
    /\ sta_mode' = station
    /\ \/ ~station /\ esp_wifi_disconnect
       \/ station /\ sta_mode /\ UNCHANGED <<link, evq>>
       \/ /\ station /\ ~sta_mode /\ Len(evq) < MaxEvq
          /\ evq' = Append(evq, Start)
          /\ UNCHANGED link

Associate ==
    /\ link = "connecting" /\ Accepts(using) /\ Len(evq) < MaxEvq
    /\ link' = "up"
    /\ evq' = Append(evq, Connected(using.ssid))
    /\ UNCHANGED <<phone, flash, sta_mode, using, parked, dhcp, view, connected_bit,
                   ble_is_connected, btc, info, report, air, intent, ops>>

\* A wrong password, a BSSID that does not match, or no such access point.
AttemptFails ==
    /\ link = "connecting" /\ ~Accepts(using) /\ Len(evq) < MaxEvq
    /\ link' = "idle"
    /\ evq' = Append(evq, Disconnected)
    /\ UNCHANGED <<phone, flash, sta_mode, using, parked, dhcp, view, connected_bit,
                   ble_is_connected, btc, info, report, air, intent, ops>>

LinkLost ==
    /\ link = "up" /\ using.ssid \notin air /\ Len(evq) < MaxEvq
    /\ link' = "idle"
    /\ evq' = Append(evq, Disconnected)
    /\ UNCHANGED <<phone, flash, sta_mode, using, parked, dhcp, view, connected_bit,
                   ble_is_connected, btc, info, report, air, intent, ops>>

\* The server's answer reaches the TCP/IP task ...
DhcpAck ==
    /\ dhcp = "discover" /\ link = "up" /\ using.ssid \in air
    /\ dhcp' = "acked"
    /\ UNCHANGED <<phone, driver, evq, view, connected_bit, ble_is_connected,
                   btc, info, report, air, intent, ops>>

\* ... which posts IP_EVENT_STA_GOT_IP when it gets to run (at most once for each
\* STA_CONNECTED, so that MaxEvq need not bound it).
PostGotIp ==
    /\ dhcp = "acked"
    /\ dhcp' = "bound"
    /\ evq' = Append(evq, GotIp)
    /\ UNCHANGED <<phone, driver, view, connected_bit, ble_is_connected,
                   btc, info, report, air, intent, ops>>

AirChanges ==
    /\ air' \in SUBSET AP /\ air' # air
    /\ UNCHANGED <<phone, driver, dhcp, evq, view, connected_bit,
                   ble_is_connected, btc, info, report, intent, ops>>

---------------------------------------------------------------------------
(* The system event task.                                                  *)

\* A report only reaches a phone that is there.
Deliver(r) == report' = IF ble_is_connected THEN r ELSE report

Pending(type) == evq # <<>> /\ Head(evq).type = type

StaStartNoConnect ==   \* mutant: the first esp_wifi_connect is missing
    /\ Pending("STA_START")
    /\ evq' = Tail(evq)
    /\ UNCHANGED <<phone, driver, dhcp, view, connected_bit, ble_is_connected,
                   btc, info, report, air, intent, ops>>

StaStart ==
    /\ Pending("STA_START")
    /\ evq' = Tail(evq)
    /\ esp_wifi_connect
    /\ UNCHANGED <<phone, flash, sta_mode, dhcp, view, connected_bit, ble_is_connected,
                   btc, info, report, air, intent, ops>>

\* The network interface's own handler runs first and starts the DHCP client.
StaConnected ==
    /\ Pending("STA_CONNECTED")
    /\ evq' = Tail(evq)
    /\ dhcp' = "discover"
    /\ gl_sta_connected' = TRUE
    /\ gl_sta_bssid' = Head(evq).ap
    /\ gl_sta_ssid' = Head(evq).ap
    /\ UNCHANGED <<phone, driver, connected_bit, ble_is_connected,
                   btc, info, report, air, intent, ops>>

ForgetNamesShort ==    \* mutant: memset with the size of a pointer
    gl_sta_bssid' = Zero /\ gl_sta_ssid' = "mangled"

ForgetBssidOnly ==     \* mutant: the SSID is kept
    gl_sta_bssid' = Zero /\ gl_sta_ssid' = gl_sta_ssid

ForgetNames == gl_sta_bssid' = Zero /\ gl_sta_ssid' = Zero

StaDisconnectedOnce == \* mutant: reconnects only after an association was lost
    /\ Pending("STA_DISCONNECTED") /\ dhcp # "acked"
    /\ evq' = Tail(evq)
    /\ dhcp' = "off"
    /\ gl_sta_connected' = FALSE
    /\ ForgetNames
    /\ IF gl_sta_connected THEN esp_wifi_connect ELSE UNCHANGED <<link, using, parked>>
    /\ connected_bit' = FALSE
    /\ UNCHANGED <<phone, flash, sta_mode, ble_is_connected, btc, info, report, air,
                   intent, ops>>

\* The interface's own handler stops the DHCP client first, for which it waits until
\* the TCP/IP task has finished with an answer that is already there.
StaDisconnected ==
    /\ Pending("STA_DISCONNECTED") /\ dhcp # "acked"
    /\ evq' = Tail(evq)
    /\ dhcp' = "off"
    /\ gl_sta_connected' = FALSE
    /\ ForgetNames
    /\ esp_wifi_connect
    /\ connected_bit' = FALSE
    /\ UNCHANGED <<phone, flash, sta_mode, ble_is_connected, btc, info, report, air,
                   intent, ops>>

StaGotIpMarks ==       \* mutant: the station counts as connected from here on
    /\ Pending("GOT_IP")
    /\ evq' = Tail(evq)
    /\ gl_sta_connected' = TRUE
    /\ connected_bit' = TRUE
    /\ Deliver([kind |-> "success", bssid |-> gl_sta_bssid, ssid |-> gl_sta_ssid])
    /\ UNCHANGED <<phone, driver, dhcp, gl_sta_bssid, gl_sta_ssid, ble_is_connected,
                   btc, info, air, intent, ops>>

StaGotIp ==
    /\ Pending("GOT_IP")
    /\ evq' = Tail(evq)
    /\ connected_bit' = TRUE
    /\ Deliver([kind |-> "success", bssid |-> gl_sta_bssid, ssid |-> gl_sta_ssid])
    /\ UNCHANGED <<phone, driver, dhcp, view, ble_is_connected, btc, info,
                   air, intent, ops>>

---------------------------------------------------------------------------
(* BTC: the phone's commands, from its queue.                              *)

Command == btc = "idle" /\ ops < MaxOps /\ ops' = ops + 1
PhoneCommand == ble_is_connected /\ Command

BleConnect ==
    /\ ~ble_is_connected /\ Command
    /\ ble_is_connected' = TRUE
    /\ report' = NoReport /\ intent' = "none"
    /\ UNCHANGED <<phone, driver, dhcp, evq, view, connected_bit, btc, info, air>>

BleDisconnect ==
    /\ PhoneCommand
    /\ ble_is_connected' = FALSE
    /\ intent' = "none"
    /\ UNCHANGED <<phone, driver, dhcp, evq, view, connected_bit, btc, info,
                   report, air>>

\* Every field that arrives is written to the driver with the whole RAM copy.
Receive(c) ==
    /\ PhoneCommand
    /\ sta_config' = c
    /\ esp_wifi_set_config(c)
    /\ intent' = "none"
    /\ UNCHANGED <<sta_mode, link, using, parked, dhcp, evq, view, connected_bit,
                   ble_is_connected, btc, info, report, air>>

\* bssid_set is never cleared again.
RecvStaBssid == \E ap \in AP :
    /\ Receive([sta_config EXCEPT !.bssid = ap])
    /\ sent' = [sent EXCEPT !.bssid = ap]
    /\ UNCHANGED cut

RecvStaSsidCuts ==     \* mutant: the terminator of every SSID lands on the password
    \E ap \in AP :
      /\ Receive([sta_config EXCEPT !.ssid = ap, !.passwd = NoPasswd])
      /\ sent' = [sent EXCEPT !.ssid = ap]
      /\ cut' = (cut \/ ap \in FullSsid)

\* The terminator of a 32-character SSID lands on the first byte of the password.
RecvStaSsid == \E ap \in AP :
    /\ Receive([sta_config EXCEPT !.ssid = ap,
                                  !.passwd = IF ap \in FullSsid THEN NoPasswd ELSE @])
    /\ sent' = [sent EXCEPT !.ssid = ap]
    /\ cut' = (cut \/ ap \in FullSsid)

RecvStaPasswd == \E p \in Passwd \ {NoPasswd} :
    /\ Receive([sta_config EXCEPT !.passwd = p])
    /\ sent' = [sent EXCEPT !.passwd = p]
    /\ cut' = FALSE

ReqConnectNoLeave ==   \* mutant: without the esp_wifi_disconnect
    /\ PhoneCommand
    /\ btc' = "reconnect"
    /\ report' = NoReport /\ intent' = "none"
    /\ UNCHANGED <<phone, driver, dhcp, evq, view, connected_bit,
                   ble_is_connected, info, air>>

\* esp_wifi_disconnect of REQ_CONNECT_TO_AP; the event task may run before the
\* second call.
ReqConnect ==
    /\ PhoneCommand
    /\ esp_wifi_disconnect
    /\ btc' = "reconnect"
    /\ report' = NoReport /\ intent' = "none"
    /\ UNCHANGED <<phone, flash, sta_mode, using, parked, dhcp, view, connected_bit,
                   ble_is_connected, info, air>>

\* esp_wifi_connect of REQ_CONNECT_TO_AP.
ReqConnectFinish ==
    /\ btc = "reconnect"
    /\ esp_wifi_connect
    /\ btc' = "idle"
    /\ intent' = "connect"
    /\ UNCHANGED <<phone, flash, sta_mode, dhcp, evq, view, connected_bit,
                   ble_is_connected, info, report, air, ops>>

ReqDisconnect ==
    /\ PhoneCommand
    /\ esp_wifi_disconnect
    /\ intent' = "none"
    /\ UNCHANGED <<phone, flash, sta_mode, using, parked, dhcp, view, connected_bit,
                   ble_is_connected, btc, info, report, air>>

\* GET_WIFI_STATUS reads gl_sta_connected ...
GetWifiStatus ==
    /\ PhoneCommand
    /\ \/ /\ gl_sta_connected
          /\ btc' = "copy"
          /\ UNCHANGED report
       \/ /\ ~gl_sta_connected
          /\ Deliver(Failed)
          /\ UNCHANGED btc
    /\ UNCHANGED <<phone, driver, dhcp, evq, view, connected_bit,
                   ble_is_connected, info, air, intent>>

\* ... then copies gl_sta_bssid ...
StatusCopyBssid ==
    /\ btc = "copy"
    /\ info' = gl_sta_bssid
    /\ btc' = "send"
    /\ UNCHANGED <<phone, driver, dhcp, evq, view, connected_bit,
                   ble_is_connected, report, air, intent, ops>>

\* ... then passes a pointer to gl_sta_ssid, which the send copies.
StatusSend ==
    /\ btc = "send"
    /\ Deliver([kind |-> "success", bssid |-> info, ssid |-> gl_sta_ssid])
    /\ btc' = "idle" /\ info' = Zero
    /\ UNCHANGED <<phone, driver, dhcp, evq, view, connected_bit,
                   ble_is_connected, air, intent, ops>>

SetWifiOpmode ==
    /\ PhoneCommand
    /\ \E station \in BOOLEAN : esp_wifi_set_mode(station)
    /\ UNCHANGED <<phone, flash, using, parked, dhcp, view, connected_bit,
                   ble_is_connected, btc, info, report, air, intent>>

---------------------------------------------------------------------------
(* Everything but flash starts over; initialise_wifi sets the mode of a    *)
(* station.                                                                *)

Restart ==
    /\ sta_config' = NoConfig /\ sent' = NoConfig /\ cut' = FALSE /\ taken' = FALSE
    /\ sta_mode' = TRUE
    /\ link' = "idle" /\ using' = NoConfig /\ parked' = FALSE
    /\ dhcp' = "off"
    /\ evq' = <<Start>>
    /\ gl_sta_connected' = FALSE /\ ForgetNames
    /\ connected_bit' = FALSE
    /\ ble_is_connected' = FALSE
    /\ btc' = "idle" /\ info' = Zero
    /\ report' = NoReport /\ intent' = "none"
    /\ UNCHANGED <<flash, air>>

\* ESP_ERROR_CHECK of a mode that the driver does not know.
SetWifiOpmodeAborts == PhoneCommand /\ Restart

\* A power cycle, at any point of any task.
Reboot ==
    /\ ops < MaxOps /\ ops' = ops + 1
    /\ Restart

---------------------------------------------------------------------------
Driver    == Associate \/ AttemptFails \/ LinkLost \/ DhcpAck \/ PostGotIp
EventTask == StaStart \/ StaConnected \/ StaDisconnected \/ StaGotIp
BtcResume == ReqConnectFinish \/ StatusCopyBssid \/ StatusSend
BtcStart  == \/ BleConnect \/ BleDisconnect
             \/ RecvStaBssid \/ RecvStaSsid \/ RecvStaPasswd
             \/ ReqConnect \/ ReqDisconnect \/ GetWifiStatus
             \/ SetWifiOpmode \/ SetWifiOpmodeAborts

Next == Driver \/ AirChanges \/ EventTask \/ BtcStart \/ BtcResume \/ Reboot

Spec == Init /\ [][Next]_vars

\* Nothing that was started is abandoned: the tasks keep running, an attempt ends
\* in one way or the other, and an access point in reach answers DHCP.
Fairness == /\ WF_vars(EventTask)
            /\ WF_vars(BtcResume)
            /\ WF_vars(Associate) /\ WF_vars(AttemptFails) /\ WF_vars(LinkLost)
            /\ WF_vars(DhcpAck) /\ WF_vars(PostGotIp)

FairSpec == Spec /\ Fairness

---------------------------------------------------------------------------
TypeOK ==
    /\ sta_config \in Config /\ sent \in Config /\ cut \in BOOLEAN /\ taken \in BOOLEAN
    /\ sta_mode \in BOOLEAN /\ flash \in Config /\ using \in Config
    /\ link \in {"idle", "connecting", "up"} /\ parked \in BOOLEAN
    /\ dhcp \in {"off", "discover", "acked", "bound"}
    /\ evq \in Seq(Event)
    /\ gl_sta_connected \in BOOLEAN /\ gl_sta_bssid \in Name /\ gl_sta_ssid \in Name
    /\ connected_bit \in BOOLEAN /\ ble_is_connected \in BOOLEAN
    /\ btc \in {"idle", "reconnect", "copy", "send"} /\ info \in Name
    /\ report \in Report
    /\ air \subseteq AP
    /\ intent \in {"none", "connect"}
    /\ ops \in 0..MaxOps

IsAssoc(e) == e.type \in {"STA_CONNECTED", "STA_DISCONNECTED"}

\* The driver's association in the terms of an event, or of the globals.
Association ==
    IF link = "up" THEN Connected(using.ssid) ELSE Disconnected

\* The globals hold what the driver's last association event said: with no such
\* event pending they agree with the driver, and otherwise the last one pending
\* will bring them to agree (user_blufi.c:98-109).
ViewFollowsLink ==
    /\ (\A i \in DOMAIN evq : ~IsAssoc(evq[i])) =>
          /\ gl_sta_connected = (link = "up")
          /\ gl_sta_bssid = Association.ap
          /\ gl_sta_ssid = Association.ap
    /\ \A i \in DOMAIN evq :
          (IsAssoc(evq[i]) /\ \A j \in DOMAIN evq : j > i => ~IsAssoc(evq[j]))
             => evq[i] = Association

\* The "workaround as ESP32 WiFi libs don't currently auto-reassociate" never loses a
\* station that the mode has: when the driver idles, an event or a command is on its way
\* that calls esp_wifi_connect, also after a mode without a station has made the calls
\* before it fail; unless the last call found no SSID to join (user_blufi.c:95-113,
\* 222-233).
NoLostReconnect ==
    (sta_mode /\ link = "idle") =>
        \/ parked
        \/ btc = "reconnect"
        \/ \E i \in DOMAIN evq : evq[i].type \in {"STA_START", "STA_DISCONNECTED"}

\* The fields as the phone sent them, in the one way that the code spoils them.
Meant == [sent EXCEPT !.passwd = IF cut THEN NoPasswd ELSE @]

\* Once REQ_CONNECT_TO_AP has been served, an attempt or an association is with the
\* fields that the phone sent, in whatever order and whichever of them the driver
\* refused, if it took the last one; only a password that a 32-character SSID followed
\* is missing. When it refused the last one, or none was sent, they are with the
\* configuration from before. Whichever task called esp_wifi_connect first: this is what
\* the esp_wifi_disconnect is for (user_blufi.c:226-233, 269-286).
AttemptUsesRequestedConfig ==
    (intent = "connect" /\ link # "idle") => using = IF taken THEN Meant ELSE flash

\* On an association that the handlers have caught up with, DHCP is running, and an
\* address of which GOT_IP has been handled is known to the firmware and to the phone
\* that asked for the connection (user_blufi.c:51-84, 98-113, 226-233).
AddressIsTold ==
    (link = "up" /\ \A i \in DOMAIN evq : ~IsAssoc(evq[i])) =>
      /\ dhcp # "off"
      /\ (dhcp = "bound" /\ \A i \in DOMAIN evq : evq[i].type # "GOT_IP") =>
            connected_bit /\ (intent = "connect" => report.kind = "success")

---------------------------------------------------------------------------
(* Liveness.                                                               *)

Online == link = "up" /\ dhcp = "bound" /\ evq = <<>> /\ connected_bit

\* The mode has a station, the stored network is usable, and esp_wifi_connect was not
\* left refused for want of one.
Usable == sta_mode /\ Accepts(flash) /\ ~parked /\ (link # "idle" => using = flash)

\* If the stored network stays usable the station gets on it, and stays, through any
\* number of earlier failures and modes without a station (user_blufi.c:95-113, 222-225).
Reconnects == <>[]Usable => <>[]Online

\* The phone stays on the BLE link after REQ_CONNECT_TO_AP, what it sent is right for an
\* access point in reach, and it has neither had the last field refused, nor left the
\* mode without a station, nor sent a 32-character SSID after the password.
AskedRightly == /\ ble_is_connected /\ intent = "connect"
                /\ Accepts(sent) /\ taken /\ sta_mode /\ ~cut


---------------------------------------------------------------------------
(* The abstract specification that the globals implement.                  *)

Seen(state, bssid, ssid) == [state |-> state, bssid |-> bssid, ssid |-> ssid]
NotUp   == Seen("down", Zero, Zero)
Told(e) == CASE e.type = "STA_CONNECTED"    -> Seen("up", e.ap, e.ap)
             [] e.type = "STA_DISCONNECTED" -> NotUp
             [] OTHER                       -> Seen("other", Zero, Zero)

Now   == Told(Association)
News  == [i \in DOMAIN evq |-> Told(evq[i])]
Known == Seen(IF gl_sta_connected THEN "up" ELSE "down", gl_sta_bssid, gl_sta_ssid)

View == INSTANCE LinkView WITH
    Value     <- {Seen("up", ap, ap) : ap \in AP} \cup {NotUp},
    Down      <- NotUp,
    OtherNews <- Seen("other", Zero, Zero),
    now <- Now, news <- News, known <- Known

\* The three globals together take the values of the driver's association one after
\* the other, none of them skipped, mixed with another or seen twice, whatever the
\* phone commands meanwhile (user_blufi.c:98-109).
ImplementsView == View!Spec

\* ... and end up with the one that lasts, even when the event that tells of it waits
\* for the DHCP client (user_blufi.c:98-109).
ViewCatchesUp == View!CatchesUp

---------------------------------------------------------------------------
(* What comments and messages of the file say, and the code does not do.   *)

\* "store the station info for send back to phone" (user_blufi.c:51): the BSSID
\* and the SSID of a success report are those of one station association.
ReportIsOneStation ==
    report.kind = "success" => report.bssid = report.ssid
===========================================================================
