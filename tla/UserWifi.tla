------------------------------ MODULE UserWifi ------------------------------
(***************************************************************************)
(* components/src/user_wifi.c: the network's name and password are kept in *)
(* NVS, the station connects with them, and after too many failures a      *)
(* phone may give others by SmartConfig.                                   *)
(*                                                                         *)
(* The main task runs wifi_init_start, wifi_init_sta and                   *)
(* smartconfig_init_start, which wait for bits of an event group; the      *)
(* system event task runs event_handler, which sets them.  Power may be    *)
(* cut between any two writes to NVS (each is in flash when it returns).   *)
(***************************************************************************)
EXTENDS Naturals, Sequences

CONSTANTS
    AP,        \* access points
    Passwd,    \* passwords
    PasswdOf,  \* the password each access point accepts
    FullSsid,  \* access points whose name has all 32 characters
    BuiltIn,   \* the pair of name and password that the firmware comes with
    None,      \* nothing stored
    Overlong,  \* a stored name of 32 characters or more
    MaxRetry,  \* failures after which WIFI_FAIL_BIT is set
    MaxEvq,    \* bound: events waiting for the event task
    MaxCuts    \* bound: power cuts

Pair == [ssid : AP, passwd : Passwd]

\* A configuration of the station, for any or for one access point: its bssid.
Conf == [ssid : AP, passwd : Passwd, bssid : AP \cup {None}]

ASSUME NoneAssumption ==
    None \notin AP \cup Passwd /\ Overlong \notin AP \cup {None}
ASSUME PasswdAssumption == PasswdOf \in [AP -> Passwd] /\ FullSsid \subseteq AP
ASSUME BuiltInAssumption == BuiltIn \in Pair /\ BuiltIn.ssid \notin FullSsid
ASSUME BoundAssumption ==
    MaxRetry \in Nat /\ MaxEvq \in Nat \ {0} /\ MaxCuts \in Nat

VARIABLES
    nvs,        \* wifi_ssid, wifi_passwd; does wifi_update equal change_nvs_flag?
    given,      \* ghost: the pair last given, by the firmware or by a phone
    torn,       \* ghost: power was cut between the two writes of a phone's pair
    main,       \* where the main task stands
    ev,         \* where the event task stands: "idle", or in a phone's pair
    bits,       \* the bits of the event group
    group,      \* "live", "deleted", or "misused" after its deletion
    retry_num,
    evq,        \* the system event queue
    config, link, using,   \* the Wi-Fi driver, as in BlufiStation
    dhcp,       \* DHCP client: "off", "discover", "acked" or "bound"
    sc,         \* SmartConfig: "off", "listening", "acking" (a pair was received)
    air,        \* the access points within reach
    cuts        \* power cuts, for the bound

stored == <<nvs, given, torn>>
wait   == <<main, bits, group>>
driver == <<config, link, using>>
vars   == <<stored, wait, ev, retry_num, evq, driver, dhcp, sc, air, cuts>>

Nvs    == [ssid : AP \cup {None, Overlong}, passwd : Passwd \cup {None},
           mark : BOOLEAN]
Blank  == [ssid |-> None, passwd |-> None, mark |-> FALSE]
NoConf == [ssid |-> None, passwd |-> None, bssid |-> None]

Bit    == {"CONNECTED", "FAIL", "SMART"}
Event  == [type : {"STA_START", "STA_CONNECTED", "STA_DISCONNECTED", "GOT_IP",
                   "SEND_ACK_DONE", "GOT_SSID_PSWD"}, conf : Conf \cup {NoConf}]

Ev(type)  == [type |-> type, conf |-> NoConf]
Got(conf) == [type |-> "GOT_SSID_PSWD", conf |-> conf]

PairOf(conf) == [ssid |-> conf.ssid, passwd |-> conf.passwd]

AsStoredCut(ssid) == IF ssid \in FullSsid THEN "cut" ELSE ssid   \* mutant: 31 characters

\* A name without room for its terminator is stored with what lies behind it.
AsStored(ssid) == IF ssid \in FullSsid THEN Overlong ELSE ssid

\* Would an access point let a station with this configuration in now?
Accepts(conf) ==
    /\ conf \in Conf /\ conf.ssid \in air /\ conf.passwd = PasswdOf[conf.ssid]
    /\ conf.bssid \in {None, conf.ssid}

---------------------------------------------------------------------------
(* What a reset leaves: NVS. An earlier firmware, or this one, may have     *)
(* stored something.                                                        *)

Init ==
    /\ main = "boot" /\ ev = "idle" /\ bits = {} /\ group = "live"
    /\ retry_num = 0 /\ evq = <<>>
    /\ config = NoConf /\ link = "idle" /\ using = NoConf
    /\ dhcp = "off" /\ sc = "off"
    /\ \/ nvs = Blank /\ given = BuiltIn
       \/ \E pair \in Pair, mark \in BOOLEAN :
             /\ nvs = [ssid |-> AsStored(pair.ssid), passwd |-> pair.passwd,
                       mark |-> mark]
             /\ given = pair
    /\ torn = FALSE
    /\ air \in SUBSET AP
    /\ cuts = 0

Reset ==
    /\ main' = "boot" /\ ev' = "idle" /\ bits' = {} /\ group' = "live"
    /\ retry_num' = 0 /\ evq' = <<>>
    /\ config' = NoConf /\ link' = "idle" /\ using' = NoConf
    /\ dhcp' = "off" /\ sc' = "off"
    /\ torn' = (torn \/ ev = "passwd")
    /\ UNCHANGED <<nvs, given, air>>

\* After a misuse of the event group only the power switch is sure to help.
PowerCut ==
    \/ cuts < MaxCuts /\ cuts' = cuts + 1 /\ Reset
    \/ group = "misused" /\ UNCHANGED cuts /\ Reset

---------------------------------------------------------------------------
(* The main task: wifi_init_start ...                                       *)

At(pc) == main = pc /\ group # "misused"
GoTo(pc) == main' = pc /\ UNCHANGED <<bits, group>>
Elsewhere == UNCHANGED <<ev, retry_num, evq, driver, dhcp, sc, air, cuts>>

\* nvs_flash_init found no free pages: nvs_flash_erase.
NvsErase ==
    /\ At("boot") /\ nvs # Blank
    /\ nvs' = Blank
    /\ UNCHANGED <<given, torn, wait>> /\ Elsewhere

NeedNotUpdate ==
    /\ At("boot") /\ nvs.mark
    /\ GoTo("sta")
    /\ UNCHANGED stored /\ Elsewhere

UpdateMarkFirst ==     \* mutant: the marker is written before the password
    /\ At("boot") /\ ~nvs.mark
    /\ nvs' = [nvs EXCEPT !.ssid = BuiltIn.ssid, !.mark = TRUE]
    /\ GoTo("passwd")
    /\ UNCHANGED <<given, torn>> /\ Elsewhere

UpdateSsid ==
    /\ At("boot") /\ ~nvs.mark
    /\ nvs' = [nvs EXCEPT !.ssid = BuiltIn.ssid]
    /\ GoTo("passwd")
    /\ UNCHANGED <<given, torn>> /\ Elsewhere

UpdatePasswd ==
    /\ At("passwd")
    /\ nvs' = [nvs EXCEPT !.passwd = BuiltIn.passwd]
    /\ GoTo("mark")
    /\ UNCHANGED <<given, torn>> /\ Elsewhere

UpdateMark ==
    /\ At("mark")
    /\ nvs' = [nvs EXCEPT !.mark = TRUE]
    /\ given' = BuiltIn /\ torn' = FALSE
    /\ GoTo("sta")
    /\ Elsewhere

\* ... wifi_init_sta, up to esp_wifi_start ...
Readable == nvs.ssid \in AP /\ nvs.passwd \in Passwd
FromNvs  == [ssid |-> nvs.ssid, passwd |-> nvs.passwd, bssid |-> None]

InitSta ==
    /\ At("sta") /\ Readable
    /\ config' = FromNvs
    /\ evq' = Append(evq, Ev("STA_START"))
    /\ GoTo("started")
    /\ UNCHANGED <<stored, ev, retry_num, link, using, dhcp, sc, air, cuts>>

\* ESP_ERROR_CHECK of nvs_get_str: the string is not there or not short enough.
InitStaAborts ==
    /\ At("sta") /\ ~Readable
    /\ Reset
    /\ UNCHANGED cuts

\* ... xEventGroupWaitBits, when it need not block, or does; SetBits wakes it ...
Wait ==
    /\ At("started")
    /\ GoTo(IF "CONNECTED" \in bits THEN "connected"
            ELSE IF "FAIL" \in bits THEN "failed" ELSE "wait")
    /\ UNCHANGED stored /\ Elsewhere

DeleteGroup ==
    /\ At("connected")
    /\ main' = "done" /\ group' = "deleted"
    /\ UNCHANGED <<stored, bits>> /\ Elsewhere

\* ... and smartconfig_init_start, which takes the bits it waits for with it.
SmartConfigForgets ==  \* mutant: the bits are cleared before the wait
    /\ At("failed")
    /\ sc' = "listening"
    /\ bits' = bits \ {"CONNECTED", "SMART"}
    /\ main' = "sc_wait"
    /\ UNCHANGED <<stored, group, ev, retry_num, evq, driver, dhcp, air, cuts>>

SmartConfigStart ==
    /\ At("failed")
    /\ sc' = "listening"
    /\ bits' = bits \ {"CONNECTED", "SMART"}
    /\ main' = IF bits \cap {"CONNECTED", "SMART"} = {} THEN "sc_wait" ELSE "sc_stop"
    /\ UNCHANGED <<stored, group, ev, retry_num, evq, driver, dhcp, air, cuts>>

SmartConfigStop ==
    /\ At("sc_stop")
    /\ sc' = "off"
    /\ GoTo("done")
    /\ UNCHANGED <<stored, ev, retry_num, evq, driver, dhcp, air, cuts>>

---------------------------------------------------------------------------
(* The event task: event_handler, behind the handlers of the network       *)
(* interface.                                                              *)

Pending(type) ==
    /\ group # "misused" /\ ev = "idle"
    /\ evq # <<>> /\ Head(evq).type = type

\* Where the main task goes when a bit is set: it is woken with the bits as they are
\* now, whatever is cleared before it runs.
Woken(bit) ==
    CASE main = "wait" /\ bit = "CONNECTED"    -> "connected"
      [] main = "wait" /\ bit = "FAIL"         -> "failed"
      [] main = "sc_wait" /\ bit # "FAIL"      -> "sc_stop"
      [] OTHER                                 -> main

\* The second wait takes the bit with it.
Set(bit) == IF main = "sc_wait" /\ bit # "FAIL" THEN bits ELSE bits \cup {bit}

\* What becomes of memory that was freed is not defined.
Misuse == group = "deleted" /\ group' = "misused" /\ UNCHANGED <<main, bits>>

SetBits(bit) ==
    \/ Misuse
    \/ /\ group = "live"
       /\ main' = Woken(bit) /\ bits' = Set(bit)
       /\ UNCHANGED group

\* Refused while an attempt is running, ignored when up.
esp_wifi_connect ==
    \/ link # "idle" /\ UNCHANGED <<link, using>>
    \/ link = "idle" /\ link' = "connecting" /\ using' = config

StaStart ==
    /\ Pending("STA_START")
    /\ evq' = Tail(evq)
    /\ esp_wifi_connect
    /\ UNCHANGED <<stored, wait, ev, retry_num, config, dhcp, sc, air, cuts>>

\* The network interface starts the DHCP client; event_handler does nothing.
StaConnected ==
    /\ Pending("STA_CONNECTED")
    /\ evq' = Tail(evq)
    /\ dhcp' = "discover"
    /\ UNCHANGED <<stored, wait, ev, retry_num, driver, sc, air, cuts>>

RetriedStuck == IF retry_num >= MaxRetry THEN retry_num ELSE retry_num + 1  \* mutant: stops one short

\* The count goes on, but nothing asks for more than whether it exceeds MaxRetry.
Retried == IF retry_num > MaxRetry THEN retry_num ELSE retry_num + 1

\* WIFI_FAIL_BIT after too many failures; WIFI_CONNECTED_BIT is cleared in any case.
CountFailure ==
    \/ Misuse
    \/ /\ group = "live" /\ retry_num' > MaxRetry
       /\ main' = Woken("FAIL") /\ bits' = Set("FAIL") \ {"CONNECTED"}
       /\ UNCHANGED group
    \/ /\ group = "live" /\ retry_num' <= MaxRetry
       /\ bits' = bits \ {"CONNECTED"}
       /\ UNCHANGED <<main, group>>

StaDisconnectedGivesUp ==  \* mutant: no further attempt after WIFI_FAIL_BIT
    /\ Pending("STA_DISCONNECTED") /\ dhcp # "acked"
    /\ evq' = Tail(evq)
    /\ dhcp' = "off"
    /\ IF retry_num > MaxRetry THEN UNCHANGED <<link, using>> ELSE esp_wifi_connect
    /\ retry_num' = Retried
    /\ CountFailure
    /\ UNCHANGED <<stored, ev, config, sc, air, cuts>>

\* The interface's handler waits for an answer of the DHCP server that is there.
StaDisconnected ==
    /\ Pending("STA_DISCONNECTED") /\ dhcp # "acked"
    /\ evq' = Tail(evq)
    /\ dhcp' = "off"
    /\ esp_wifi_connect
    /\ retry_num' = Retried
    /\ CountFailure
    /\ UNCHANGED <<stored, ev, config, sc, air, cuts>>

StaGotIp ==
    /\ Pending("GOT_IP")
    /\ evq' = Tail(evq)
    /\ retry_num' = 0
    /\ SetBits("CONNECTED")
    /\ UNCHANGED <<stored, ev, driver, dhcp, sc, air, cuts>>

\* The phone's name goes to NVS ...
GotSsid ==
    /\ Pending("GOT_SSID_PSWD")
    /\ nvs' = [nvs EXCEPT !.ssid = AsStored(Head(evq).conf.ssid)]
    /\ ev' = "passwd"
    /\ UNCHANGED <<given, torn, wait, retry_num, evq, driver, dhcp, sc, air, cuts>>

GotPasswdNoLeave ==    \* mutant: without the esp_wifi_disconnect
    /\ ev = "passwd"
    /\ LET conf == Head(evq).conf IN
          /\ nvs' = [nvs EXCEPT !.passwd = conf.passwd]
          /\ given' = PairOf(conf) /\ torn' = FALSE
          /\ config' = conf
    /\ evq' = Tail(evq)
    /\ esp_wifi_connect
    /\ ev' = "idle"
    /\ UNCHANGED <<wait, retry_num, dhcp, sc, air, cuts>>

\* ... then its password; then the station leaves, and joins with the pair and, if the
\* phone gave one, the bssid, which is not stored.
GotPasswd ==
    /\ ev = "passwd"
    /\ LET conf == Head(evq).conf IN
          /\ nvs' = [nvs EXCEPT !.passwd = conf.passwd]
          /\ given' = PairOf(conf) /\ torn' = FALSE
          /\ config' = conf /\ link' = "connecting" /\ using' = conf
    /\ evq' = IF link = "idle" THEN Tail(evq)
              ELSE Append(Tail(evq), Ev("STA_DISCONNECTED"))
    /\ ev' = "idle"
    /\ UNCHANGED <<wait, retry_num, dhcp, sc, air, cuts>>

SendAckDone ==
    /\ Pending("SEND_ACK_DONE")
    /\ evq' = Tail(evq)
    /\ SetBits("SMART")
    /\ UNCHANGED <<stored, ev, retry_num, driver, dhcp, sc, air, cuts>>

---------------------------------------------------------------------------
(* The Wi-Fi driver, DHCP, SmartConfig and the phone.                      *)

Post(e) == Len(evq) < MaxEvq /\ evq' = Append(evq, e)
Around  == UNCHANGED <<stored, wait, ev, retry_num, config, using, air, cuts>>

Associate ==
    /\ link = "connecting" /\ Accepts(using)
    /\ link' = "up" /\ Post(Ev("STA_CONNECTED"))
    /\ UNCHANGED <<dhcp, sc>> /\ Around

AttemptFails ==
    /\ link = "connecting" /\ ~Accepts(using)
    /\ link' = "idle" /\ Post(Ev("STA_DISCONNECTED"))
    /\ UNCHANGED <<dhcp, sc>> /\ Around

LinkLost ==
    /\ link = "up" /\ using.ssid \notin air
    /\ link' = "idle" /\ Post(Ev("STA_DISCONNECTED"))
    /\ UNCHANGED <<dhcp, sc>> /\ Around

DhcpAck ==
    /\ dhcp = "discover" /\ link = "up" /\ using.ssid \in air
    /\ dhcp' = "acked"
    /\ UNCHANGED <<link, evq, sc>> /\ Around

PostGotIp ==
    /\ dhcp = "acked"
    /\ dhcp' = "bound" /\ evq' = Append(evq, Ev("GOT_IP"))
    /\ UNCHANGED <<link, sc>> /\ Around

\* A phone gives a pair, right or wrong, and perhaps the bssid of the access point it
\* is on itself; SmartConfig then stops listening.
Offer ==
    /\ sc = "listening"
    /\ \E conf \in Conf : Post(Got(conf))
    /\ sc' = "acking"
    /\ UNCHANGED <<link, dhcp>> /\ Around

\* The phone hears of the address, unless SmartConfig was stopped before.
Acknowledge ==
    /\ sc = "acking" /\ link = "up" /\ dhcp = "bound"
    /\ Post(Ev("SEND_ACK_DONE"))
    /\ sc' = "off"
    /\ UNCHANGED <<link, dhcp>> /\ Around

AirChanges ==
    /\ air' \in SUBSET AP /\ air' # air
    /\ UNCHANGED <<stored, wait, ev, retry_num, evq, driver, dhcp, sc, cuts>>

---------------------------------------------------------------------------
Main      == \/ NeedNotUpdate \/ UpdateSsid \/ UpdatePasswd \/ UpdateMark
             \/ InitSta \/ InitStaAborts \/ Wait \/ DeleteGroup
             \/ SmartConfigStart \/ SmartConfigStop
EventTask == \/ StaStart \/ StaConnected \/ StaDisconnected \/ StaGotIp
             \/ GotSsid \/ GotPasswd \/ SendAckDone
Driver    == Associate \/ AttemptFails \/ LinkLost \/ DhcpAck \/ PostGotIp

Next == \/ Main \/ EventTask \/ Driver \/ NvsErase
        \/ Offer \/ Acknowledge \/ AirChanges \/ PowerCut

Spec == Init /\ [][Next]_vars

\* The tasks go on, and an attempt ends in one way or the other. Phones, power cuts
\* and access points do as they please.
FairSpec == /\ Spec
            /\ WF_vars(Main) /\ WF_vars(EventTask)
            /\ WF_vars(Associate) /\ WF_vars(AttemptFails) /\ WF_vars(LinkLost)
            /\ WF_vars(DhcpAck) /\ WF_vars(PostGotIp)

---------------------------------------------------------------------------
TypeOK ==
    /\ nvs \in Nvs /\ given \in Pair /\ torn \in BOOLEAN
    /\ main \in {"boot", "passwd", "mark", "sta", "started", "wait", "connected",
                 "failed", "sc_wait", "sc_stop", "done"}
    /\ ev \in {"idle", "passwd"}
    /\ bits \subseteq Bit /\ group \in {"live", "deleted", "misused"}
    /\ retry_num \in 0..(MaxRetry + 1)
    /\ evq \in Seq(Event)
    /\ config \in Conf \cup {NoConf} /\ using \in Conf \cup {NoConf}
    /\ link \in {"idle", "connecting", "up"}
    /\ dhcp \in {"off", "discover", "acked", "bound"}
    /\ sc \in {"off", "listening", "acking"}
    /\ air \subseteq AP
    /\ cuts \in 0..MaxCuts

\* A power cut during the update never leaves half a pair marked as up to date: what
\* is marked is the pair last given, as a whole, unless power was cut while a phone's
\* pair was being stored (user_wifi.c:261-273, 347-353).
MarkedPairIsWhole ==
    (nvs.mark /\ ev = "idle" /\ ~torn) =>
        nvs.ssid = AsStored(given.ssid) /\ nvs.passwd = given.passwd

\* Whenever the station attempts, or is connected, the name and the password are those
\* that the next boot would read back and use (user_wifi.c:347-359, 420-441). Not so for
\* a name of 32 characters, which no boot can read back, nor for the phone's bssid,
\* which the next boot does without (336-339).
AttemptUsesStored ==
    (link # "idle" /\ ev = "idle" /\ using.ssid \notin FullSsid) =>
        Readable /\ FromNvs = [using EXCEPT !.bssid = None]

\* Once started, an idle driver always has an event on its way that makes it try
\* again, in all stages of SmartConfig (user_wifi.c:290-296, 357-359).
NoLostReconnect ==
    (link = "idle" /\ config # NoConf) =>
        \E i \in DOMAIN evq : evq[i].type \in {"STA_START", "STA_DISCONNECTED"}

\* No wake-up is lost: when the handler of GOT_IP has run, and the address still holds,
\* the main task is past its waits or will find the bit, although SmartConfig takes bits
\* with it; the same for too many failures in the first wait (user_wifi.c:290-311, 381,
\* 449).
WaitsEnd ==
    group = "live" =>
      /\ (dhcp = "bound" /\ \A i \in DOMAIN evq : evq[i].type # "GOT_IP") =>
            /\ main \notin {"wait", "sc_wait"}
            /\ main \in {"started", "failed"} => "CONNECTED" \in bits
      /\ retry_num > MaxRetry =>
            main # "wait" /\ (main = "started" => "FAIL" \in bits)

Online == link = "up" /\ dhcp = "bound" /\ evq = <<>>

\* If the network of the configuration stays in reach and accepts it, the station gets
\* on it and the main task gets past its waits, whether it had turned to SmartConfig
\* or not (user_wifi.c:381, 449), unless a deleted event group was used before.
Joins ==
    <>[]Accepts(config)
       => \/ <>[](Online /\ main = "done")
          \/ []<>(group = "misused")

\* A device that cannot join its network does not wait for ever: it turns to
\* SmartConfig (user_wifi.c:292-301, 449, 461-464).
TurnsToSmartConfig == []<>(main # "wait" \/ Accepts(config))
=============================================================================
