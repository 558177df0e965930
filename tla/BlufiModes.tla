----------------------------- MODULE BlufiModes -----------------------------
(***************************************************************************)
(* The rest of components/src/user_blufi.c: the phone sets the Wi-Fi mode, *)
(* describes a soft-AP field by field, and asks for the list of access     *)
(* points.                                                                 *)
(*                                                                         *)
(* The phone's commands wait in the queue of the Bluetooth callback task   *)
(* (BTC), which runs example_event_callback for one after the other, and   *)
(* stands still while a scan it has started lasts.  The system event task  *)
(* runs wifi_event_handler; what it sends to the phone goes into the same  *)
(* queue, and it waits when that is full.  It has the higher priority, so  *)
(* BTC runs during a handler only when that waits.  The functions of BluFi *)
(* that the callback itself calls post to the same queue, too, and wait in *)
(* the same way.  The module begins when the boot is over; see Firmware.   *)
(***************************************************************************)
EXTENDS Naturals, Sequences

CONSTANTS
    Ssid,      \* names of soft-APs
    FullSsid,  \* those of 32 characters
    Number,    \* numbers for the other fields; 0 is also the open authentication
    TooMuch,   \* those out of range
    MaxBtcq,   \* jobs that fit into BTC's queue
    MaxAp,     \* bound: access points found by a scan
    MaxOps     \* bound: commands and links of the phone

ASSUME FullSsidAssumption == FullSsid \subseteq Ssid /\ "none" \notin Ssid
ASSUME NumberAssumption == TooMuch \subseteq Number /\ 0 \in Number
ASSUME BoundAssumption == MaxBtcq \in Nat \ {0} /\ MaxAp \in Nat /\ MaxOps \in Nat

VARIABLES
    mode,        \* the mode of the Wi-Fi driver
    ap_config,   \* the RAM copy that BTC edits
    softap,      \* what the driver took of it
    sent,        \* ghost: the fields as the phone sent them, when within range
    early,       \* ghost: the last field came while there was no soft-AP
    station,     \* the station: "idle", "connecting" or "up"; see BlufiStation
    scan,        \* is a scan running?
    records,     \* access points found, until they are fetched
    evq,         \* the system event queue
    handler,     \* where the event task stands
    heap,        \* the lists allocated by the handler
    btcq,        \* BTC's queue
    btc,         \* "idle", "scanning", or the job that BTC has for its own queue
    conn, adv,   \* is a phone connected, is the device advertising?
    ble_is_connected,
    asked,       \* ghost: the phone waits for a list that it can expect
    ops          \* commands used, for the bound

soft == <<ap_config, softap, sent, early>>
air  == <<station, scan, records>>
task == <<evq, handler, heap>>
link == <<conn, adv, ble_is_connected>>
vars == <<mode, soft, air, task, btcq, btc, link, asked, ops>>

Mode   == {"NULL", "STA", "AP", "APSTA"}
HasAp  == {"AP", "APSTA"}
HasSta == {"STA", "APSTA"}

Field  == {"ssid", "password", "max_connection", "authmode", "channel"}
Values == [f \in Field |-> CASE f = "ssid"     -> Ssid
                             [] f = "password" -> {"secret"}
                             [] f = "authmode" -> Number
                             [] OTHER          -> Number \ {0}]
Zeros  == [f \in Field |-> IF f \in {"ssid", "password"} THEN "none" ELSE 0]

\* A configuration of a soft-AP, in which any field may still be missing.
IsApConfig(c) ==
    /\ c = [f \in Field |-> c[f]]
    /\ \A f \in Field : c[f] \in Values[f] \cup {Zeros[f]}

Command == {[type |-> "mode", value |-> m] : m \in Mode \cup {"unknown"}}
             \cup (UNION {{[type |-> f, value |-> v] : v \in Values[f]} : f \in Field})
             \cup {[type |-> type, value |-> "none"] : type \in {"list", "answer"}}
Note(type) == [type |-> type, value |-> "none"]

\* What BTC posts to itself: GAP's advertising, and whatever answers the phone: a status,
\* an error, the end of the link.
Own     == {"start adv", "stop adv", "send answer"}
Job     == Command \cup {Note(type) : type \in Own \cup
                           {"connect", "disconnect", "send list", "send report"}}

Init ==
    /\ mode = "STA"
    /\ ap_config = Zeros /\ softap = Zeros /\ sent = Zeros /\ early = FALSE
    /\ station = "idle" /\ scan = FALSE /\ records = 0
    /\ evq = <<>> /\ handler = "idle" /\ heap = {}
    /\ btcq = <<>> /\ btc = "idle"
    /\ conn = FALSE /\ adv = TRUE /\ ble_is_connected = FALSE
    /\ asked = FALSE
    /\ ops = 0

\* An abort of ESP_ERROR_CHECK restarts the firmware, as a power cut does. The driver's soft-AP is in flash.
Restart ==
    /\ mode' = "STA"
    /\ ap_config' = Zeros /\ sent' = Zeros /\ early' = FALSE
    /\ station' = "idle" /\ scan' = FALSE /\ records' = 0
    /\ evq' = <<>> /\ handler' = "idle" /\ heap' = {}
    /\ btcq' = <<>> /\ btc' = "idle"
    /\ conn' = FALSE /\ adv' = TRUE /\ ble_is_connected' = FALSE
    /\ asked' = FALSE
    /\ UNCHANGED <<softap, ops>>

---------------------------------------------------------------------------
(* The phone and its link, as the Bluetooth host posts them to BTC.        *)

Queued(type) == \E i \in DOMAIN btcq : btcq[i].type = type

Room      == Len(btcq) < MaxBtcq
Post(job) == Room /\ btcq' = Append(btcq, job)
Phone     == /\ ops < MaxOps /\ ops' = ops + 1
             /\ UNCHANGED <<mode, soft, air, task, btc, ble_is_connected>>

\* The controller does not advertise on a link.
LinkUp   == /\ adv /\ ~conn /\ conn' = TRUE /\ adv' = FALSE
            /\ Post(Note("connect")) /\ Phone
            /\ UNCHANGED asked
\* The phone leaves, or has asked the device to close the link.
LinkDown == /\ conn /\ conn' = FALSE /\ Post(Note("disconnect")) /\ Phone
            /\ asked' = FALSE
            /\ UNCHANGED adv
Ask      == /\ conn /\ (\E c \in Command : Post(c)) /\ Phone
            /\ UNCHANGED <<conn, adv, asked>>

---------------------------------------------------------------------------
(* BTC.                                                                    *)

Waiting == handler \in {"reporting", "listed"} /\ ~Room

Ready(type) == /\ btc = "idle" /\ (handler = "idle" \/ Waiting)
               /\ btcq # <<>> /\ Head(btcq).type = type
Take(type)  == Ready(type) /\ btcq' = Tail(btcq)

\* The end of a callback that calls esp_blufi_adv_start, esp_blufi_adv_stop,
\* esp_blufi_send_wifi_conn_report, esp_blufi_send_error_info or esp_blufi_disconnect:
\* BTC itself waits when its queue is full.
BtcPost ==
    /\ btc \in Own /\ handler = "idle"
    /\ Post(Note(btc))
    /\ btc' = "idle"
    /\ UNCHANGED <<mode, soft, air, task, link, asked, ops>>

BleLink ==
    /\ \/ /\ Take("connect")
          /\ ble_is_connected' = TRUE /\ btc' = "stop adv"
       \/ /\ Take("disconnect")
          /\ ble_is_connected' = FALSE /\ btc' = "start adv"
    /\ UNCHANGED <<mode, soft, air, task, conn, adv, asked, ops>>

\* GET_WIFI_STATUS, REPORT_ERROR and RECV_SLAVE_DISCONNECT_BLE.
Answer ==
    /\ Take("answer")
    /\ btc' = "send answer"
    /\ UNCHANGED <<mode, soft, air, task, link, asked, ops>>

\* BTC comes to what it has posted to itself.
RunOwn ==
    /\ \/ Take("start adv") /\ adv' = TRUE
       \/ Take("stop adv") /\ adv' = FALSE
       \/ Take("send answer") /\ UNCHANGED adv
    /\ UNCHANGED <<mode, soft, air, task, btc, conn, ble_is_connected, asked, ops>>

\* The soft-AP starts, the station stops with its interface.
SetWifiOpmode ==
    /\ Take("mode") /\ Head(btcq).value \in Mode
    /\ mode' = Head(btcq).value
    /\ evq' = IF mode' \in HasAp /\ mode \notin HasAp THEN Append(evq, "REPORT")
              ELSE evq
    /\ station' = IF mode' \in HasSta THEN station ELSE "idle"
    /\ UNCHANGED <<soft, scan, records, handler, heap, btc, link, asked, ops>>

SetWifiOpmodeAborts ==
    /\ Ready("mode") /\ Head(btcq).value \notin Mode
    /\ Restart

\* What the driver takes for a soft-AP: authentication needs a password.
Sensible(c) == c["authmode"] # 0 => c["password"] # "none"

\* Refused without a soft-AP in the mode, and perhaps without a name; the callers do
\* not look.
esp_wifi_set_config(c) ==
    \/ /\ mode \in HasAp /\ Sensible(c)
       /\ softap' = c
    \/ /\ mode \notin HasAp \/ ~Sensible(c) \/ c["ssid"] = "none"
       /\ UNCHANGED softap

InRange(job) ==
    ~(job.type \in {"max_connection", "authmode", "channel"} /\ job.value \in TooMuch)

\* The terminator of a full SSID lands on the first byte of the password.
With(c, job) ==
    [f \in Field |->
        CASE f = job.type -> job.value
          [] f = "password" /\ job.type = "ssid" /\ job.value \in FullSsid -> "none"
          [] OTHER -> c[f]]

RecvSoftApOne ==       \* mutant: only the new field is passed on
    \E f \in Field :
      /\ Take(f) /\ InRange(Head(btcq))
      /\ ap_config' = With(ap_config, Head(btcq))
      /\ esp_wifi_set_config([softap EXCEPT ![f] = ap_config'[f]])
      /\ sent' = [sent EXCEPT ![f] = Head(btcq).value]
      /\ early' = (mode \notin HasAp)
      /\ UNCHANGED <<mode, air, task, btc, link, asked, ops>>

\* Every field is written to the driver with the whole RAM copy.
RecvSoftAp ==
    \E f \in Field :
      /\ Take(f) /\ InRange(Head(btcq))
      /\ ap_config' = With(ap_config, Head(btcq))
      /\ esp_wifi_set_config(ap_config')
      /\ sent' = [sent EXCEPT ![f] = Head(btcq).value]
      /\ early' = (mode \notin HasAp)
      /\ UNCHANGED <<mode, air, task, btc, link, asked, ops>>

RecvSoftApOutOfRange ==
    \E f \in Field :
      /\ Take(f) /\ ~InRange(Head(btcq))
      /\ UNCHANGED <<mode, soft, air, task, btc, link, asked, ops>>

\* esp_wifi_scan_start waits for the end of the scan, or is refused: without a station,
\* and while it is connecting; what it returns is not looked at.
GetWifiList ==
    /\ Take("list")
    /\ \/ /\ mode \in HasSta /\ station # "connecting"
          /\ scan' = TRUE /\ records' = 0
          /\ btc' = "scanning"
          /\ asked' = (conn /\ ~Queued("disconnect"))
       \/ /\ ~(mode \in HasSta /\ station # "connecting")
          /\ UNCHANGED <<scan, records, btc, asked>>
    /\ UNCHANGED <<mode, soft, station, task, link, ops>>

\* What the event task had for the phone; there may be none any more.
SendWifiList ==
    /\ Take("send list")
    /\ asked' = FALSE
    /\ UNCHANGED <<mode, soft, air, task, btc, link, ops>>

SendConnReport ==
    /\ Take("send report")
    /\ UNCHANGED <<mode, soft, air, task, btc, link, asked, ops>>

---------------------------------------------------------------------------
(* The Wi-Fi driver.                                                       *)

\* The end of a scan: an event, and BTC goes on. The phone cannot expect a list when
\* nothing was found.
EndScan(n) ==
    /\ scan' = FALSE /\ records' = n
    /\ evq' = Append(evq, "SCAN_DONE")
    /\ btc' = "idle"
    /\ asked' = (asked /\ n # 0)

ScanDoneHeld ==        \* mutant: BTC waits for the handler to finish, too
    /\ scan /\ \E n \in 0..MaxAp : records' = n /\ asked' = (asked /\ n # 0)
    /\ scan' = FALSE
    /\ evq' = Append(evq, "SCAN_DONE")
    /\ UNCHANGED <<mode, soft, station, handler, heap, btcq, btc, link, ops>>

ScanDone ==
    /\ scan /\ \E n \in 0..MaxAp : EndScan(n)
    /\ UNCHANGED <<mode, soft, station, handler, heap, btcq, link, ops>>

\* Whatever BlufiStation does with the station ...
StationChanges ==
    /\ mode \in HasSta
    /\ station' \in {"idle", "connecting", "up"} \ {station}
    /\ UNCHANGED <<mode, soft, scan, records, task, btcq, btc, link, asked, ops>>

\* ... and an address that it gets.
GotIp ==
    /\ station = "up" /\ ops < MaxOps /\ ops' = ops + 1
    /\ evq' = Append(evq, "REPORT")
    /\ UNCHANGED <<mode, soft, air, handler, heap, btcq, btc, link, asked>>

---------------------------------------------------------------------------
(* The system event task.                                                  *)

Pending(type) ==
    /\ handler = "idle" /\ evq # <<>> /\ Head(evq) = type
    /\ evq' = Tail(evq)

\* AP_START and GOT_IP report to the phone that is there, when they look ...
Report ==
    /\ Pending("REPORT")
    /\ handler' = IF ble_is_connected THEN "reporting" ELSE "idle"
    /\ UNCHANGED <<mode, soft, air, heap, btcq, btc, link, asked, ops>>

\* ... and may have to wait for room.
ReportSend ==
    /\ handler = "reporting"
    /\ Post(Note("send report"))
    /\ handler' = "idle"
    /\ UNCHANGED <<mode, soft, air, evq, heap, btc, link, asked, ops>>

ScanEmpty ==
    /\ Pending("SCAN_DONE") /\ records = 0
    /\ UNCHANGED <<mode, soft, air, handler, heap, btcq, btc, link, asked, ops>>

\* Wi-Fi was turned off after the scan: ESP_ERROR_CHECK of the list aborts.
ScanAborts ==
    /\ handler = "idle" /\ evq # <<>> /\ Head(evq) = "SCAN_DONE"
    /\ records # 0 /\ mode = "NULL"
    /\ Restart

ScanNoMemoryLeak ==    \* mutant: the first list is kept when the second fails
    /\ Pending("SCAN_DONE") /\ records # 0
    /\ asked' = FALSE
    /\ \/ UNCHANGED <<records, heap>>
       \/ mode # "NULL" /\ records' = 0 /\ heap' = heap \cup {"ap_list"}
    /\ UNCHANGED <<mode, soft, station, scan, handler, btcq, btc, link, ops>>

\* There is no memory for the first list, or for the second.
ScanNoMemory ==
    /\ Pending("SCAN_DONE") /\ records # 0
    /\ asked' = FALSE
    /\ \/ UNCHANGED records
       \/ mode # "NULL" /\ records' = 0
    /\ UNCHANGED <<mode, soft, station, scan, handler, heap, btcq, btc, link, ops>>

ScanListUnlessUp ==    \* mutant: the condition of the report of AP_START
    /\ Pending("SCAN_DONE") /\ records # 0 /\ mode # "NULL"
    /\ records' = 0
    /\ heap' = {"ap_list", "blufi_ap_list"}
    /\ handler' = IF ble_is_connected /\ station # "up" THEN "listed" ELSE "sent"
    /\ UNCHANGED <<mode, soft, station, scan, btcq, btc, link, asked, ops>>

\* It looks whether there is a phone for the list ...
ScanList ==
    /\ Pending("SCAN_DONE") /\ records # 0 /\ mode # "NULL"
    /\ records' = 0
    /\ heap' = {"ap_list", "blufi_ap_list"}
    /\ handler' = IF ble_is_connected THEN "listed" ELSE "sent"
    /\ UNCHANGED <<mode, soft, station, scan, btcq, btc, link, asked, ops>>

ScanSendOverfull ==    \* mutant: without regard to the room in the queue
    /\ handler = "listed"
    /\ btcq' = Append(btcq, Note("send list"))
    /\ handler' = "sent"
    /\ UNCHANGED <<mode, soft, air, evq, heap, btc, link, asked, ops>>

\* ... and esp_blufi_send_wifi_list may have to wait for room.
ScanSend ==
    /\ handler = "listed"
    /\ Post(Note("send list"))
    /\ handler' = "sent"
    /\ UNCHANGED <<mode, soft, air, evq, heap, btc, link, asked, ops>>

\* esp_wifi_scan_stop ends the next scan when BTC has started one meanwhile.
ScanStop ==
    /\ handler = "sent"
    /\ IF scan THEN \E n \in 0..MaxAp : EndScan(n)
       ELSE UNCHANGED <<scan, records, evq, btc, asked>>
    /\ heap' = {}
    /\ handler' = "idle"
    /\ UNCHANGED <<mode, soft, station, btcq, link, ops>>

---------------------------------------------------------------------------
Btc       == \/ BtcPost \/ RunOwn \/ BleLink \/ Answer
             \/ SetWifiOpmode \/ SetWifiOpmodeAborts
             \/ RecvSoftAp \/ RecvSoftApOutOfRange
             \/ GetWifiList \/ SendWifiList \/ SendConnReport
EventTask == \/ Report \/ ReportSend \/ ScanEmpty \/ ScanAborts \/ ScanNoMemory \/ ScanList
             \/ ScanSend \/ ScanStop
Host      == LinkUp \/ LinkDown \/ Ask

Next == Host \/ Btc \/ ScanDone \/ StationChanges \/ GotIp \/ EventTask \/ Restart

Spec == Init /\ [][Next]_vars

\* The tasks go on when they can, and a scan comes to its end.
FairSpec == Spec /\ WF_vars(Btc) /\ WF_vars(EventTask) /\ WF_vars(ScanDone)

---------------------------------------------------------------------------
TypeOK ==
    /\ mode \in Mode
    /\ IsApConfig(ap_config) /\ IsApConfig(softap) /\ IsApConfig(sent)
    /\ early \in BOOLEAN
    /\ station \in {"idle", "connecting", "up"} /\ scan \in BOOLEAN
    /\ records \in 0..MaxAp
    /\ evq \in Seq({"REPORT", "SCAN_DONE"})
    /\ handler \in {"idle", "reporting", "listed", "sent"}
    /\ heap \subseteq {"ap_list", "blufi_ap_list"}
    /\ btcq \in Seq(Job) /\ Len(btcq) <= MaxBtcq
    /\ btc \in {"idle", "scanning"} \cup Own
    /\ conn \in BOOLEAN /\ adv \in BOOLEAN /\ ble_is_connected \in BOOLEAN /\ asked \in BOOLEAN
    /\ ops \in 0..MaxOps

\* Both lists are freed on every way out of the handler of a scan, and BTC waits only
\* for a scan that runs (user_blufi.c:129-166, 324-333).
NothingLeftBehind ==
    /\ heap = (IF handler \in {"idle", "reporting"} THEN {} ELSE {"ap_list", "blufi_ap_list"})
    /\ btc = "scanning" <=> scan

\* The soft-AP is what the phone described, in whatever order its fields came and
\* whichever of them the driver refused by themselves, once they make sense together;
\* except for fields that came before the mode, and for a password that the terminator
\* of a later name has cut off (user_blufi.c:287-323).
SoftApAsSent ==
    (~early /\ sent["ssid"] \in Ssid /\ Sensible(sent)
       /\ ap_config["password"] = sent["password"]) => softap = sent

\* A phone that waits for the list is still there, also for BTC, and what will bring the
\* list is under way: the scan, its event with what it found, the handler, or the list
\* itself, whatever the tasks do meanwhile (user_blufi.c:129-166, 324-333).
ListOnItsWay ==
    asked =>
      /\ conn /\ ble_is_connected /\ ~Queued("disconnect")
      /\ \/ scan
         \/ records # 0 /\ \E i \in DOMAIN evq : evq[i] = "SCAN_DONE"
         \/ handler = "listed"
         \/ Queued("send list")

Quiet == btcq = <<>> /\ evq = <<>> /\ handler = "idle" /\ btc = "idle"

\* BTC waits for room in the queue that nobody but BTC empties.
Stuck == btc \in Own /\ ~Room

\* There is one way only to wait for ever: BTC's callback finds the queue of BTC itself
\* full.  Otherwise BTC gets to the end of its queue and the event task to the end of its
\* own, although each may wait for the other and BTC for a scan (user_blufi.c:76,
\* 119-124, 157, 205-220, 240, 254-256, 264, 331).
Settles == <>[](Quiet \/ Stuck)

\* A phone that asked for the list, and stays, gets one whenever a scan has found
\* something and there is memory for it (user_blufi.c:129-166).
ListArrives == asked ~> ~asked
=============================================================================
