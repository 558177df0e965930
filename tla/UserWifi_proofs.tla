-------------------------- MODULE UserWifi_proofs --------------------------
(***************************************************************************)
(* Proofs about UserWifi, for every set of access points and passwords and *)
(* for every bound: the type invariant, that a power cut leaves no half    *)
(* pair behind the marker, that the station uses what is stored, that its  *)
(* next attempt is never lost, and that neither is a wake-up of the main   *)
(* task.                                                                   *)
(***************************************************************************)
EXTENDS UserWifi, TLAPS

USE NoneAssumption, PasswdAssumption, BuiltInAssumption, BoundAssumption

---------------------------------------------------------------------------
(* The inductive invariant.                                                *)

\* Before esp_wifi_start nothing else moves.
Booting == main \in {"boot", "passwd", "mark", "sta"}
Quiet ==
    /\ Booting => /\ evq = <<>> /\ ev = "idle" /\ link = "idle" /\ config = NoConf
                  /\ dhcp = "off" /\ sc = "off"
    /\ ~Booting => config \in Conf

\* The update of NVS: the marker comes last.
Updating ==
    /\ main = "passwd" => ~nvs.mark /\ nvs.ssid = BuiltIn.ssid
    /\ main = "mark" => /\ ~nvs.mark
                        /\ nvs.ssid = BuiltIn.ssid /\ nvs.passwd = BuiltIn.passwd

\* What is stored and what waits to be stored is what was given.
Storable ==
    /\ nvs.ssid \notin FullSsid
    /\ \A i \in DOMAIN evq : evq[i].type = "GOT_SSID_PSWD" => evq[i].conf \in Conf
    /\ ev = "passwd" => /\ evq # <<>> /\ Head(evq).type = "GOT_SSID_PSWD"
                        /\ nvs.ssid = AsStored(Head(evq).conf.ssid)

\* The driver has what is stored, unless a phone's pair is being stored.
ConfigStored ==
    /\ (config # NoConf /\ ev = "idle") =>
          nvs.ssid = AsStored(config.ssid) /\ nvs.passwd = config.passwd
    /\ link # "idle" => using = config

IInv == /\ TypeOK /\ Quiet /\ Updating /\ Storable
        /\ MarkedPairIsWhole /\ ConfigStored /\ NoLostReconnect

---------------------------------------------------------------------------
(* The data.                                                               *)

LEMMA PairsTyped ==
    /\ NoConf \notin Conf
    /\ \A c \in Conf : /\ c.ssid \in AP /\ c.passwd \in Passwd /\ c # NoConf
                       /\ c.bssid \in AP \cup {None}
                       /\ c = [ssid |-> c.ssid, passwd |-> c.passwd, bssid |-> c.bssid]
                       /\ PairOf(c) \in Pair
                       /\ PairOf(c).ssid = c.ssid /\ PairOf(c).passwd = c.passwd
    /\ \A p \in Pair : p.ssid \in AP /\ p.passwd \in Passwd
    /\ BuiltIn.ssid \in AP /\ BuiltIn.passwd \in Passwd
    /\ Blank \in Nvs /\ Blank.mark = FALSE /\ Blank.ssid = None
    /\ None \notin FullSsid /\ Overlong \notin FullSsid
BY DEF Pair, Conf, PairOf, NoConf, Blank, Nvs

LEMMA StoredTyped ==
    \A s \in AP \cup {None} :
        /\ AsStored(s) \in AP \cup {None, Overlong}
        /\ AsStored(s) \notin FullSsid
        /\ s \notin FullSsid => AsStored(s) = s
BY PairsTyped DEF AsStored

LEMMA NvsTyped ==
    \A n \in Nvs :
        /\ n.ssid \in AP \cup {None, Overlong} /\ n.passwd \in Passwd \cup {None}
        /\ n.mark \in BOOLEAN
        /\ \A s \in AP \cup {None, Overlong} :
              /\ [n EXCEPT !.ssid = s] \in Nvs
              /\ [n EXCEPT !.ssid = s].ssid = s
              /\ [n EXCEPT !.ssid = s].passwd = n.passwd
              /\ [n EXCEPT !.ssid = s].mark = n.mark
        /\ \A p \in Passwd \cup {None} :
              /\ [n EXCEPT !.passwd = p] \in Nvs
              /\ [n EXCEPT !.passwd = p].ssid = n.ssid
              /\ [n EXCEPT !.passwd = p].passwd = p
              /\ [n EXCEPT !.passwd = p].mark = n.mark
        /\ [n EXCEPT !.mark = TRUE] \in Nvs
        /\ [n EXCEPT !.mark = TRUE].ssid = n.ssid
        /\ [n EXCEPT !.mark = TRUE].passwd = n.passwd
        /\ [n EXCEPT !.mark = TRUE].mark = TRUE
BY DEF Nvs

LEMMA EventsTyped ==
    /\ \A t \in {"STA_START", "STA_CONNECTED", "STA_DISCONNECTED", "GOT_IP",
                 "SEND_ACK_DONE"} :
          Ev(t) \in Event /\ Ev(t).type = t
    /\ \A c \in Conf : /\ Got(c) \in Event /\ Got(c).conf = c
                       /\ Got(c).type = "GOT_SSID_PSWD"
    /\ \A e \in Event : e.conf \in Conf \cup {NoConf}
BY DEF Ev, Got, Event

\* An event at the end of the queue leaves those before it where they are.
LEMMA Appended ==
    ASSUME NEW q \in Seq(Event), NEW e \in Event
    PROVE  /\ Append(q, e) \in Seq(Event)
           /\ DOMAIN q \subseteq DOMAIN Append(q, e)
           /\ \A i \in DOMAIN q : Append(q, e)[i] = q[i]
           /\ \A i \in DOMAIN Append(q, e) : i \in DOMAIN q \/ Append(q, e)[i] = e
           /\ \E i \in DOMAIN Append(q, e) : Append(q, e)[i] = e
           /\ q # <<>> => Append(q, e) # <<>> /\ Head(Append(q, e)) = Head(q)
<1>1. DOMAIN q = 1..Len(q) /\ DOMAIN Append(q, e) = 1..(Len(q) + 1)
  OBVIOUS
<1>2. Len(q) + 1 \in DOMAIN Append(q, e) /\ Append(q, e)[Len(q) + 1] = e
  BY <1>1
<1>3. \A i \in DOMAIN q : Append(q, e)[i] = q[i]
  OBVIOUS
<1>4. \A i \in DOMAIN Append(q, e) : i \in DOMAIN q \/ Append(q, e)[i] = e
  BY <1>1, <1>2
<1>5. q # <<>> => Append(q, e) # <<>> /\ Head(Append(q, e)) = Head(q)
  OBVIOUS
<1> QED
  BY <1>1, <1>2, <1>3, <1>4, <1>5

\* The events behind the head stay.
LEMMA Behind ==
    ASSUME NEW q \in Seq(Event), q # <<>>
    PROVE  /\ Head(q) \in Event /\ Tail(q) \in Seq(Event)
           /\ 1 \in DOMAIN q /\ Head(q) = q[1]
           /\ \A i \in DOMAIN Tail(q) : i + 1 \in DOMAIN q /\ Tail(q)[i] = q[i + 1]
           /\ \A i \in DOMAIN q : i # 1 => i - 1 \in DOMAIN Tail(q)
                                           /\ Tail(q)[i - 1] = q[i]
<1>1. DOMAIN q = 1..Len(q) /\ DOMAIN Tail(q) = 1..(Len(q) - 1) /\ Len(q) # 0
  OBVIOUS
<1> QED
  BY <1>1

---------------------------------------------------------------------------
(* Typing.                                                                 *)

LEMMA ConnectStep ==
    ASSUME TypeOK, esp_wifi_connect
    PROVE  /\ link' \in {"connecting", "up"}
           /\ using' \in Conf \cup {NoConf}
           /\ link # "idle" => link' = link /\ using' = using
           /\ link = "idle" => using' = config
BY DEF TypeOK, esp_wifi_connect

LEMMA WokenTyped ==
    ASSUME TypeOK, NEW bit \in Bit
    PROVE  /\ Woken(bit) \in {main, "connected", "failed", "sc_stop"}
           /\ Set(bit) \subseteq Bit
BY DEF TypeOK, Woken, Set

\* The event task only moves the main task out of a wait.
LEMMA WaitStep ==
    ASSUME TypeOK,
           \/ \E bit \in Bit : SetBits(bit)
           \/ CountFailure
           \/ UNCHANGED wait
    PROVE  /\ main' \in {main, "connected", "failed", "sc_stop"}
           /\ bits' \subseteq Bit
           /\ group' \in {"live", "deleted", "misused"}
<1>1. CASE \E bit \in Bit : SetBits(bit)
  <2>1. PICK bit \in Bit : SetBits(bit)
    BY <1>1
  <2> QED
    BY <2>1, WokenTyped DEF SetBits, Misuse, TypeOK
<1>2. CASE CountFailure
  <2>1. Woken("FAIL") \in {main, "connected", "failed", "sc_stop"}
        /\ Set("FAIL") \subseteq Bit
    BY WokenTyped DEF Bit
  <2> QED
    BY <1>2, <2>1 DEF CountFailure, Misuse, TypeOK
<1>3. CASE UNCHANGED wait
  BY <1>3 DEF wait, TypeOK
<1> QED
  BY <1>1, <1>2, <1>3

LEMMA RetriedTyped == TypeOK => Retried \in 0..(MaxRetry + 1)
BY DEF TypeOK, Retried

LEMMA MainTyped == TypeOK /\ Main => TypeOK'
<1> SUFFICES ASSUME TypeOK, Main PROVE TypeOK'
  OBVIOUS
<1>1. nvs \in Nvs
  BY DEF TypeOK
<1>2. CASE NeedNotUpdate
  BY <1>2 DEF NeedNotUpdate, GoTo, Elsewhere, TypeOK, stored, driver
<1>3. CASE UpdateSsid
  <2>1. nvs' \in Nvs
    BY <1>1, <1>3, NvsTyped, PairsTyped DEF UpdateSsid
  <2> QED
    BY <1>3, <2>1 DEF UpdateSsid, GoTo, Elsewhere, TypeOK, driver
<1>4. CASE UpdatePasswd
  <2>1. nvs' \in Nvs
    BY <1>1, <1>4, NvsTyped, PairsTyped DEF UpdatePasswd
  <2> QED
    BY <1>4, <2>1 DEF UpdatePasswd, GoTo, Elsewhere, TypeOK, driver
<1>5. CASE UpdateMark
  <2>1. nvs' \in Nvs
    BY <1>1, <1>5, NvsTyped DEF UpdateMark
  <2> QED
    BY <1>5, <2>1 DEF UpdateMark, GoTo, Elsewhere, TypeOK, driver
<1>6. CASE InitSta
  <2>1. config' \in Conf
    BY <1>6 DEF InitSta, Readable, FromNvs, Conf
  <2>2. evq' \in Seq(Event)
    BY <1>6, EventsTyped DEF InitSta, TypeOK
  <2> QED
    BY <1>6, <2>1, <2>2 DEF InitSta, GoTo, TypeOK, stored
<1>7. CASE InitStaAborts
  BY <1>7 DEF InitStaAborts, Reset, TypeOK
<1>8. CASE Wait
  BY <1>8 DEF Wait, GoTo, Elsewhere, TypeOK, stored, driver
<1>9. CASE DeleteGroup
  BY <1>9 DEF DeleteGroup, Elsewhere, TypeOK, stored, driver
<1>10. CASE SmartConfigStart
  BY <1>10 DEF SmartConfigStart, TypeOK, stored, driver
<1>11. CASE SmartConfigStop
  BY <1>11 DEF SmartConfigStop, GoTo, TypeOK, stored, driver
<1> QED
  BY <1>2, <1>3, <1>4, <1>5, <1>6, <1>7, <1>8, <1>9, <1>10, <1>11 DEF Main

LEMMA EventTaskTyped == TypeOK /\ Storable /\ EventTask => TypeOK'
<1> SUFFICES ASSUME TypeOK, Storable, EventTask PROVE TypeOK'
  OBVIOUS
<1>1. evq # <<>> /\ Head(evq) \in Event /\ Tail(evq) \in Seq(Event)
  <2>1. evq # <<>>
    BY DEF EventTask, StaStart, StaConnected, StaDisconnected, StaGotIp, GotSsid,
           GotPasswd, SendAckDone, Pending, Storable
  <2> QED
    BY <2>1 DEF TypeOK
<1>2. nvs \in Nvs /\ retry_num \in 0..(MaxRetry + 1)
  BY DEF TypeOK
<1>3. CASE StaStart
  BY <1>1, <1>3, ConnectStep DEF StaStart, TypeOK, stored, wait
<1>4. CASE StaConnected
  BY <1>1, <1>4 DEF StaConnected, TypeOK, stored, wait, driver
<1>5. CASE StaDisconnected
  <2>1. main' \in {main, "connected", "failed", "sc_stop"} /\ bits' \subseteq Bit
        /\ group' \in {"live", "deleted", "misused"}
    BY <1>5, WaitStep DEF StaDisconnected
  <2>2. link' \in {"connecting", "up"} /\ using' \in Conf \cup {NoConf}
    BY <1>5, ConnectStep DEF StaDisconnected
  <2>3. retry_num' \in 0..(MaxRetry + 1)
    BY <1>5, RetriedTyped DEF StaDisconnected
  <2> QED
    BY <1>1, <1>5, <2>1, <2>2, <2>3 DEF StaDisconnected, TypeOK, stored
<1>6. CASE StaGotIp
  <2>1. main' \in {main, "connected", "failed", "sc_stop"} /\ bits' \subseteq Bit
        /\ group' \in {"live", "deleted", "misused"}
    BY <1>6, WaitStep DEF StaGotIp, Bit
  <2> QED
    BY <1>1, <1>6, <2>1 DEF StaGotIp, TypeOK, stored, driver
<1>7. CASE GotSsid
  <2>1. Head(evq).conf \in Conf
    BY <1>1, <1>7, Behind DEF GotSsid, Pending, Storable, TypeOK
  <2>2. nvs' \in Nvs
    BY <1>2, <1>7, <2>1, NvsTyped, PairsTyped, StoredTyped DEF GotSsid
  <2> QED
    BY <1>7, <2>2 DEF GotSsid, TypeOK, wait, driver
<1>8. CASE GotPasswd
  <2>1. Head(evq).conf \in Conf
    BY <1>1, <1>8, Behind DEF GotPasswd, Storable, TypeOK
  <2>2. nvs' \in Nvs
    BY <1>2, <1>8, <2>1, NvsTyped, PairsTyped DEF GotPasswd
  <2>3. evq' \in Seq(Event)
    BY <1>1, <1>8, EventsTyped DEF GotPasswd
  <2>4. given' \in Pair /\ torn' \in BOOLEAN /\ config' \in Conf /\ using' \in Conf
        /\ link' = "connecting" /\ ev' = "idle"
    BY <1>8, <2>1, PairsTyped DEF GotPasswd
  <2> QED
    BY <1>8, <2>2, <2>3, <2>4 DEF GotPasswd, TypeOK, wait
<1>9. CASE SendAckDone
  <2>1. main' \in {main, "connected", "failed", "sc_stop"} /\ bits' \subseteq Bit
        /\ group' \in {"live", "deleted", "misused"}
    BY <1>9, WaitStep DEF SendAckDone, Bit
  <2> QED
    BY <1>1, <1>9, <2>1 DEF SendAckDone, TypeOK, stored, driver
<1> QED
  BY <1>3, <1>4, <1>5, <1>6, <1>7, <1>8, <1>9 DEF EventTask

LEMMA OthersTyped ==
    TypeOK /\ (Driver \/ NvsErase \/ Offer \/ Acknowledge \/ AirChanges \/ PowerCut)
      => TypeOK'
<1> SUFFICES ASSUME TypeOK,
                    Driver \/ NvsErase \/ Offer \/ Acknowledge \/ AirChanges \/ PowerCut
             PROVE  TypeOK'
  OBVIOUS
<1>1. CASE Associate \/ AttemptFails \/ LinkLost
  <2>1. evq' \in Seq(Event)
    <3>1. evq' \in {Append(evq, Ev("STA_CONNECTED")), Append(evq, Ev("STA_DISCONNECTED"))}
      BY <1>1 DEF Associate, AttemptFails, LinkLost, Post
    <3>2. Ev("STA_CONNECTED") \in Event /\ Ev("STA_DISCONNECTED") \in Event
      BY EventsTyped
    <3>3. evq \in Seq(Event)
      BY DEF TypeOK
    <3> HIDE DEF Event
    <3> QED
      BY <3>1, <3>2, <3>3, Appended
  <2> QED
    BY <1>1, <2>1
    DEF Associate, AttemptFails, LinkLost, Around, TypeOK, stored, wait
<1>2. CASE DhcpAck
  BY <1>2 DEF DhcpAck, Around, TypeOK, stored, wait
<1>3. CASE PostGotIp
  <2>1. evq' \in Seq(Event)
    BY <1>3, EventsTyped DEF PostGotIp, TypeOK
  <2> QED
    BY <1>3, <2>1 DEF PostGotIp, Around, TypeOK, stored, wait
<1>4. CASE NvsErase
  BY <1>4, PairsTyped DEF NvsErase, Elsewhere, TypeOK, wait, driver
<1>5. CASE Offer
  <2>1. evq' \in Seq(Event)
    BY <1>5, EventsTyped DEF Offer, Post, TypeOK
  <2> QED
    BY <1>5, <2>1 DEF Offer, Around, TypeOK, stored, wait
<1>6. CASE Acknowledge
  <2>1. evq' \in Seq(Event)
    BY <1>6, EventsTyped DEF Acknowledge, Post, TypeOK
  <2> QED
    BY <1>6, <2>1 DEF Acknowledge, Around, TypeOK, stored, wait
<1>7. CASE AirChanges
  BY <1>7 DEF AirChanges, TypeOK, stored, wait, driver
<1>8. CASE PowerCut
  <2>1. cuts' \in 0..MaxCuts
    BY <1>8 DEF PowerCut, TypeOK
  <2>2. Reset
    BY <1>8 DEF PowerCut
  <2>3. torn' \in BOOLEAN
    BY <2>2 DEF Reset, TypeOK
  <2>4. retry_num' \in 0..(MaxRetry + 1) /\ evq' \in Seq(Event)
    BY <2>2 DEF Reset
  <2> QED
    BY <2>1, <2>2, <2>3, <2>4 DEF Reset, TypeOK
<1> QED
  BY <1>1, <1>2, <1>3, <1>4, <1>5, <1>6, <1>7, <1>8 DEF Driver

LEMMA TypeStep == TypeOK /\ Storable /\ [Next]_vars => TypeOK'
<1> SUFFICES ASSUME TypeOK, Storable, [Next]_vars PROVE TypeOK'
  OBVIOUS
<1>1. CASE Next
  BY <1>1, MainTyped, EventTaskTyped, OthersTyped DEF Next
<1>2. CASE UNCHANGED vars
  BY <1>2 DEF vars, stored, wait, driver, TypeOK
<1> QED
  BY <1>1, <1>2

---------------------------------------------------------------------------
(* What the steps of each part have in common.                             *)

\* Of the driver, the phones and the access points: they append an event at most, and
\* need something that is not there while booting.
LEMMA AroundStep ==
    ASSUME TypeOK, Quiet, Associate \/ AttemptFails \/ LinkLost \/ DhcpAck \/ PostGotIp
                            \/ Offer \/ Acknowledge
    PROVE  /\ ~Booting
           /\ UNCHANGED <<stored, wait, ev, retry_num, config, using, air, cuts>>
           /\ \/ evq' = evq
              \/ \E e \in Event : /\ e.type = "GOT_SSID_PSWD" => e.conf \in Conf
                                  /\ evq' = Append(evq, e)
           /\ \/ link' = link
              \/ link = "connecting" /\ link' = "up"
              \/ /\ link \in {"connecting", "up"} /\ link' = "idle"
                 /\ evq' = Append(evq, Ev("STA_DISCONNECTED"))
<1>1. CASE Associate \/ AttemptFails \/ LinkLost
  BY <1>1, EventsTyped
  DEF Associate, AttemptFails, LinkLost, Post, Around, Quiet, TypeOK
<1>2. CASE DhcpAck \/ PostGotIp \/ Acknowledge
  BY <1>2, EventsTyped DEF DhcpAck, PostGotIp, Acknowledge, Post, Around, Quiet
<1>3. CASE Offer
  BY <1>3, EventsTyped DEF Offer, Post, Around, Quiet
<1> QED
  BY <1>1, <1>2, <1>3

\* Of the event task, but for a phone's pair: one event is taken, and only a
\* disconnection or the start makes the driver move.
Handled ==
    \/ StaStart \/ StaConnected \/ StaDisconnected \/ StaGotIp \/ SendAckDone

LEMMA HandledStep ==
    ASSUME TypeOK, Quiet, Handled
    PROVE  /\ ~Booting /\ ev = "idle" /\ ev' = ev
           /\ UNCHANGED <<stored, config, air, cuts>>
           /\ main' \in {main, "connected", "failed", "sc_stop"}
           /\ evq # <<>> /\ evq' = Tail(evq)
           /\ \/ UNCHANGED <<link, using>>
              \/ link = "idle" /\ link' = "connecting" /\ using' = config
           /\ Head(evq).type \in {"STA_START", "STA_DISCONNECTED"} => link' # "idle"
<1>1. CASE StaStart
  BY <1>1 DEF StaStart, Pending, esp_wifi_connect, wait, Quiet, TypeOK
<1>2. CASE StaConnected
  BY <1>2 DEF StaConnected, Pending, wait, driver, Quiet
<1>3. CASE StaDisconnected
  <2>1. main' \in {main, "connected", "failed", "sc_stop"}
    BY <1>3, WaitStep DEF StaDisconnected
  <2> QED
    BY <1>3, <2>1 DEF StaDisconnected, Pending, esp_wifi_connect, Quiet, TypeOK
<1>4. CASE StaGotIp
  <2>1. main' \in {main, "connected", "failed", "sc_stop"}
    BY <1>4, WaitStep DEF StaGotIp, Bit
  <2> QED
    BY <1>4, <2>1 DEF StaGotIp, Pending, driver, Quiet
<1>5. CASE SendAckDone
  <2>1. main' \in {main, "connected", "failed", "sc_stop"}
    BY <1>5, WaitStep DEF SendAckDone, Bit
  <2> QED
    BY <1>5, <2>1 DEF SendAckDone, Pending, driver, Quiet
<1> QED
  BY <1>1, <1>2, <1>3, <1>4, <1>5 DEF Handled

\* Of a phone's pair.
LEMMA GotStep ==
    ASSUME TypeOK, Quiet, Storable, GotSsid \/ GotPasswd
    PROVE  /\ ~Booting /\ evq # <<>> /\ Head(evq).conf \in Conf
           /\ Head(evq).type = "GOT_SSID_PSWD"
<1>1. evq # <<>> /\ Head(evq).type = "GOT_SSID_PSWD"
  BY DEF GotSsid, GotPasswd, Pending, Storable
<1> QED
  BY <1>1, Behind DEF Storable, Quiet, TypeOK

\* Of the main task behind esp_wifi_start.
Later == \/ Wait \/ DeleteGroup \/ SmartConfigStart \/ SmartConfigStop

LEMMA LaterStep ==
    ASSUME TypeOK, Later
    PROVE  /\ ~Booting /\ ~Booting'
           /\ UNCHANGED <<stored, ev, evq, driver>>
BY DEF Later, Wait, DeleteGroup, SmartConfigStart, SmartConfigStop, GoTo, At, Elsewhere,
       Booting, TypeOK

\* Of a boot that goes on, up to wifi_init_sta.
Update == \/ NvsErase \/ NeedNotUpdate \/ UpdateSsid \/ UpdatePasswd \/ UpdateMark

LEMMA UpdateStep ==
    ASSUME Update
    PROVE  /\ Booting /\ Booting'
           /\ UNCHANGED <<ev, evq, driver, dhcp, sc>>
BY DEF Update, NvsErase, NeedNotUpdate, UpdateSsid, UpdatePasswd, UpdateMark, GoTo, At,
       Elsewhere, Booting, wait

LEMMA ResetStep ==
    ASSUME PowerCut \/ InitStaAborts
    PROVE  Reset
BY DEF PowerCut, InitStaAborts

LEMMA NextSplit ==
    Next => \/ Update \/ InitSta \/ Later \/ Handled \/ GotSsid \/ GotPasswd
            \/ Associate \/ AttemptFails \/ LinkLost \/ DhcpAck \/ PostGotIp
            \/ Offer \/ Acknowledge
            \/ AirChanges \/ PowerCut \/ InitStaAborts
BY DEF Next, Main, EventTask, Driver, Update, Later, Handled

---------------------------------------------------------------------------
(* The parts of the invariant, one after the other.                        *)

LEMMA QuietStep == TypeOK /\ Quiet /\ Storable /\ [Next]_vars => Quiet'
<1> SUFFICES ASSUME TypeOK, Quiet, Storable, [Next]_vars PROVE Quiet'
  OBVIOUS
<1>1. CASE Update
  BY <1>1, UpdateStep DEF Quiet, driver
<1>2. CASE InitSta
  BY <1>2, PairsTyped DEF InitSta, GoTo, Readable, FromNvs, Quiet, Booting, Conf
<1>3. CASE Later
  BY <1>3, LaterStep DEF Quiet, driver
<1>4. CASE Handled
  <2>1. ~Booting'
    BY <1>4, HandledStep DEF Booting
  <2> QED
    BY <1>4, <2>1, HandledStep DEF Quiet
<1>5. CASE GotSsid \/ GotPasswd
  <2>1. ~Booting' /\ config' \in {config, Head(evq).conf}
    BY <1>5, GotStep DEF GotSsid, GotPasswd, wait, driver, Booting
  <2> QED
    BY <1>5, <2>1, GotStep DEF Quiet
<1>6. CASE Associate \/ AttemptFails \/ LinkLost \/ DhcpAck \/ PostGotIp
             \/ Offer \/ Acknowledge
  BY <1>6, AroundStep DEF Quiet, Booting, wait
<1>7. CASE AirChanges \/ UNCHANGED vars
  BY <1>7 DEF AirChanges, vars, wait, driver, Quiet, Booting
<1>8. CASE PowerCut \/ InitStaAborts
  BY <1>8, ResetStep DEF Reset, Quiet, Booting
<1> QED
  BY <1>1, <1>2, <1>3, <1>4, <1>5, <1>6, <1>7, <1>8, NextSplit

LEMMA UpdatingStep ==
    TypeOK /\ Quiet /\ Updating /\ Storable /\ [Next]_vars => Updating'
<1> SUFFICES ASSUME TypeOK, Quiet, Updating, Storable, [Next]_vars PROVE Updating'
  OBVIOUS
<1>1. nvs \in Nvs
  BY DEF TypeOK
<1>2. CASE NvsErase \/ NeedNotUpdate
  BY <1>2 DEF NvsErase, NeedNotUpdate, At, GoTo, wait, Updating
<1>3. CASE UpdateSsid
  BY <1>1, <1>3, NvsTyped, PairsTyped DEF UpdateSsid, GoTo, Updating
<1>4. CASE UpdatePasswd
  BY <1>1, <1>4, NvsTyped, PairsTyped DEF UpdatePasswd, At, GoTo, Updating
<1>5. CASE UpdateMark \/ InitSta
  BY <1>5 DEF UpdateMark, InitSta, GoTo, Updating
<1>6. CASE Later
  BY <1>6, LaterStep DEF Updating, Booting
<1>7. CASE Handled
  BY <1>7, HandledStep DEF Updating, Booting
<1>8. CASE GotSsid \/ GotPasswd
  <2>1. main' = main
    BY <1>8 DEF GotSsid, GotPasswd, wait
  <2> QED
    BY <1>8, <2>1, GotStep DEF Updating, Booting
<1>9. CASE Associate \/ AttemptFails \/ LinkLost \/ DhcpAck \/ PostGotIp
             \/ Offer \/ Acknowledge
  BY <1>9, AroundStep DEF Updating, Booting, wait
<1>10. CASE AirChanges \/ UNCHANGED vars
  BY <1>10 DEF AirChanges, vars, wait, stored, Updating
<1>11. CASE PowerCut \/ InitStaAborts
  BY <1>11, ResetStep DEF Reset, Updating
<1> QED
  BY <1>2, <1>3, <1>4, <1>5, <1>6, <1>7, <1>8, <1>9, <1>10, <1>11, NextSplit
  DEF Update

\* One more event, one fewer, or none: what waits in the queue stays as it is.
LEMMA GotsAppended ==
    ASSUME NEW q \in Seq(Event), NEW e \in Event,
           \A i \in DOMAIN q : q[i].type = "GOT_SSID_PSWD" => q[i].conf \in Conf,
           e.type = "GOT_SSID_PSWD" => e.conf \in Conf
    PROVE  \A i \in DOMAIN Append(q, e) :
              Append(q, e)[i].type = "GOT_SSID_PSWD" => Append(q, e)[i].conf \in Conf
BY Appended

LEMMA GotsBehind ==
    ASSUME NEW q \in Seq(Event), q # <<>>,
           \A i \in DOMAIN q : q[i].type = "GOT_SSID_PSWD" => q[i].conf \in Conf
    PROVE  \A i \in DOMAIN Tail(q) :
              Tail(q)[i].type = "GOT_SSID_PSWD" => Tail(q)[i].conf \in Conf
BY Behind

LEMMA StorableStep ==
    TypeOK /\ Quiet /\ Updating /\ Storable /\ [Next]_vars => Storable'
<1> SUFFICES ASSUME TypeOK, Quiet, Updating, Storable, [Next]_vars PROVE Storable'
  OBVIOUS
<1>1. nvs \in Nvs /\ evq \in Seq(Event)
  BY DEF TypeOK
<1>2. CASE Update
  <2>1. NvsErase => nvs'.ssid \notin FullSsid
    BY PairsTyped DEF NvsErase
  <2>2. NeedNotUpdate => nvs'.ssid \notin FullSsid
    BY DEF NeedNotUpdate, stored, Storable
  <2>3. UpdateSsid => nvs'.ssid \notin FullSsid
    BY <1>1, NvsTyped, PairsTyped DEF UpdateSsid
  <2>4. UpdatePasswd => nvs'.ssid \notin FullSsid
    BY <1>1, NvsTyped, PairsTyped DEF UpdatePasswd, Storable
  <2>5. UpdateMark => nvs'.ssid \notin FullSsid
    BY <1>1, NvsTyped DEF UpdateMark, Storable
  <2>6. nvs'.ssid \notin FullSsid
    BY <1>2, <2>1, <2>2, <2>3, <2>4, <2>5 DEF Update
  <2> QED
    BY <1>2, <2>6, UpdateStep DEF Storable, Quiet
<1>3. CASE InitSta
  <2>1. \A i \in DOMAIN evq' : evq'[i].type = "GOT_SSID_PSWD" => evq'[i].conf \in Conf
    BY <1>1, <1>3, GotsAppended, EventsTyped DEF InitSta, Storable
  <2>2. ev' = "idle" /\ nvs' = nvs
    BY <1>3 DEF InitSta, At, Quiet, Booting, stored
  <2> QED
    BY <2>1, <2>2 DEF Storable
<1>4. CASE Later
  BY <1>4, LaterStep DEF Storable, stored
<1>5. CASE Handled
  <2>1. evq # <<>> /\ evq' = Tail(evq) /\ ev' = "idle" /\ nvs' = nvs
    BY <1>5, HandledStep DEF stored
  <2> QED
    BY <1>1, <2>1, GotsBehind DEF Storable
<1>6. CASE GotSsid
  <2>1. Head(evq).conf.ssid \in AP
    BY <1>6, GotStep, PairsTyped
  <2>2. nvs'.ssid = AsStored(Head(evq).conf.ssid)
    BY <1>1, <1>6, <2>1, NvsTyped, StoredTyped DEF GotSsid
  <2>3. evq' = evq
    BY <1>6 DEF GotSsid
  <2> QED
    BY <1>6, <2>1, <2>2, <2>3, GotStep, StoredTyped DEF Storable
<1>7. CASE GotPasswd
  <2>1. evq # <<>> /\ Head(evq).conf \in Conf
    BY <1>7, GotStep
  <2>2. nvs'.ssid = nvs.ssid
    BY <1>1, <1>7, <2>1, NvsTyped, PairsTyped DEF GotPasswd
  <2>3. Tail(evq) \in Seq(Event)
        /\ \A i \in DOMAIN Tail(evq) :
              Tail(evq)[i].type = "GOT_SSID_PSWD" => Tail(evq)[i].conf \in Conf
    BY <1>1, <2>1, GotsBehind, Behind DEF Storable
  <2>4. \A i \in DOMAIN evq' : evq'[i].type = "GOT_SSID_PSWD" => evq'[i].conf \in Conf
    <3>1. CASE evq' = Tail(evq)
      BY <2>3, <3>1
    <3>2. CASE evq' = Append(Tail(evq), Ev("STA_DISCONNECTED"))
      BY <2>3, <3>2, GotsAppended, EventsTyped
    <3> QED
      BY <1>7, <3>1, <3>2 DEF GotPasswd
  <2>5. ev' = "idle"
    BY <1>7 DEF GotPasswd
  <2> QED
    BY <2>2, <2>4, <2>5 DEF Storable
<1>8. CASE Associate \/ AttemptFails \/ LinkLost \/ DhcpAck \/ PostGotIp
             \/ Offer \/ Acknowledge
  <2>1. nvs' = nvs /\ ev' = ev
    BY <1>8, AroundStep DEF stored
  <2>2. CASE evq' = evq
    BY <2>1, <2>2 DEF Storable
  <2>3. ASSUME NEW e \in Event, e.type = "GOT_SSID_PSWD" => e.conf \in Conf,
               evq' = Append(evq, e)
        PROVE  Storable'
    <3>1. \A i \in DOMAIN evq' : evq'[i].type = "GOT_SSID_PSWD" => evq'[i].conf \in Conf
      BY <1>1, <2>3, GotsAppended DEF Storable
    <3>2. evq # <<>> => evq' # <<>> /\ Head(evq') = Head(evq)
      BY <1>1, <2>3, Appended
    <3> QED
      BY <2>1, <3>1, <3>2 DEF Storable
  <2> QED
    BY <1>8, <2>2, <2>3, AroundStep
<1>9. CASE AirChanges \/ UNCHANGED vars
  BY <1>9 DEF AirChanges, vars, stored, Storable
<1>10. CASE PowerCut \/ InitStaAborts
  BY <1>10, ResetStep DEF Reset, Storable
<1> QED
  BY <1>2, <1>3, <1>4, <1>5, <1>6, <1>7, <1>8, <1>9, <1>10, NextSplit

LEMMA MarkedStep ==
    TypeOK /\ Quiet /\ Updating /\ Storable /\ MarkedPairIsWhole /\ [Next]_vars
      => MarkedPairIsWhole'
<1> SUFFICES ASSUME TypeOK, Quiet, Updating, Storable, MarkedPairIsWhole, [Next]_vars
             PROVE  MarkedPairIsWhole'
  OBVIOUS
<1>1. nvs \in Nvs
  BY DEF TypeOK
<1>2. CASE NvsErase \/ NeedNotUpdate
  BY <1>2, PairsTyped
  DEF NvsErase, NeedNotUpdate, Elsewhere, stored, MarkedPairIsWhole
<1>3. CASE UpdateSsid
  BY <1>1, <1>3, NvsTyped, PairsTyped DEF UpdateSsid, MarkedPairIsWhole
<1>4. CASE UpdatePasswd
  BY <1>1, <1>4, NvsTyped, PairsTyped DEF UpdatePasswd, At, Updating, MarkedPairIsWhole
<1>5. CASE UpdateMark
  BY <1>1, <1>5, NvsTyped, PairsTyped, StoredTyped
  DEF UpdateMark, At, Updating, MarkedPairIsWhole
<1>6. CASE InitSta
  BY <1>6 DEF InitSta, stored, MarkedPairIsWhole
<1>7. CASE Later
  BY <1>7, LaterStep DEF stored, MarkedPairIsWhole
<1>8. CASE Handled
  BY <1>8, HandledStep DEF stored, MarkedPairIsWhole
<1>9. CASE GotSsid
  BY <1>9 DEF GotSsid, MarkedPairIsWhole
<1>10. CASE GotPasswd
  BY <1>1, <1>10, GotStep, NvsTyped, PairsTyped
  DEF GotPasswd, Storable, MarkedPairIsWhole
<1>11. CASE Associate \/ AttemptFails \/ LinkLost \/ DhcpAck \/ PostGotIp
              \/ Offer \/ Acknowledge
  BY <1>11, AroundStep DEF stored, MarkedPairIsWhole
<1>12. CASE AirChanges \/ UNCHANGED vars
  BY <1>12 DEF AirChanges, vars, stored, MarkedPairIsWhole
<1>13. CASE PowerCut \/ InitStaAborts
  BY <1>13, ResetStep DEF Reset, TypeOK, MarkedPairIsWhole
<1> QED
  BY <1>2, <1>3, <1>4, <1>5, <1>6, <1>7, <1>8, <1>9, <1>10, <1>11, <1>12, <1>13, NextSplit
  DEF Update

LEMMA ConfigStoredStep ==
    TypeOK /\ Quiet /\ Storable /\ ConfigStored /\ [Next]_vars => ConfigStored'
<1> SUFFICES ASSUME TypeOK, Quiet, Storable, ConfigStored, [Next]_vars
             PROVE  ConfigStored'
  OBVIOUS
<1>1. nvs \in Nvs
  BY DEF TypeOK
<1>2. CASE Update
  BY <1>2, UpdateStep DEF driver, Quiet, ConfigStored
<1>3. CASE InitSta
  <2>1. config'.ssid = nvs.ssid /\ config'.passwd = nvs.passwd /\ nvs' = nvs
    BY <1>3 DEF InitSta, FromNvs, stored
  <2>2. AsStored(nvs.ssid) = nvs.ssid
    BY <1>3, StoredTyped DEF InitSta, Readable, Storable
  <2>3. link = "idle" /\ link' = link
    BY <1>3 DEF InitSta, At, Quiet, Booting
  <2> QED
    BY <2>1, <2>2, <2>3 DEF ConfigStored
<1>4. CASE Later
  BY <1>4, LaterStep DEF stored, driver, ConfigStored
<1>5. CASE Handled
  BY <1>5, HandledStep DEF stored, ConfigStored
<1>6. CASE GotSsid
  BY <1>6 DEF GotSsid, driver, ConfigStored
<1>7. CASE GotPasswd
  BY <1>1, <1>7, GotStep, NvsTyped, PairsTyped DEF GotPasswd, Storable, ConfigStored
<1>8. CASE Associate \/ AttemptFails \/ LinkLost \/ DhcpAck \/ PostGotIp
             \/ Offer \/ Acknowledge
  BY <1>8, AroundStep DEF stored, ConfigStored
<1>9. CASE AirChanges \/ UNCHANGED vars
  BY <1>9 DEF AirChanges, vars, stored, driver, ConfigStored
<1>10. CASE PowerCut \/ InitStaAborts
  BY <1>10, ResetStep DEF Reset, ConfigStored
<1> QED
  BY <1>2, <1>3, <1>4, <1>5, <1>6, <1>7, <1>8, <1>9, <1>10, NextSplit

LEMMA ReconnectStep ==
    TypeOK /\ Quiet /\ Storable /\ NoLostReconnect /\ [Next]_vars => NoLostReconnect'
<1> SUFFICES ASSUME TypeOK, Quiet, Storable, NoLostReconnect, [Next]_vars
             PROVE  NoLostReconnect'
  OBVIOUS
<1>1. evq \in Seq(Event)
  BY DEF TypeOK
<1> DEFINE Wakes(e) == e.type \in {"STA_START", "STA_DISCONNECTED"}
<1>2. CASE Update
  BY <1>2, UpdateStep DEF driver, Quiet, NoLostReconnect
<1>3. CASE InitSta
  <2>1. evq' = Append(evq, Ev("STA_START"))
    BY <1>3 DEF InitSta
  <2>2. Ev("STA_START") \in Event /\ Ev("STA_START").type = "STA_START"
    BY EventsTyped
  <2>3. PICK i \in DOMAIN evq' : evq'[i] = Ev("STA_START")
    BY <1>1, <2>1, <2>2, Appended
  <2> QED
    BY <2>2, <2>3 DEF NoLostReconnect
<1>4. CASE Later
  BY <1>4, LaterStep DEF driver, NoLostReconnect
<1>5. CASE Handled
  <2>1. evq # <<>> /\ evq' = Tail(evq) /\ config' = config
    BY <1>5, HandledStep
  <2>2. CASE Wakes(Head(evq)) \/ link # "idle"
    BY <1>5, <2>2, HandledStep DEF NoLostReconnect
  <2>3. CASE ~Wakes(Head(evq)) /\ link = "idle"
    <3> SUFFICES ASSUME config # NoConf
                 PROVE  \E i \in DOMAIN evq' : Wakes(evq'[i])
      BY <2>1 DEF NoLostReconnect
    <3>1. PICK i \in DOMAIN evq : Wakes(evq[i])
      BY <2>3 DEF NoLostReconnect
    <3>2. i # 1
      BY <1>1, <2>1, <2>3, <3>1, Behind
    <3>3. i - 1 \in DOMAIN Tail(evq) /\ Tail(evq)[i - 1] = evq[i]
      BY <1>1, <2>1, <3>2, Behind
    <3> QED
      BY <2>1, <3>1, <3>3
  <2> QED
    BY <2>2, <2>3
<1>6. CASE GotSsid
  BY <1>6 DEF GotSsid, driver, NoLostReconnect
<1>7. CASE GotPasswd
  BY <1>7 DEF GotPasswd, NoLostReconnect
<1>8. CASE Associate \/ AttemptFails \/ LinkLost \/ DhcpAck \/ PostGotIp
             \/ Offer \/ Acknowledge
  <2> SUFFICES ASSUME link' = "idle", config' # NoConf
               PROVE  \E i \in DOMAIN evq' : Wakes(evq'[i])
    BY DEF NoLostReconnect
  <2>1. config # NoConf
    BY <1>8, AroundStep
  <2>2. CASE link = "idle"
    <3>1. PICK i \in DOMAIN evq : Wakes(evq[i])
      BY <2>1, <2>2 DEF NoLostReconnect
    <3>2. CASE evq' = evq
      BY <3>1, <3>2
    <3>3. ASSUME NEW e \in Event, evq' = Append(evq, e)
          PROVE  \E j \in DOMAIN evq' : Wakes(evq'[j])
      BY <1>1, <3>1, <3>3, Appended
    <3> QED
      BY <1>8, <3>2, <3>3, AroundStep
  <2>3. CASE link # "idle"
    <3>1. evq' = Append(evq, Ev("STA_DISCONNECTED"))
      BY <1>8, <2>3, AroundStep
    <3> QED
      BY <1>1, <3>1, Appended, EventsTyped
  <2> QED
    BY <2>2, <2>3
<1>9. CASE AirChanges \/ UNCHANGED vars
  BY <1>9 DEF AirChanges, vars, driver, NoLostReconnect
<1>10. CASE PowerCut \/ InitStaAborts
  BY <1>10, ResetStep DEF Reset, NoLostReconnect
<1> QED
  BY <1>2, <1>3, <1>4, <1>5, <1>6, <1>7, <1>8, <1>9, <1>10, NextSplit

---------------------------------------------------------------------------
(* The theorems.                                                           *)

LEMMA InitInvariant == Init => IInv
<1> SUFFICES ASSUME Init PROVE IInv
  OBVIOUS
<1>1. nvs \in Nvs /\ given \in Pair /\ nvs.ssid \notin FullSsid
      /\ (nvs.mark => nvs.ssid = AsStored(given.ssid) /\ nvs.passwd = given.passwd)
  <2>1. CASE nvs = Blank /\ given = BuiltIn
    BY <2>1, PairsTyped
  <2>2. CASE \E pair \in Pair, mark \in BOOLEAN :
                /\ nvs = [ssid |-> AsStored(pair.ssid), passwd |-> pair.passwd,
                          mark |-> mark]
                /\ given = pair
    <3>1. PICK pair \in Pair, mark \in BOOLEAN :
                /\ nvs = [ssid |-> AsStored(pair.ssid), passwd |-> pair.passwd,
                          mark |-> mark]
                /\ given = pair
      BY <2>2
    <3>2. AsStored(pair.ssid) \in AP \cup {None, Overlong} /\ pair.passwd \in Passwd
          /\ AsStored(pair.ssid) \notin FullSsid
      BY PairsTyped, StoredTyped
    <3>3. nvs.ssid = AsStored(pair.ssid) /\ nvs.passwd = pair.passwd /\ given = pair
      BY <3>1
    <3>4. nvs \in Nvs
      BY <3>1, <3>2 DEF Nvs
    <3> QED
      BY <3>2, <3>3, <3>4
  <2> QED
    BY <2>1, <2>2 DEF Init
<1>2. TypeOK
  <2>1. retry_num \in 0..(MaxRetry + 1) /\ cuts \in 0..MaxCuts /\ evq \in Seq(Event)
    BY DEF Init
  <2>2. bits \subseteq Bit /\ air \subseteq AP /\ torn \in BOOLEAN
    BY DEF Init
  <2>3. config \in Conf \cup {NoConf} /\ using \in Conf \cup {NoConf}
    BY DEF Init
  <2> QED
    BY <1>1, <2>1, <2>2, <2>3 DEF Init, TypeOK
<1>3. Quiet /\ Updating /\ ConfigStored /\ NoLostReconnect
  BY DEF Init, Quiet, Booting, Updating, ConfigStored, NoLostReconnect
<1>4. Storable /\ MarkedPairIsWhole
  BY <1>1 DEF Init, Storable, MarkedPairIsWhole
<1> QED
  BY <1>2, <1>3, <1>4 DEF IInv

LEMMA InvariantCorrect == Spec => []IInv
<1>1. IInv /\ [Next]_vars => IInv'
  BY TypeStep, QuietStep, UpdatingStep, StorableStep, MarkedStep, ConfigStoredStep,
     ReconnectStep DEF IInv
<1> QED
  BY <1>1, InitInvariant, PTL DEF Spec

\* Everything keeps its type, for any access points, passwords and bounds.
THEOREM TypeCorrect == Spec => []TypeOK
<1>1. IInv => TypeOK
  BY DEF IInv
<1> QED
  BY <1>1, InvariantCorrect, PTL

\* A power cut leaves no half pair behind the marker, but for a phone's pair that was
\* being stored (user_wifi.c:261-273, 347-353).
THEOREM MarkIsLast == Spec => []MarkedPairIsWhole
<1>1. IInv => MarkedPairIsWhole
  BY DEF IInv
<1> QED
  BY <1>1, InvariantCorrect, PTL

\* The name and the password the station attempts or connects with are those the next
\* boot would read back and use, but for names of 32 characters, which no boot can read
\* back (user_wifi.c:347-359, 420-441).
THEOREM StoredIsUsed == Spec => []AttemptUsesStored
<1>1. IInv => AttemptUsesStored
  <2> SUFFICES ASSUME IInv, link # "idle", ev = "idle", using.ssid \notin FullSsid
               PROVE  Readable /\ FromNvs = [using EXCEPT !.bssid = None]
    BY DEF AttemptUsesStored
  <2>1. config \in Conf /\ using = config
    BY PairsTyped DEF IInv, Quiet, ConfigStored
  <2>2. nvs.ssid = AsStored(using.ssid) /\ nvs.passwd = using.passwd
    BY <2>1, PairsTyped DEF IInv, ConfigStored
  <2>3. nvs.ssid = using.ssid /\ using.ssid \in AP /\ using.passwd \in Passwd
    BY <2>1, <2>2, PairsTyped, StoredTyped
  <2>4. [using EXCEPT !.bssid = None]
           = [ssid |-> using.ssid, passwd |-> using.passwd, bssid |-> None]
    BY <2>1 DEF Conf
  <2> QED
    BY <2>2, <2>3, <2>4 DEF Readable, FromNvs
<1> QED
  BY <1>1, InvariantCorrect, PTL

\* An idle driver always has an event on its way that makes it try again
\* (user_wifi.c:290-296, 357-359).
THEOREM ReconnectNeverLost == Spec => []NoLostReconnect
<1>1. IInv => NoLostReconnect
  BY DEF IInv
<1> QED
  BY <1>1, InvariantCorrect, PTL

---------------------------------------------------------------------------
(* No wake-up is lost.                                                     *)

\* Nothing is counted before the station is started.
Fresh == Booting => retry_num = 0

NoGotIp(q) == \A i \in DOMAIN q : q[i].type # "GOT_IP"

\* The address was reported, and still holds.
Told == dhcp = "bound" /\ NoGotIp(evq)

LEMMA ToldWaitsEnd ==
    /\ WaitsEnd <=>
         (group = "live" =>
            /\ Told => /\ main \notin {"wait", "sc_wait"}
                       /\ main \in {"started", "failed"} => "CONNECTED" \in bits
            /\ retry_num > MaxRetry =>
                  main # "wait" /\ (main = "started" => "FAIL" \in bits))
    /\ WaitsEnd' <=>
         (group' = "live" =>
            /\ Told' => /\ main' \notin {"wait", "sc_wait"}
                        /\ main' \in {"started", "failed"} => "CONNECTED" \in bits'
            /\ retry_num' > MaxRetry =>
                  main' # "wait" /\ (main' = "started" => "FAIL" \in bits'))
BY DEF WaitsEnd, Told, NoGotIp

LEMMA GotIpAppended ==
    ASSUME NEW q \in Seq(Event), NEW e \in Event, NoGotIp(Append(q, e))
    PROVE  NoGotIp(q) /\ e.type # "GOT_IP"
BY Appended DEF NoGotIp

LEMMA GotIpBehind ==
    ASSUME NEW q \in Seq(Event), q # <<>>, Head(q).type # "GOT_IP", NoGotIp(Tail(q))
    PROVE  NoGotIp(q)
<1> SUFFICES ASSUME NEW i \in DOMAIN q PROVE q[i].type # "GOT_IP"
  BY DEF NoGotIp
<1>1. CASE i = 1
  BY <1>1, Behind
<1>2. CASE i # 1
  <2>1. i - 1 \in DOMAIN Tail(q) /\ Tail(q)[i - 1] = q[i]
    BY <1>2, Behind
  <2> QED
    BY <2>1 DEF NoGotIp
<1> QED
  BY <1>1, <1>2

LEMMA FreshStep == TypeOK /\ Quiet /\ Fresh /\ Storable /\ [Next]_vars => Fresh'
<1> SUFFICES ASSUME TypeOK, Quiet, Fresh, Storable, [Next]_vars PROVE Fresh'
  OBVIOUS
<1>1. CASE Update
  <2>1. retry_num' = retry_num
    BY <1>1 DEF Update, NvsErase, NeedNotUpdate, UpdateSsid, UpdatePasswd, UpdateMark,
                Elsewhere
  <2> QED
    BY <1>1, <2>1, UpdateStep DEF Fresh
<1>2. CASE InitSta
  BY <1>2 DEF InitSta, GoTo, Fresh, Booting
<1>3. CASE Later
  BY <1>3, LaterStep DEF Fresh
<1>4. CASE Handled
  BY <1>4, HandledStep DEF Fresh, Booting
<1>5. CASE GotSsid \/ GotPasswd
  <2>1. main' = main
    BY <1>5 DEF GotSsid, GotPasswd, wait
  <2> QED
    BY <1>5, <2>1, GotStep DEF Fresh, Booting
<1>6. CASE Associate \/ AttemptFails \/ LinkLost \/ DhcpAck \/ PostGotIp
             \/ Offer \/ Acknowledge
  BY <1>6, AroundStep DEF Fresh, Booting, wait
<1>7. CASE AirChanges \/ UNCHANGED vars
  BY <1>7 DEF AirChanges, vars, wait, Fresh, Booting
<1>8. CASE PowerCut \/ InitStaAborts
  BY <1>8, ResetStep DEF Reset, Fresh
<1> QED
  BY <1>1, <1>2, <1>3, <1>4, <1>5, <1>6, <1>7, <1>8, NextSplit

LEMMA WaitsFrame ==
    ASSUME WaitsEnd, UNCHANGED <<wait, retry_num>>, Told' => Told
    PROVE  WaitsEnd'
<1>1. UNCHANGED <<main, bits, group>>
  BY DEF wait
<1> QED
  BY <1>1, ToldWaitsEnd

\* The main task never waits for a bit that is there.
LEMMA LaterWaits == TypeOK /\ WaitsEnd /\ Later => WaitsEnd'
<1> SUFFICES ASSUME TypeOK, WaitsEnd, Later PROVE WaitsEnd'
  OBVIOUS
<1>1. UNCHANGED <<dhcp, evq, retry_num>>
  BY DEF Later, Wait, DeleteGroup, SmartConfigStart, SmartConfigStop, Elsewhere
<1>2. Told' <=> Told
  BY <1>1 DEF Told
<1>3. CASE Wait
  <2>1. main = "started" /\ UNCHANGED <<bits, group>>
        /\ main' = IF "CONNECTED" \in bits THEN "connected"
                   ELSE IF "FAIL" \in bits THEN "failed" ELSE "wait"
    BY <1>3 DEF Wait, At, GoTo
  <2> QED
    BY <1>1, <1>2, <2>1, ToldWaitsEnd
<1>4. CASE DeleteGroup
  <2>1. group' = "deleted"
    BY <1>4 DEF DeleteGroup
  <2> QED
    BY <2>1, ToldWaitsEnd
<1>5. CASE SmartConfigStart
  <2>1. /\ main = "failed" /\ group' = group
        /\ main' \in {"sc_wait", "sc_stop"}
        /\ "CONNECTED" \in bits => main' = "sc_stop"
    BY <1>5 DEF SmartConfigStart, At
  <2> QED
    BY <1>1, <1>2, <2>1, ToldWaitsEnd
<1>6. CASE SmartConfigStop
  <2>1. main' = "done"
    BY <1>6 DEF SmartConfigStop, GoTo
  <2> QED
    BY <2>1, ToldWaitsEnd
<1> QED
  BY <1>3, <1>4, <1>5, <1>6 DEF Later

\* Whoever sets a bit wakes who waits for it.
LEMMA HandledWaits == TypeOK /\ Quiet /\ WaitsEnd /\ Handled => WaitsEnd'
<1> SUFFICES ASSUME TypeOK, Quiet, WaitsEnd, Handled PROVE WaitsEnd'
  OBVIOUS
<1>1. evq \in Seq(Event) /\ evq # <<>> /\ evq' = Tail(evq)
  BY HandledStep DEF TypeOK
<1>2. dhcp' = dhcp /\ Head(evq).type # "GOT_IP" => (Told' => Told)
  BY <1>1, GotIpBehind DEF Told
<1>3. CASE StaStart
  <2>1. UNCHANGED <<wait, retry_num>> /\ dhcp' = dhcp /\ Head(evq).type # "GOT_IP"
    BY <1>3 DEF StaStart, Pending
  <2> QED
    BY <1>2, <2>1, WaitsFrame
<1>4. CASE StaConnected
  <2>1. UNCHANGED <<wait, retry_num>> /\ ~Told'
    BY <1>4 DEF StaConnected, Told
  <2> QED
    BY <2>1, WaitsFrame
<1>5. CASE StaDisconnected
  <2>1. ~Told' /\ CountFailure
    BY <1>5 DEF StaDisconnected, Told
  <2>2. CASE group' = "live" /\ retry_num' > MaxRetry
    <3>1. main' = Woken("FAIL") /\ bits' = Set("FAIL") \ {"CONNECTED"}
      BY <2>1, <2>2, RetriedTyped, <1>5 DEF CountFailure, Misuse, StaDisconnected
    <3>2. main' # "wait"
      BY <3>1 DEF Woken
    <3>3. "FAIL" \in bits'
      BY <3>1 DEF Set
    <3> QED
      BY <2>1, <3>2, <3>3, ToldWaitsEnd
  <2> QED
    BY <2>1, <2>2, ToldWaitsEnd
<1>6. CASE StaGotIp
  <2>1. retry_num' = 0 /\ SetBits("CONNECTED")
    BY <1>6 DEF StaGotIp
  <2>2. CASE group' = "live"
    <3>1. main' = Woken("CONNECTED") /\ bits' = Set("CONNECTED")
      BY <2>1, <2>2 DEF SetBits, Misuse
    <3>2. main' \notin {"wait", "sc_wait"}
      BY <3>1 DEF Woken
    <3>3. main' \in {"started", "failed"} => "CONNECTED" \in bits'
      BY <3>1 DEF Woken, Set
    <3>4. ~(retry_num' > MaxRetry)
      BY <2>1
    <3> QED
      BY <3>2, <3>3, <3>4, ToldWaitsEnd
  <2> QED
    BY <2>2, ToldWaitsEnd
<1>7. CASE SendAckDone
  <2>1. /\ SetBits("SMART") /\ retry_num' = retry_num
        /\ dhcp' = dhcp /\ Head(evq).type # "GOT_IP"
    BY <1>7 DEF SendAckDone, Pending
  <2>2. CASE group' = "live"
    <3>1. group = "live" /\ main' = Woken("SMART") /\ bits' = Set("SMART")
      BY <2>1, <2>2 DEF SetBits, Misuse
    <3>2. (main' = main /\ main # "sc_wait") \/ main' = "sc_stop"
      BY <3>1 DEF Woken
    <3>3. main # "sc_wait" => bits \subseteq bits'
      BY <3>1 DEF Set
    <3> QED
      BY <1>2, <2>1, <3>1, <3>2, <3>3, ToldWaitsEnd
  <2> QED
    BY <2>2, ToldWaitsEnd
<1> QED
  BY <1>3, <1>4, <1>5, <1>6, <1>7 DEF Handled

LEMMA WaitsStep ==
    IInv /\ Fresh /\ WaitsEnd /\ [Next]_vars => WaitsEnd'
<1> SUFFICES ASSUME IInv, Fresh, WaitsEnd, [Next]_vars PROVE WaitsEnd'
  OBVIOUS
<1>1. TypeOK /\ Quiet /\ Storable /\ evq \in Seq(Event)
  BY DEF IInv, TypeOK
<1>2. CASE Update
  <2>1. dhcp' = "off" /\ Booting'
    BY <1>1, <1>2, UpdateStep DEF Quiet
  <2> QED
    BY <2>1, ToldWaitsEnd DEF Told, Booting
<1>3. CASE InitSta
  <2>1. dhcp' = "off" /\ retry_num' = 0
    BY <1>1, <1>3 DEF InitSta, At, Quiet, Fresh, Booting
  <2>2. ~(retry_num' > MaxRetry)
    BY <2>1
  <2> QED
    BY <2>1, <2>2, ToldWaitsEnd DEF Told
<1>4. CASE Later
  BY <1>1, <1>4, LaterWaits
<1>5. CASE Handled
  BY <1>1, <1>5, HandledWaits
<1>6. CASE GotSsid
  BY <1>6, WaitsFrame DEF GotSsid, Told
<1>7. CASE GotPasswd
  <2>1. evq # <<>> /\ Head(evq).type = "GOT_SSID_PSWD"
    BY <1>1, <1>7, GotStep
  <2>2. Tail(evq) \in Seq(Event) /\ Ev("STA_DISCONNECTED") \in Event
    BY <1>1, <2>1, Behind, EventsTyped
  <2>3. NoGotIp(evq') => NoGotIp(Tail(evq))
    BY <1>7, <2>2, GotIpAppended DEF GotPasswd
  <2>4. NoGotIp(Tail(evq)) => NoGotIp(evq)
    BY <1>1, <2>1, GotIpBehind
  <2>5. UNCHANGED <<wait, retry_num, dhcp>>
    BY <1>7 DEF GotPasswd
  <2> QED
    BY <2>3, <2>4, <2>5, WaitsFrame DEF Told
\* The one event that ends Told with the address is the one that is waited for.
<1>8. CASE Associate \/ AttemptFails \/ LinkLost \/ DhcpAck \/ PostGotIp
             \/ Offer \/ Acknowledge
  <2>1. UNCHANGED <<wait, retry_num>>
    BY <1>1, <1>8, AroundStep
  <2>2. NoGotIp(evq') => NoGotIp(evq)
    <3>1. evq' = evq \/ \E e \in Event : evq' = Append(evq, e)
      BY <1>1, <1>8, AroundStep
    <3>2. ASSUME NEW e \in Event, evq' = Append(evq, e), NoGotIp(evq')
          PROVE  NoGotIp(evq)
      <4>1. NoGotIp(Append(evq, e))
        BY <3>2
      <4> QED
        BY <1>1, <4>1, GotIpAppended
    <3> QED
      BY <3>1, <3>2
  <2>3. CASE dhcp' = dhcp
    BY <2>1, <2>2, <2>3, WaitsFrame DEF Told
  <2>4. CASE DhcpAck
    BY <2>1, <2>4, WaitsFrame DEF DhcpAck, Told
  <2>5. CASE PostGotIp
    <3>1. evq' = Append(evq, Ev("GOT_IP")) /\ Ev("GOT_IP") \in Event
          /\ Ev("GOT_IP").type = "GOT_IP"
      BY <2>5, EventsTyped DEF PostGotIp
    <3>2. ~NoGotIp(evq')
      BY <1>1, <3>1, GotIpAppended
    <3> QED
      BY <2>1, <3>2, WaitsFrame DEF Told
  <2> QED
    BY <1>8, <2>3, <2>4, <2>5
    DEF Associate, AttemptFails, LinkLost, Offer, Acknowledge
<1>9. CASE AirChanges \/ UNCHANGED vars
  BY <1>9, WaitsFrame DEF AirChanges, vars, Told
<1>10. CASE PowerCut \/ InitStaAborts
  <2>1. main' = "boot"
    BY <1>10, ResetStep DEF Reset
  <2> QED
    BY <2>1, ToldWaitsEnd
<1> QED
  BY <1>2, <1>3, <1>4, <1>5, <1>6, <1>7, <1>8, <1>9, <1>10, NextSplit

\* No wake-up is lost: once the handler has reported an address that holds, or too many
\* failures, the main task does not wait for that bit, whichever bits SmartConfig has
\* taken with its own wait: the safety half of Joins and TurnsToSmartConfig
\* (user_wifi.c:290-311, 381, 449).
THEOREM NoWakeUpLost == Spec => []WaitsEnd
<1>1. Init => Fresh /\ WaitsEnd
  BY ToldWaitsEnd DEF Init, Fresh, Told
<1>2. IInv /\ Fresh /\ [Next]_vars => Fresh'
  BY FreshStep DEF IInv
<1> QED
  BY <1>1, <1>2, WaitsStep, InvariantCorrect, PTL DEF Spec
=============================================================================
