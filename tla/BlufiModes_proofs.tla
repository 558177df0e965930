------------------------- MODULE BlufiModes_proofs -------------------------
(***************************************************************************)
(* Proofs about BlufiModes, for any names, numbers and bounds: the type    *)
(* invariant, that the handler of a scan leaves no memory behind and BTC   *)
(* waits only for a scan that runs, that the soft-AP is what the phone     *)
(* described, and that a list which a phone waits for is on its way.       *)
(***************************************************************************)
EXTENDS BlufiModes, TLAPS

USE FullSsidAssumption, NumberAssumption, BoundAssumption

---------------------------------------------------------------------------
(* The inductive invariant of the soft-AP.                                 *)

\* The RAM copy is what was sent, but for a password that was cut off.
CopyIsSent == \A f \in Field \ {"password"} : ap_config[f] = sent[f]

---------------------------------------------------------------------------
(* Jobs and configurations.                                                *)

LEMMA NotesTyped ==
    \A t \in Own \cup {"connect", "disconnect", "send list", "send report"} : Note(t) \in Job
BY DEF Job

LEMMA FieldJobs ==
    ASSUME NEW job \in Job, job.type \in Field
    PROVE  job.value \in Values[job.type]
<1> DEFINE Names == Own \cup {"connect", "disconnect", "send list", "send report"}
<1>0. \A t \in Names : Note(t).type = t /\ t \notin Field
  BY DEF Note, Field, Own
<1>1. job \in Command
  <2>1. job \in Command \/ \E t \in Names : job = Note(t)
    BY DEF Job
  <2> QED
    BY <1>0, <2>1
<1>2. job \in UNION {{[type |-> f, value |-> v] : v \in Values[f]} : f \in Field}
  <2>1. job \notin {[type |-> type, value |-> "none"] : type \in {"list", "answer"}}
    BY DEF Field
  <2>2. job \notin {[type |-> "mode", value |-> m] : m \in Mode \cup {"unknown"}}
    BY DEF Field
  <2> QED
    BY <1>1, <2>1, <2>2 DEF Command
<1>3. PICK f \in Field : job \in {[type |-> f, value |-> v] : v \in Values[f]}
  BY <1>2
<1>4. PICK v \in Values[f] : job = [type |-> f, value |-> v]
  BY <1>3
<1> QED
  BY <1>4

LEMMA QueueTyped ==
    ASSUME TypeOK, btcq # <<>>
    PROVE  /\ Head(btcq) \in Job
           /\ Tail(btcq) \in Seq(Job) /\ Len(Tail(btcq)) <= MaxBtcq
BY DEF TypeOK

LEMMA PostTyped ==
    ASSUME TypeOK, NEW job \in Job, Post(job)
    PROVE  btcq' \in Seq(Job) /\ Len(btcq') <= MaxBtcq
BY DEF TypeOK, Post, Room

LEMMA TakeTyped ==
    ASSUME TypeOK, NEW type, Take(type)
    PROVE  /\ btcq' \in Seq(Job) /\ Len(btcq') <= MaxBtcq
           /\ Head(btcq) \in Job /\ Head(btcq).type = type
           /\ btc = "idle"
BY QueueTyped DEF Take, Ready

LEMMA ValuesTyped ==
    /\ "password" \in Field /\ "ssid" \in Field
    /\ Zeros["password"] = "none"
BY DEF Field, Zeros

\* One field is replaced, and the password is cut off at most.
LEMMA WithTyped ==
    ASSUME NEW c, IsApConfig(c), NEW job \in Job, job.type \in Field
    PROVE  /\ IsApConfig(With(c, job))
           /\ With(c, job)[job.type] = job.value
           /\ \A f \in Field : f \notin {job.type, "password"} => With(c, job)[f] = c[f]
<1>1. job.value \in Values[job.type]
  BY FieldJobs
<1> DEFINE d == With(c, job)
<1>2. \A f \in Field :
        d[f] = CASE f = job.type -> job.value
                 [] f = "password" /\ job.type = "ssid" /\ job.value \in FullSsid -> "none"
                 [] OTHER -> c[f]
  BY DEF With
<1>3. d = [f \in Field |-> d[f]]
  BY DEF With
<1>4. d[job.type] = job.value
  BY <1>2
<1>5. \A f \in Field : f \notin {job.type, "password"} => d[f] = c[f]
  BY <1>2
<1>6. job.type # "password" => d["password"] \in {"none", c["password"]}
  BY <1>2, ValuesTyped
<1>7. \A f \in Field : d[f] \in Values[f] \cup {Zeros[f]}
  BY <1>1, <1>4, <1>5, <1>6, ValuesTyped DEF IsApConfig
<1> QED
  BY <1>3, <1>4, <1>5, <1>7 DEF IsApConfig

\* The same for what the phone sent.
LEMMA SentTyped ==
    ASSUME NEW c, IsApConfig(c), NEW job \in Job, job.type \in Field
    PROVE  /\ IsApConfig([c EXCEPT ![job.type] = job.value])
           /\ [c EXCEPT ![job.type] = job.value][job.type] = job.value
           /\ \A f \in Field : f # job.type => [c EXCEPT ![job.type] = job.value][f] = c[f]
<1>1. job.value \in Values[job.type]
  BY FieldJobs
<1> DEFINE d == [c EXCEPT ![job.type] = job.value]
<1>2. d = [f \in Field |-> IF f = job.type THEN job.value ELSE c[f]]
  BY DEF IsApConfig
<1>3. d = [f \in Field |-> d[f]]
  BY <1>2
<1> QED
  BY <1>1, <1>2, <1>3 DEF IsApConfig

LEMMA ZerosTyped == IsApConfig(Zeros)
BY DEF Zeros, IsApConfig

---------------------------------------------------------------------------
(* Typing.                                                                 *)

LEMMA RestartTyped == TypeOK /\ Restart => TypeOK'
<1> SUFFICES ASSUME TypeOK, Restart PROVE TypeOK'
  OBVIOUS
<1>1. IsApConfig(ap_config') /\ IsApConfig(sent')
  BY ZerosTyped DEF Restart
<1>2. evq' \in Seq({"REPORT", "SCAN_DONE"}) /\ btcq' \in Seq(Job) /\ Len(btcq') <= MaxBtcq
  BY DEF Restart
<1>3. records' \in 0..MaxAp /\ heap' \subseteq {"ap_list", "blufi_ap_list"}
  BY DEF Restart
<1>4. IsApConfig(softap') /\ ops' \in 0..MaxOps
  BY DEF Restart, TypeOK
<1>5. mode' \in Mode /\ station' \in {"idle", "connecting", "up"}
      /\ handler' \in {"idle", "reporting", "listed", "sent"}
      /\ btc' \in {"idle", "scanning"} \cup Own
  BY DEF Restart, Mode
<1>6. /\ early' \in BOOLEAN /\ scan' \in BOOLEAN /\ conn' \in BOOLEAN /\ adv' \in BOOLEAN
      /\ ble_is_connected' \in BOOLEAN /\ asked' \in BOOLEAN
  BY DEF Restart
<1> QED
  BY <1>1, <1>2, <1>3, <1>4, <1>5, <1>6 DEF TypeOK

LEMMA EndScanTyped ==
    ASSUME TypeOK, NEW n \in 0..MaxAp, EndScan(n)
    PROVE  /\ scan' \in BOOLEAN /\ records' \in 0..MaxAp /\ btc' = "idle"
           /\ evq' \in Seq({"REPORT", "SCAN_DONE"}) /\ asked' \in BOOLEAN
<1>1. asked' \in BOOLEAN
  BY Zenon DEF EndScan, TypeOK
<1>2. evq' \in Seq({"REPORT", "SCAN_DONE"})
  BY DEF EndScan, TypeOK
<1> QED
  BY <1>1, <1>2 DEF EndScan

LEMMA HostTyped == TypeOK /\ Host => TypeOK'
<1> SUFFICES ASSUME TypeOK, Host PROVE TypeOK'
  OBVIOUS
<1>1. \E job \in Job : Post(job)
  BY NotesTyped DEF Job, Host, LinkUp, LinkDown, Ask
<1>2. btcq' \in Seq(Job) /\ Len(btcq') <= MaxBtcq
  BY <1>1, PostTyped
<1>3. Phone
  BY DEF Host, LinkUp, LinkDown, Ask
<1>4. ops' \in 0..MaxOps
  BY <1>3 DEF Phone, TypeOK
<1>5. conn' \in BOOLEAN /\ adv' \in BOOLEAN /\ asked' \in BOOLEAN
  BY DEF Host, LinkUp, LinkDown, Ask, TypeOK
<1> QED
  BY <1>2, <1>3, <1>4, <1>5 DEF Phone, TypeOK, soft, air, task

LEMMA BtcTyped == TypeOK /\ Btc => TypeOK'
<1> SUFFICES ASSUME TypeOK, Btc PROVE TypeOK'
  OBVIOUS
<1>1. CASE BleLink
  <2>1. btcq' \in Seq(Job) /\ Len(btcq') <= MaxBtcq
    BY <1>1, TakeTyped DEF BleLink
  <2>2. ble_is_connected' \in BOOLEAN /\ btc' \in Own
    BY <1>1 DEF BleLink, Own
  <2> QED
    BY <1>1, <2>1, <2>2 DEF BleLink, TypeOK, soft, air, task
<1>8. CASE BtcPost
  <2>1. Note(btc) \in Job
    BY <1>8, NotesTyped DEF BtcPost
  <2>2. btcq' \in Seq(Job) /\ Len(btcq') <= MaxBtcq
    BY <1>8, <2>1, PostTyped DEF BtcPost
  <2> QED
    BY <1>8, <2>2 DEF BtcPost, TypeOK, soft, air, task, link
<1>9. CASE Answer
  <2>1. btcq' \in Seq(Job) /\ Len(btcq') <= MaxBtcq
    BY <1>9, TakeTyped DEF Answer
  <2>2. btc' \in Own
    BY <1>9 DEF Answer, Own
  <2> QED
    BY <1>9, <2>1, <2>2 DEF Answer, TypeOK, soft, air, task, link
<1>10. CASE RunOwn
  <2>1. btcq' \in Seq(Job) /\ Len(btcq') <= MaxBtcq
    BY <1>10, TakeTyped DEF RunOwn
  <2>2. adv' \in BOOLEAN
    BY <1>10 DEF RunOwn, TypeOK
  <2> QED
    BY <1>10, <2>1, <2>2 DEF RunOwn, TypeOK, soft, air, task
<1>2. CASE SetWifiOpmode
  <2>1. btcq' \in Seq(Job) /\ Len(btcq') <= MaxBtcq
    BY <1>2, TakeTyped DEF SetWifiOpmode
  <2>2. evq' \in Seq({"REPORT", "SCAN_DONE"})
    BY <1>2 DEF SetWifiOpmode, TypeOK
  <2>3. mode' \in Mode /\ station' \in {"idle", "connecting", "up"}
    BY <1>2 DEF SetWifiOpmode, TypeOK
  <2> QED
    BY <1>2, <2>1, <2>2, <2>3 DEF SetWifiOpmode, TypeOK, soft, link
<1>3. CASE SetWifiOpmodeAborts
  BY <1>3, RestartTyped DEF SetWifiOpmodeAborts
<1>4. CASE RecvSoftAp
  <2>1. PICK f \in Field :
          /\ Take(f)
          /\ ap_config' = With(ap_config, Head(btcq))
          /\ esp_wifi_set_config(ap_config')
          /\ sent' = [sent EXCEPT ![f] = Head(btcq).value]
          /\ early' = (mode \notin HasAp)
          /\ UNCHANGED <<mode, air, task, btc, link, asked, ops>>
    BY <1>4 DEF RecvSoftAp
  <2>2. btcq' \in Seq(Job) /\ Len(btcq') <= MaxBtcq
        /\ Head(btcq) \in Job /\ Head(btcq).type = f
    BY <2>1, TakeTyped
  <2>3. IsApConfig(ap_config') /\ IsApConfig(sent')
    BY <2>1, <2>2, WithTyped, SentTyped DEF TypeOK
  <2>4. IsApConfig(softap')
    BY <2>1, <2>3 DEF esp_wifi_set_config, TypeOK
  <2>5. early' \in BOOLEAN
    BY <2>1
  <2> QED
    BY <2>1, <2>2, <2>3, <2>4, <2>5 DEF TypeOK, air, task, link
<1>5. CASE RecvSoftApOutOfRange
  <2>1. btcq' \in Seq(Job) /\ Len(btcq') <= MaxBtcq
    BY <1>5, TakeTyped DEF RecvSoftApOutOfRange
  <2> QED
    BY <1>5, <2>1 DEF RecvSoftApOutOfRange, TypeOK, soft, air, task, link
<1>6. CASE GetWifiList
  <2>1. btcq' \in Seq(Job) /\ Len(btcq') <= MaxBtcq
    BY <1>6, TakeTyped DEF GetWifiList
  <2>2. scan' \in BOOLEAN /\ records' \in 0..MaxAp /\ btc' \in {"idle", "scanning"} \cup Own
        /\ asked' \in BOOLEAN
    <3>1. asked' \in BOOLEAN
      BY <1>6 DEF GetWifiList, TypeOK
    <3>2. \/ scan' = TRUE /\ records' = 0 /\ btc' = "scanning"
          \/ UNCHANGED <<scan, records, btc>>
      BY <1>6 DEF GetWifiList
    <3>3. scan \in BOOLEAN /\ records \in 0..MaxAp /\ btc \in {"idle", "scanning"} \cup Own
      BY DEF TypeOK
    <3>4. 0 \in 0..MaxAp
      BY BoundAssumption
    <3>5. scan' \in BOOLEAN
      BY <3>2, <3>3
    <3>6. records' \in 0..MaxAp /\ btc' \in {"idle", "scanning"} \cup Own
      BY <3>2, <3>3, <3>4
    <3> QED
      BY <3>1, <3>5, <3>6
  <2>3. UNCHANGED <<mode, soft, station, task, link, ops>>
    BY <1>6 DEF GetWifiList
  <2> QED
    BY <2>1, <2>2, <2>3 DEF TypeOK, soft, task, link
<1>7. CASE SendWifiList \/ SendConnReport
  <2>1. btcq' \in Seq(Job) /\ Len(btcq') <= MaxBtcq
    BY <1>7, TakeTyped DEF SendWifiList, SendConnReport
  <2> QED
    BY <1>7, <2>1 DEF SendWifiList, SendConnReport, TypeOK, soft, air, task, link
<1> QED
  BY <1>1, <1>2, <1>3, <1>4, <1>5, <1>6, <1>7, <1>8, <1>9, <1>10 DEF Btc

LEMMA DriverTyped == TypeOK /\ (ScanDone \/ StationChanges \/ GotIp) => TypeOK'
<1> SUFFICES ASSUME TypeOK, ScanDone \/ StationChanges \/ GotIp PROVE TypeOK'
  OBVIOUS
<1>1. CASE ScanDone
  <2>1. PICK n \in 0..MaxAp : EndScan(n)
    BY <1>1 DEF ScanDone
  <2>2. /\ scan' \in BOOLEAN /\ records' \in 0..MaxAp /\ btc' = "idle"
        /\ evq' \in Seq({"REPORT", "SCAN_DONE"}) /\ asked' \in BOOLEAN
    BY <2>1, EndScanTyped
  <2>3. UNCHANGED <<mode, soft, station, handler, heap, btcq, link, ops>>
    BY <1>1 DEF ScanDone
  <2> QED
    BY <2>2, <2>3 DEF TypeOK, soft, link
<1>2. CASE StationChanges
  BY <1>2 DEF StationChanges, TypeOK, soft, task, link
<1>3. CASE GotIp
  <2>1. evq' \in Seq({"REPORT", "SCAN_DONE"}) /\ ops' \in 0..MaxOps
    BY <1>3 DEF GotIp, TypeOK
  <2> QED
    BY <1>3, <2>1 DEF GotIp, TypeOK, soft, air, link
<1> QED
  BY <1>1, <1>2, <1>3

LEMMA EventTaskTyped == TypeOK /\ EventTask => TypeOK'
<1> SUFFICES ASSUME TypeOK, EventTask PROVE TypeOK'
  OBVIOUS
<1>1. evq # <<>> => Tail(evq) \in Seq({"REPORT", "SCAN_DONE"})
  BY DEF TypeOK
<1>2. CASE Report
  <2>1. evq' \in Seq({"REPORT", "SCAN_DONE"})
    BY <1>1, <1>2 DEF Report, Pending
  <2>2. handler' \in {"idle", "reporting"}
        /\ UNCHANGED <<mode, soft, air, heap, btcq, btc, link, asked, ops>>
    BY <1>2 DEF Report
  <2> QED
    BY <2>1, <2>2 DEF TypeOK, soft, air, link
<1>9. CASE ReportSend
  <2>1. btcq' \in Seq(Job) /\ Len(btcq') <= MaxBtcq
    BY <1>9, PostTyped, NotesTyped DEF ReportSend
  <2>2. /\ handler' = "idle"
        /\ UNCHANGED <<mode, soft, air, evq, heap, btc, link, asked, ops>>
    BY <1>9 DEF ReportSend
  <2> QED
    BY <2>1, <2>2 DEF TypeOK, soft, air, link
<1>3. CASE ScanEmpty
  <2>1. evq' \in Seq({"REPORT", "SCAN_DONE"})
    BY <1>1, <1>3 DEF ScanEmpty, Pending
  <2> QED
    BY <1>3, <2>1 DEF ScanEmpty, TypeOK, soft, air, link
<1>4. CASE ScanAborts
  BY <1>4, RestartTyped DEF ScanAborts
<1>5. CASE ScanNoMemory
  <2>1. evq' \in Seq({"REPORT", "SCAN_DONE"})
    BY <1>1, <1>5 DEF ScanNoMemory, Pending
  <2>2. records' \in 0..MaxAp /\ asked' \in BOOLEAN
    <3>1. records' = records \/ records' = 0
      BY <1>5 DEF ScanNoMemory
    <3>2. records \in 0..MaxAp /\ 0 \in 0..MaxAp
      BY BoundAssumption DEF TypeOK
    <3>3. asked' \in BOOLEAN
      BY <1>5 DEF ScanNoMemory
    <3> QED
      BY <3>1, <3>2, <3>3
  <2>3. UNCHANGED <<mode, soft, station, scan, handler, heap, btcq, btc, link, ops>>
    BY <1>5 DEF ScanNoMemory
  <2> QED
    BY <2>1, <2>2, <2>3 DEF TypeOK, soft, link
<1>6. CASE ScanList
  <2>1. evq' \in Seq({"REPORT", "SCAN_DONE"})
    BY <1>1, <1>6 DEF ScanList, Pending
  <2>2. /\ records' = 0 /\ heap' = {"ap_list", "blufi_ap_list"}
        /\ handler' \in {"listed", "sent"}
        /\ UNCHANGED <<mode, soft, station, scan, btcq, btc, link, asked, ops>>
    BY <1>6 DEF ScanList
  <2> QED
    BY <2>1, <2>2 DEF TypeOK, soft, link
<1>7. CASE ScanSend
  <2>1. btcq' \in Seq(Job) /\ Len(btcq') <= MaxBtcq
    BY <1>7, PostTyped, NotesTyped DEF ScanSend
  <2>2. /\ handler' = "sent"
        /\ UNCHANGED <<mode, soft, air, evq, heap, btc, link, asked, ops>>
    BY <1>7 DEF ScanSend
  <2> QED
    BY <2>1, <2>2 DEF TypeOK, soft, air, link
<1>8. CASE ScanStop
  <2>1. /\ scan' \in BOOLEAN /\ records' \in 0..MaxAp /\ btc' \in {"idle", btc}
        /\ evq' \in Seq({"REPORT", "SCAN_DONE"}) /\ asked' \in BOOLEAN
    <3>1. CASE scan
      <4>1. PICK n \in 0..MaxAp : EndScan(n)
        BY <1>8, <3>1 DEF ScanStop
      <4> QED
        BY <4>1, EndScanTyped
    <3>2. CASE ~scan
      BY <1>8, <3>2 DEF ScanStop, TypeOK
    <3> QED
      BY <3>1, <3>2
  <2>2. /\ heap' = {} /\ handler' = "idle"
        /\ UNCHANGED <<mode, soft, station, btcq, link, ops>>
    BY <1>8 DEF ScanStop
  <2> QED
    BY <2>1, <2>2 DEF TypeOK, soft, link
<1> QED
  BY <1>2, <1>3, <1>4, <1>5, <1>6, <1>7, <1>8, <1>9 DEF EventTask

LEMMA TypeStep == TypeOK /\ [Next]_vars => TypeOK'
<1>1. TypeOK /\ Next => TypeOK'
  BY HostTyped, BtcTyped, DriverTyped, EventTaskTyped, RestartTyped DEF Next
<1>2. TypeOK /\ UNCHANGED vars => TypeOK'
  BY DEF vars, soft, air, task, link, TypeOK
<1> QED
  BY <1>1, <1>2

---------------------------------------------------------------------------
(* The two safety properties.                                              *)

LEMMA LeftBehindStep == NothingLeftBehind /\ TypeOK /\ [Next]_vars => NothingLeftBehind'
<1> SUFFICES ASSUME NothingLeftBehind, TypeOK, [Next]_vars PROVE NothingLeftBehind'
  OBVIOUS
<1>1. CASE Restart \/ SetWifiOpmodeAborts \/ ScanAborts
  BY <1>1 DEF SetWifiOpmodeAborts, ScanAborts, Restart, NothingLeftBehind
<1>2. CASE Host \/ UNCHANGED vars
  BY <1>2 DEF Host, LinkUp, LinkDown, Ask, Phone, vars, air, task, NothingLeftBehind
<1>9. CASE BleLink \/ Answer \/ BtcPost
  <2>1. UNCHANGED <<handler, heap, scan>>
    BY <1>9 DEF BleLink, Answer, BtcPost, air, task
  <2>2. btc # "scanning" /\ btc' # "scanning"
    BY <1>9 DEF BleLink, Answer, BtcPost, Take, Ready, Own
  <2> QED
    BY <2>1, <2>2 DEF NothingLeftBehind
<1>3. CASE SetWifiOpmode \/ RecvSoftAp \/ RecvSoftApOutOfRange \/ RunOwn
             \/ SendWifiList \/ SendConnReport \/ StationChanges \/ GotIp
  <2>1. UNCHANGED <<handler, heap, btc, scan>>
    BY <1>3
    DEF SetWifiOpmode, RecvSoftAp, RecvSoftApOutOfRange, RunOwn, SendWifiList,
        SendConnReport, StationChanges, GotIp, air, task
  <2> QED
    BY <2>1 DEF NothingLeftBehind
<1>4. CASE GetWifiList
  <2>1. UNCHANGED <<handler, heap>>
    BY <1>4 DEF GetWifiList, task
  <2>2. (scan' = TRUE /\ btc' = "scanning") \/ UNCHANGED <<scan, btc>>
    BY <1>4 DEF GetWifiList
  <2> QED
    BY <2>1, <2>2 DEF NothingLeftBehind
<1>5. CASE ScanDone
  BY <1>5 DEF ScanDone, EndScan, NothingLeftBehind
<1>6. CASE ScanEmpty \/ ScanNoMemory
  <2>1. UNCHANGED <<handler, heap, btc, scan>>
    BY <1>6 DEF ScanEmpty, ScanNoMemory, air
  <2> QED
    BY <2>1 DEF NothingLeftBehind
<1>10. CASE Report \/ ReportSend
  <2>1. {handler, handler'} \subseteq {"idle", "reporting"} /\ UNCHANGED <<heap, btc, scan>>
    BY <1>10 DEF Report, ReportSend, Pending, air
  <2> QED
    BY <2>1 DEF NothingLeftBehind
<1>7. CASE ScanList \/ ScanSend
  BY <1>7 DEF ScanList, ScanSend, air, NothingLeftBehind
<1>8. CASE ScanStop
  BY <1>8 DEF ScanStop, EndScan, NothingLeftBehind
<1> QED
  BY <1>1, <1>2, <1>3, <1>4, <1>5, <1>6, <1>7, <1>8, <1>9, <1>10 DEF Next, Btc, EventTask

LEMMA SoftApStep ==
    TypeOK /\ CopyIsSent /\ SoftApAsSent /\ [Next]_vars => CopyIsSent' /\ SoftApAsSent'
<1> SUFFICES ASSUME TypeOK, CopyIsSent, SoftApAsSent, [Next]_vars
             PROVE  CopyIsSent' /\ SoftApAsSent'
  OBVIOUS
<1>1. CASE UNCHANGED soft
  BY <1>1 DEF soft, CopyIsSent, SoftApAsSent, Sensible
<1>2. CASE Restart
  <2>1. ap_config' = sent' /\ sent'["ssid"] \notin Ssid
    BY <1>2 DEF Restart, Zeros, Field
  <2> QED
    BY <2>1 DEF CopyIsSent, SoftApAsSent
<1>3. CASE RecvSoftAp
  <2>1. PICK f \in Field :
          /\ Take(f)
          /\ ap_config' = With(ap_config, Head(btcq))
          /\ esp_wifi_set_config(ap_config')
          /\ sent' = [sent EXCEPT ![f] = Head(btcq).value]
          /\ early' = (mode \notin HasAp)
    BY <1>3 DEF RecvSoftAp
  <2>2. Head(btcq) \in Job /\ Head(btcq).type = f
    BY <2>1, TakeTyped
  <2>3. IsApConfig(ap_config) /\ IsApConfig(sent)
    BY DEF TypeOK
  <2>4. /\ IsApConfig(ap_config') /\ ap_config'[f] = Head(btcq).value
        /\ \A g \in Field : g \notin {f, "password"} => ap_config'[g] = ap_config[g]
    BY <2>1, <2>2, <2>3, WithTyped
  <2>5. /\ IsApConfig(sent') /\ sent'[f] = Head(btcq).value
        /\ \A g \in Field : g # f => sent'[g] = sent[g]
    <3> DEFINE job == Head(btcq)
    <3>1. sent' = [sent EXCEPT ![job.type] = job.value]
      BY <2>1, <2>2
    <3>2. job \in Job /\ job.type \in Field /\ job.type = f
      BY <2>2
    <3> HIDE DEF job
    <3>3. /\ IsApConfig(sent') /\ sent'[job.type] = job.value
          /\ \A g \in Field : g # job.type => sent'[g] = sent[g]
      BY <2>3, <3>1, <3>2, SentTyped
    <3> QED
      BY <3>2, <3>3 DEF job
  <2>6. CopyIsSent'
    BY <2>4, <2>5 DEF CopyIsSent
  <2>7. ASSUME ~early', sent'["ssid"] \in Ssid, Sensible(sent'),
               ap_config'["password"] = sent'["password"]
        PROVE  softap' = sent'
    <3>1. \A g \in Field : ap_config'[g] = sent'[g]
      BY <2>6, <2>7 DEF CopyIsSent
    <3>2. ap_config' = sent'
      BY <2>4, <2>5, <3>1 DEF IsApConfig
    <3>3. mode \in HasAp /\ ap_config'["ssid"] # "none"
      BY <2>1, <2>7, <3>2
    <3> QED
      BY <2>1, <2>7, <3>2, <3>3 DEF esp_wifi_set_config
  <2> QED
    BY <2>6, <2>7 DEF SoftApAsSent
<1>4. Next => UNCHANGED soft \/ Restart \/ RecvSoftAp
  BY DEF Next, Host, LinkUp, LinkDown, Ask, Phone, Btc, BtcPost, RunOwn, BleLink,
         Answer, SetWifiOpmode, SetWifiOpmodeAborts, RecvSoftApOutOfRange, GetWifiList,
         SendWifiList, SendConnReport, ScanDone, StationChanges, GotIp, EventTask, Report,
         ReportSend, ScanEmpty, ScanAborts, ScanNoMemory, ScanList, ScanSend, ScanStop
<1> QED
  BY <1>1, <1>2, <1>3, <1>4 DEF vars

---------------------------------------------------------------------------
(* The list of access points: BTC's view of the link, at each place of its *)
(* queue.                                                                  *)

\* Will the link be up for BTC when it gets to place i of queue q?
UpAt(q, up, i) ==
    \/ up /\ \A j \in 1..(i - 1) : q[j].type # "disconnect"
    \/ \E k \in 1..(i - 1) : /\ q[k].type = "connect"
                            /\ \A j \in k..(i - 1) : q[j].type # "disconnect"

\* For BTC the phone is there when a request for the list comes, and once BTC has
\* caught up with the host.
LinkInv ==
    /\ conn => UpAt(btcq, ble_is_connected, Len(btcq) + 1)
    /\ \A i \in 1..Len(btcq) : btcq[i].type = "list" => UpAt(btcq, ble_is_connected, i)

\* Taking a job off the queue.
LEMMA UpTail ==
    ASSUME NEW S, NEW q \in Seq(S), q # <<>>, NEW up, NEW up2,
           q[1].type = "connect" => up2,
           (up /\ q[1].type # "disconnect") => up2,
           NEW i \in Nat, 2 <= i, i <= Len(q) + 1, UpAt(q, up, i)
    PROVE  UpAt(Tail(q), up2, i - 1)
<1>1. Len(Tail(q)) = Len(q) - 1 /\ Len(q) \in Nat
  OBVIOUS
<1>2. \A j \in 1..(i - 2) : Tail(q)[j] = q[j + 1]
  BY <1>1
<1>3. CASE up /\ \A j \in 1..(i - 1) : q[j].type # "disconnect"
  <2>1. up2
    BY <1>3
  <2>2. ASSUME NEW j \in 1..(i - 2) PROVE Tail(q)[j].type # "disconnect"
    <3>1. j + 1 \in 1..(i - 1)
      OBVIOUS
    <3>2. q[j + 1].type # "disconnect"
      BY <3>1, <1>3
    <3> QED
      BY <3>2, <1>2
  <2> QED
    BY <2>1, <2>2 DEF UpAt
<1>4. ASSUME NEW k \in 1..(i - 1), q[k].type = "connect",
             \A j \in k..(i - 1) : q[j].type # "disconnect"
      PROVE  UpAt(Tail(q), up2, i - 1)
  <2>1. ASSUME NEW j \in 1..(i - 2), j + 1 >= k PROVE Tail(q)[j].type # "disconnect"
    <3>1. j + 1 \in k..(i - 1)
      BY <2>1
    <3>2. q[j + 1].type # "disconnect"
      BY <3>1, <1>4
    <3> QED
      BY <3>2, <1>2
  <2>2. CASE k = 1
    <3>1. up2 /\ \A j \in 1..(i - 2) : Tail(q)[j].type # "disconnect"
      BY <1>4, <2>1, <2>2
    <3> QED
      BY <3>1 DEF UpAt
  <2>3. CASE k # 1
    <3>1. k - 1 \in 1..(i - 2) /\ Tail(q)[k - 1].type = "connect"
      BY <1>2, <1>4, <2>3
    <3>2. \A j \in (k - 1)..(i - 2) : Tail(q)[j].type # "disconnect"
      BY <2>1, <3>1
    <3>3. (i - 1) - 1 = i - 2
      OBVIOUS
    <3> QED
      BY <3>1, <3>2, <3>3, Zenon DEF UpAt
  <2> QED
    BY <2>2, <2>3
<1> QED
  BY <1>3, <1>4 DEF UpAt

\* Putting a job behind the queue changes nothing in front of it.
LEMMA UpBefore ==
    ASSUME NEW S, NEW q \in Seq(S), NEW job \in S, NEW up, NEW i \in 1..(Len(q) + 1)
    PROVE  UpAt(Append(q, job), up, i) = UpAt(q, up, i)
<1>1. \A j \in 1..(i - 1) : Append(q, job)[j] = q[j]
  OBVIOUS
<1> QED
  BY <1>1 DEF UpAt

\* What a job does to the link behind it.
LEMMA UpBehind ==
    ASSUME NEW S, NEW q \in Seq(S), NEW job \in S, NEW up,
           job.type = "connect" \/ (job.type # "disconnect" /\ UpAt(q, up, Len(q) + 1))
    PROVE  UpAt(Append(q, job), up, Len(q) + 2)
<1>1. \A j \in 1..Len(q) : Append(q, job)[j] = q[j]
  OBVIOUS
<1>2. Append(q, job)[Len(q) + 1] = job /\ Len(q) \in Nat
  OBVIOUS
<1>3. CASE job.type = "connect"
  <2>1. \A j \in (Len(q) + 1)..(Len(q) + 1) : Append(q, job)[j].type # "disconnect"
    BY <1>2, <1>3
  <2> QED
    BY <1>2, <1>3, <2>1 DEF UpAt
<1>4. CASE job.type # "disconnect" /\ UpAt(q, up, Len(q) + 1)
  <2>1. \A j \in 1..(Len(q) + 1) : j = Len(q) + 1 \/ j \in 1..Len(q)
    BY <1>2
  <2>2. ASSUME up, \A j \in 1..Len(q) : q[j].type # "disconnect"
        PROVE  UpAt(Append(q, job), up, Len(q) + 2)
    <3>1. \A j \in 1..(Len(q) + 1) : Append(q, job)[j].type # "disconnect"
      BY <1>1, <1>2, <1>4, <2>1, <2>2
    <3> QED
      BY <1>2, <2>2, <3>1 DEF UpAt
  <2>3. ASSUME NEW k \in 1..Len(q), q[k].type = "connect",
               \A j \in k..Len(q) : q[j].type # "disconnect"
        PROVE  UpAt(Append(q, job), up, Len(q) + 2)
    <3>1. k \in 1..(Len(q) + 1) /\ Append(q, job)[k].type = "connect"
      BY <1>1, <1>2, <2>3
    <3>2. \A j \in k..(Len(q) + 1) : Append(q, job)[j].type # "disconnect"
      BY <1>1, <1>2, <1>4, <2>1, <2>3
    <3> QED
      BY <1>2, <3>1, <3>2 DEF UpAt
  <2> QED
    BY <1>2, <1>4, <2>2, <2>3 DEF UpAt
<1> QED
  BY <1>3, <1>4

LEMMA Taken ==
    ASSUME TypeOK, NEW type, Take(type)
    PROVE  btcq # <<>> /\ btcq' = Tail(btcq) /\ btcq[1].type = type
<1>1. btcq \in Seq(Job) /\ btcq # <<>>
  BY DEF TypeOK, Take, Ready
<1>2. Head(btcq) = btcq[1]
  BY <1>1
<1> QED
  BY <1>1, <1>2 DEF Take, Ready

LEMMA CommandTyped ==
    ASSUME NEW c \in Command
    PROVE  c.type \notin Own \cup {"connect", "disconnect", "send list", "send report"}
<1>1. CASE \E f \in Field : c \in {[type |-> f, value |-> v] : v \in Values[f]}
  <2>1. PICK f \in Field : c \in {[type |-> f, value |-> v] : v \in Values[f]}
    BY <1>1
  <2>2. PICK v \in Values[f] : c = [type |-> f, value |-> v]
    BY <2>1
  <2>3. c.type = f
    BY <2>2
  <2> QED
    BY <2>3 DEF Field, Own
<1>2. CASE c \in {[type |-> "mode", value |-> m] : m \in Mode \cup {"unknown"}}
  <2>1. PICK m \in Mode \cup {"unknown"} : c = [type |-> "mode", value |-> m]
    BY <1>2
  <2>2. c.type = "mode"
    BY <2>1
  <2> QED
    BY <2>2 DEF Own
<1>3. CASE c \in {[type |-> type, value |-> "none"] : type \in {"list", "answer"}}
  <2>1. c.type \in {"list", "answer"}
    BY <1>3
  <2> QED
    BY <2>1 DEF Own
<1>4. c \in {[type |-> "mode", value |-> m] : m \in Mode \cup {"unknown"}}
      \/ c \in {[type |-> type, value |-> "none"] : type \in {"list", "answer"}}
      \/ \E f \in Field : c \in {[type |-> f, value |-> v] : v \in Values[f]}
  BY DEF Command
<1> QED
  BY <1>1, <1>2, <1>3, <1>4

\* The link and the queue change together in one of these ways.
LEMMA LinkInvStep == TypeOK /\ LinkInv /\ [Next]_vars => LinkInv'
<1> SUFFICES ASSUME TypeOK, LinkInv, [Next]_vars PROVE LinkInv'
  OBVIOUS
<1>0. btcq \in Seq(Job) /\ Len(btcq) \in Nat
  BY DEF TypeOK
<1>1. CASE UNCHANGED <<btcq, conn, ble_is_connected>>
  BY <1>1 DEF LinkInv, UpAt
<1>2. CASE Restart
  BY <1>2 DEF Restart, LinkInv
<1>3. ASSUME btcq # <<>>, btcq' = Tail(btcq), UNCHANGED conn,
             btcq[1].type = "connect" => ble_is_connected',
             (ble_is_connected /\ btcq[1].type # "disconnect") => ble_is_connected'
      PROVE  LinkInv'
  <2>1. Len(btcq') = Len(btcq) - 1 /\ Len(btcq) >= 1
        /\ \A i \in 1..Len(btcq') : i + 1 \in 1..Len(btcq) /\ btcq'[i] = btcq[i + 1]
    BY <1>0, <1>3
  <2>2. ASSUME NEW i \in 1..Len(btcq), UpAt(btcq, ble_is_connected, i + 1)
        PROVE  UpAt(btcq', ble_is_connected', i)
    <3>1. UpAt(Tail(btcq), ble_is_connected', (i + 1) - 1)
      <4> DEFINE n == i + 1
      <4>1. n \in Nat /\ 2 <= n /\ n <= Len(btcq) + 1
        BY <1>0
      <4> HIDE DEF n
      <4>2. UpAt(btcq, ble_is_connected, n)
        BY <2>2 DEF n
      <4>3. UpAt(Tail(btcq), ble_is_connected', n - 1)
        BY <1>0, <1>3, <4>1, <4>2, UpTail
      <4> QED
        BY <4>3 DEF n
    <3>2. (i + 1) - 1 = i
      OBVIOUS
    <3> QED
      BY <1>3, <3>1, <3>2
  <2>3. conn' => UpAt(btcq', ble_is_connected', Len(btcq') + 1)
    <3>1. Len(btcq') + 1 = Len(btcq) /\ Len(btcq) \in 1..Len(btcq)
      BY <1>0, <2>1
    <3> QED
      BY <1>3, <2>2, <3>1 DEF LinkInv
  <2>4. \A i \in 1..Len(btcq') :
           btcq'[i].type = "list" => UpAt(btcq', ble_is_connected', i)
    <3> SUFFICES ASSUME NEW i \in 1..Len(btcq'), btcq'[i].type = "list"
                 PROVE  UpAt(btcq', ble_is_connected', i)
      OBVIOUS
    <3>1. i + 1 \in 1..Len(btcq) /\ i \in 1..Len(btcq) /\ btcq[i + 1].type = "list"
      BY <2>1
    <3>2. UpAt(btcq, ble_is_connected, i + 1)
      BY <3>1 DEF LinkInv
    <3> QED
      BY <2>2, <3>1, <3>2
  <2> QED
    BY <2>3, <2>4 DEF LinkInv
<1>4. ASSUME NEW job \in Job, btcq' = Append(btcq, job), UNCHANGED ble_is_connected,
             conn' => job.type = "connect" \/ (job.type # "disconnect" /\ conn),
             job.type = "list" => conn
      PROVE  LinkInv'
  <2>1. Len(btcq') = Len(btcq) + 1 /\ btcq'[Len(btcq) + 1] = job
        /\ \A i \in 1..Len(btcq) : btcq'[i] = btcq[i]
    BY <1>0, <1>4
  <2>2. \A i \in 1..(Len(btcq) + 1) :
           UpAt(btcq', ble_is_connected', i) = UpAt(btcq, ble_is_connected, i)
    BY <1>0, <1>4, UpBefore
  <2>3. conn' => UpAt(btcq', ble_is_connected', Len(btcq') + 1)
    <3> SUFFICES ASSUME conn' PROVE UpAt(btcq', ble_is_connected', Len(btcq') + 1)
      OBVIOUS
    <3>1. job.type = "connect"
          \/ (job.type # "disconnect" /\ UpAt(btcq, ble_is_connected, Len(btcq) + 1))
      BY <1>4 DEF LinkInv
    <3>2. UpAt(Append(btcq, job), ble_is_connected, Len(btcq) + 2)
      BY <1>0, <3>1, UpBehind
    <3>3. Len(btcq') + 1 = Len(btcq) + 2
      BY <1>0, <2>1
    <3> QED
      BY <1>4, <3>2, <3>3
  <2>4. ASSUME NEW i \in 1..Len(btcq'), btcq'[i].type = "list"
        PROVE  UpAt(btcq', ble_is_connected', i)
    <3>1. UpAt(btcq, ble_is_connected, i)
      <4>1. CASE i = Len(btcq) + 1
        BY <1>4, <2>1, <2>4, <4>1 DEF LinkInv
      <4>2. CASE i # Len(btcq) + 1
        <5>1. i \in 1..Len(btcq) /\ btcq[i].type = "list"
          BY <1>0, <2>1, <2>4, <4>2
        <5> QED
          BY <5>1 DEF LinkInv
      <4> QED
        BY <4>1, <4>2
    <3> QED
      BY <1>0, <2>1, <2>2, <3>1
  <2> QED
    BY <2>3, <2>4 DEF LinkInv
<1>5. CASE Host
  <2>1. CASE LinkUp
    BY <1>4, <2>1, NotesTyped DEF LinkUp, Post, Phone, Note
  <2>2. CASE LinkDown
    BY <1>4, <2>2, NotesTyped DEF LinkDown, Post, Phone, Note
  <2>3. CASE Ask
    <3>1. PICK c \in Command : Post(c)
      BY <2>3 DEF Ask
    <3>2. c \in Job
      BY DEF Job
    <3>3. c.type # "disconnect"
      BY CommandTyped
    <3> QED
      BY <1>4, <2>3, <3>1, <3>2, <3>3 DEF Ask, Post, Phone
  <2> QED
    BY <1>5, <2>1, <2>2, <2>3 DEF Host
<1>6. CASE Btc
  <2>1. CASE SetWifiOpmodeAborts
    BY <1>2, <2>1 DEF SetWifiOpmodeAborts
  <2>2. ASSUME NEW type, Take(type), type \notin {"connect", "disconnect"},
               UNCHANGED link
        PROVE  LinkInv'
    BY <1>3, <2>2 DEF Take, Ready, link
  <2>3. CASE BleLink
    <3>1. UNCHANGED conn
      BY <2>3 DEF BleLink
    <3>2. CASE Take("connect") /\ ble_is_connected' = TRUE
      <4>1. btcq # <<>> /\ btcq' = Tail(btcq) /\ btcq[1].type = "connect"
        BY <3>2, Taken
      <4> QED
        BY <1>3, <3>1, <3>2, <4>1
    <3>3. CASE Take("disconnect") /\ ble_is_connected' = FALSE
      <4>1. btcq # <<>> /\ btcq' = Tail(btcq) /\ btcq[1].type = "disconnect"
        BY <3>3, Taken
      <4> QED
        BY <1>3, <3>1, <4>1
    <3> QED
      BY <2>3, <3>2, <3>3 DEF BleLink
  <2>6. CASE RunOwn
    <3>1. PICK type \in Own : Take(type) /\ UNCHANGED <<conn, ble_is_connected>>
      BY <2>6 DEF RunOwn, Own
    <3>2. type \notin {"connect", "disconnect"}
      BY DEF Own
    <3> QED
      BY <1>3, <3>1, <3>2 DEF Take, Ready
  <2>7. CASE BtcPost
    <3>1. Note(btc) \in Job /\ Note(btc).type = btc
      BY <2>7, NotesTyped DEF BtcPost, Note
    <3>2. btc \notin {"connect", "disconnect", "list"}
      BY <2>7 DEF BtcPost, Own
    <3>3. btcq' = Append(btcq, Note(btc)) /\ UNCHANGED <<conn, ble_is_connected>>
      BY <2>7 DEF BtcPost, Post, link
    <3> QED
      BY <1>4, <3>1, <3>2, <3>3
  <2>4. CASE RecvSoftAp \/ RecvSoftApOutOfRange
    <3>1. PICK f \in Field : Take(f) /\ UNCHANGED link
      BY <2>4 DEF RecvSoftAp, RecvSoftApOutOfRange
    <3> QED
      BY <2>2, <3>1 DEF Field
  <2>5. CASE SetWifiOpmode \/ GetWifiList \/ SendWifiList \/ SendConnReport \/ Answer
    BY <2>2, <2>5 DEF SetWifiOpmode, GetWifiList, SendWifiList, SendConnReport, Answer
  <2> QED
    BY <1>6, <2>1, <2>3, <2>4, <2>5, <2>6, <2>7 DEF Btc
<1>7. CASE ScanDone \/ StationChanges \/ GotIp \/ EventTask
  <2>1. CASE ScanAborts
    BY <1>2, <2>1 DEF ScanAborts
  <2>2. CASE ReportSend
    BY <1>4, <2>2, NotesTyped DEF ReportSend, Post, Note, link
  <2>3. CASE ScanSend
    BY <1>4, <2>3, NotesTyped DEF ScanSend, Post, Note, link
  <2>4. CASE ScanDone \/ StationChanges \/ GotIp \/ Report \/ ScanEmpty \/ ScanNoMemory
               \/ ScanList \/ ScanStop
    <3>1. UNCHANGED <<btcq, conn, ble_is_connected>>
      BY <2>4
      DEF ScanDone, StationChanges, GotIp, Report, ScanEmpty, ScanNoMemory, ScanList, ScanStop, link
    <3> QED
      BY <1>1, <3>1
  <2> QED
    BY <1>7, <2>1, <2>2, <2>3, <2>4 DEF EventTask
<1> QED
  BY <1>1, <1>2, <1>5, <1>6, <1>7 DEF Next, vars, link

\* Is there a job of this type in queue q?
In(q, type) == \E i \in 1..Len(q) : q[i].type = type

LEMMA InTail ==
    ASSUME NEW S, NEW q \in Seq(S), q # <<>>, NEW type, q[1].type # type
    PROVE  In(Tail(q), type) <=> In(q, type)
<1>1. Len(q) \in Nat /\ Len(Tail(q)) = Len(q) - 1
  OBVIOUS
<1>2. \A i \in 1..(Len(q) - 1) : Tail(q)[i] = q[i + 1] /\ i + 1 \in 1..Len(q)
  BY <1>1
<1>3. \A i \in 1..Len(q) : i # 1 => i - 1 \in 1..(Len(q) - 1) /\ Tail(q)[i - 1] = q[i]
  BY <1>1
<1> QED
  BY <1>1, <1>2, <1>3 DEF In

LEMMA InAppend ==
    ASSUME NEW S, NEW q \in Seq(S), NEW job \in S, NEW type
    PROVE  In(Append(q, job), type) <=> (In(q, type) \/ job.type = type)
<1>1. Len(q) \in Nat /\ Len(Append(q, job)) = Len(q) + 1
  OBVIOUS
<1>2. /\ Append(q, job)[Len(q) + 1] = job
      /\ \A i \in 1..Len(q) : Append(q, job)[i] = q[i]
  OBVIOUS
<1>3. \A i \in 1..(Len(q) + 1) : i = Len(q) + 1 \/ i \in 1..Len(q)
  BY <1>1
<1>4. Len(q) + 1 \in 1..(Len(q) + 1) /\ \A i \in 1..Len(q) : i \in 1..(Len(q) + 1)
  BY <1>1
<1> QED
  BY <1>1, <1>2, <1>3, <1>4 DEF In

LEMMA QueuedIn ==
    ASSUME NEW type, btcq \in Seq(Job)
    PROVE  Queued(type) <=> In(btcq, type)
<1>1. DOMAIN btcq = 1..Len(btcq)
  OBVIOUS
<1> QED
  BY <1>1 DEF Queued, In

LEMMA QueuedInAfter ==
    ASSUME NEW type, btcq' \in Seq(Job)
    PROVE  Queued(type)' <=> In(btcq', type)
<1>1. DOMAIN btcq' = 1..Len(btcq')
  OBVIOUS
<1> QED
  BY <1>1 DEF Queued, In

\* What takes the list from one stage to the next is always there: a job put behind
\* the queue, or one of another type taken off it, changes nothing for the others.
LEMMA QueuedAfter ==
    ASSUME TypeOK, TypeOK', NEW type,
           \/ UNCHANGED btcq
           \/ /\ btcq # <<>> /\ btcq' = Tail(btcq)
              /\ btcq[1].type # type
           \/ \E job \in Job : btcq' = Append(btcq, job) /\ job.type # type
    PROVE  Queued(type)' <=> Queued(type)
<1>1. btcq \in Seq(Job) /\ btcq' \in Seq(Job)
  BY DEF TypeOK
<1>2. In(btcq', type) <=> In(btcq, type)
  <2>1. CASE UNCHANGED btcq
    BY <2>1 DEF In
  <2>2. CASE btcq # <<>> /\ btcq' = Tail(btcq) /\ btcq[1].type # type
    BY <1>1, <2>2, InTail
  <2>3. CASE \E job \in Job : btcq' = Append(btcq, job) /\ job.type # type
    <3>1. PICK job \in Job : btcq' = Append(btcq, job) /\ job.type # type
      BY <2>3
    <3>2. In(Append(btcq, job), type) <=> (In(btcq, type) \/ job.type = type)
      BY <1>1, InAppend
    <3> QED
      BY <3>1, <3>2
  <2> QED
    BY <2>1, <2>2, <2>3
<1> QED
  BY <1>1, <1>2, QueuedIn, QueuedInAfter

\* A job put behind the queue is in it.
LEMMA QueuedBehind ==
    ASSUME TypeOK, TypeOK', NEW job \in Job, btcq' = Append(btcq, job)
    PROVE  Queued(job.type)'
<1>1. btcq \in Seq(Job) /\ btcq' \in Seq(Job)
  BY DEF TypeOK
<1>2. In(btcq', job.type)
  BY <1>1, InAppend
<1> QED
  BY <1>1, <1>2, QueuedInAfter

\* Does the event of a scan wait?
ScanEvent == \E i \in DOMAIN evq : evq[i] = "SCAN_DONE"

LEMMA ScanEventPosted ==
    ASSUME TypeOK, NEW e, e \in {"REPORT", "SCAN_DONE"}, evq' = Append(evq, e)
    PROVE  (ScanEvent \/ e = "SCAN_DONE") => ScanEvent'
<1>1. evq \in Seq({"REPORT", "SCAN_DONE"}) /\ Len(evq) \in Nat
  BY DEF TypeOK
<1>2. Len(evq) + 1 \in DOMAIN evq' /\ evq'[Len(evq) + 1] = e
      /\ \A i \in DOMAIN evq : i \in DOMAIN evq' /\ evq'[i] = evq[i]
  BY <1>1
<1> QED
  BY <1>2 DEF ScanEvent

LEMMA ScanEventStays ==
    ASSUME TypeOK, evq # <<>>, evq' = Tail(evq), Head(evq) # "SCAN_DONE", ScanEvent
    PROVE  ScanEvent'
<1>1. evq \in Seq({"REPORT", "SCAN_DONE"}) /\ Len(evq) \in Nat
  BY DEF TypeOK
<1>2. PICK i \in DOMAIN evq : evq[i] = "SCAN_DONE"
  BY DEF ScanEvent
<1>3. i - 1 \in DOMAIN evq' /\ evq'[i - 1] = evq[i]
  BY <1>1, <1>2
<1> QED
  BY <1>2, <1>3 DEF ScanEvent

\* A phone that asked for the list is there, also for BTC.
LEMMA ListStep ==
    TypeOK /\ TypeOK' /\ NothingLeftBehind /\ LinkInv /\ ListOnItsWay /\ [Next]_vars
      => ListOnItsWay'
<1> SUFFICES ASSUME TypeOK, TypeOK', NothingLeftBehind, LinkInv, ListOnItsWay,
                    [Next]_vars, asked'
             PROVE  ListOnItsWay'
  BY DEF ListOnItsWay
<1>0. btcq \in Seq(Job) /\ Len(btcq) \in Nat
  BY DEF TypeOK
<1> DEFINE There  == conn /\ ble_is_connected /\ ~Queued("disconnect")
           Coming == \/ scan
                     \/ records # 0 /\ ScanEvent
                     \/ handler = "listed"
                     \/ Queued("send list")
<1>1. asked => There /\ Coming
  BY DEF ListOnItsWay, ScanEvent
<1>2. SUFFICES There' /\ Coming'
  BY DEF ListOnItsWay, ScanEvent
<1>3. CASE UNCHANGED vars
  BY <1>1, <1>3 DEF vars, link, air, task, Queued, ScanEvent
<1>4. CASE Restart \/ SetWifiOpmodeAborts \/ ScanAborts \/ SendWifiList
             \/ ScanNoMemory \/ LinkDown
  BY <1>4 DEF Restart, SetWifiOpmodeAborts, ScanAborts, SendWifiList, ScanNoMemory, LinkDown
<1>5. CASE LinkUp
  BY <1>1, <1>5 DEF LinkUp
<1>6. CASE Ask
  <2>1. PICK job \in Command : Post(job)
    BY <1>6 DEF Ask
  <2>2. job \in Job
    BY DEF Job
  <2>3. job.type # "disconnect" /\ job.type # "send list"
    BY CommandTyped DEF Own
  <2>4. (Queued("disconnect")' <=> Queued("disconnect"))
        /\ (Queued("send list")' <=> Queued("send list"))
    BY <2>1, <2>2, <2>3, QueuedAfter DEF Post
  <2>5. UNCHANGED <<asked, conn, ble_is_connected, scan, records, evq, handler>>
    BY <1>6 DEF Ask, Phone, air, task
  <2> QED
    BY <1>1, <2>4, <2>5 DEF ScanEvent
\* Another job than the list is done by BTC.
<1>7. ASSUME NEW type, Take(type), type # "send list", type # "disconnect",
             UNCHANGED <<asked, conn, scan, records, handler>>,
             ble_is_connected => ble_is_connected', ScanEvent => ScanEvent'
      PROVE  There' /\ Coming'
  <2>1. btcq # <<>> /\ btcq' = Tail(btcq) /\ btcq[1].type = type
    BY <1>7, Taken
  <2>2. (Queued("disconnect")' <=> Queued("disconnect"))
        /\ (Queued("send list")' <=> Queued("send list"))
    BY <1>7, <2>1, QueuedAfter
  <2> QED
    BY <1>1, <1>7, <2>2
<1>8. CASE BleLink
  <2>1. ~Take("disconnect")
    <3>1. SUFFICES ASSUME Take("disconnect") PROVE FALSE
      OBVIOUS
    <3>2. btcq # <<>> /\ btcq[1].type = "disconnect"
      BY <3>1, Taken
    <3>3. In(btcq, "disconnect")
      BY <1>0, <3>2 DEF In
    <3> QED
      BY <1>0, <1>1, <1>8, <3>3, QueuedIn DEF BleLink
  <2> QED
    BY <1>7, <1>8, <2>1 DEF BleLink, air, task, ScanEvent
<1>9. CASE SetWifiOpmode
  <2>1. Take("mode") /\ UNCHANGED <<asked, conn, ble_is_connected, scan, records, handler>>
    BY <1>9 DEF SetWifiOpmode, link
  <2>2. evq' = Append(evq, "REPORT") \/ UNCHANGED evq
    BY <1>9 DEF SetWifiOpmode
  <2>3. ScanEvent => ScanEvent'
    BY <2>2, ScanEventPosted DEF ScanEvent
  <2> QED
    BY <1>7, <2>1, <2>3
<1>10. CASE RecvSoftAp \/ RecvSoftApOutOfRange \/ SendConnReport \/ Answer \/ RunOwn
  <2>1. PICK type \in Field \cup Own \cup {"send report", "answer"} : Take(type)
    BY <1>10 DEF RecvSoftAp, RecvSoftApOutOfRange, SendConnReport, Answer, RunOwn, Own
  <2>2. UNCHANGED <<asked, conn, ble_is_connected, air, task>>
    BY <1>10 DEF RecvSoftAp, RecvSoftApOutOfRange, SendConnReport, Answer, RunOwn, link
  <2>3. type # "send list" /\ type # "disconnect"
    BY DEF Field, Own
  <2> QED
    BY <1>7, <2>1, <2>2, <2>3 DEF air, task, ScanEvent
<1>19. CASE BtcPost
  <2>1. UNCHANGED <<asked, conn, ble_is_connected, scan, records, evq, handler>>
    BY <1>19 DEF BtcPost, link, air, task
  <2>2. btcq' = Append(btcq, Note(btc))
    BY <1>19 DEF BtcPost, Post
  <2>3. Note(btc) \in Job /\ Note(btc).type = btc
        /\ btc # "disconnect" /\ btc # "send list"
    BY <1>19, NotesTyped DEF BtcPost, Note, Own
  <2>4. (Queued("disconnect")' <=> Queued("disconnect"))
        /\ (Queued("send list")' <=> Queued("send list"))
    BY <2>2, <2>3, QueuedAfter
  <2> QED
    BY <1>1, <2>1, <2>4 DEF ScanEvent
<1>20. CASE GotIp
  <2>1. UNCHANGED <<asked, conn, ble_is_connected, scan, records, handler, btcq>>
    BY <1>20 DEF GotIp, link, air
  <2>2. ScanEvent => ScanEvent'
    BY <1>20, ScanEventPosted DEF GotIp
  <2> QED
    BY <1>1, <2>1, <2>2 DEF Queued
<1>21. CASE Report
  <2>1. UNCHANGED <<asked, conn, ble_is_connected, scan, records, btcq>>
        /\ handler = "idle"
    BY <1>21 DEF Report, Pending, link, air
  <2>2. ScanEvent => ScanEvent'
    BY <1>21, ScanEventStays DEF Report, Pending
  <2> QED
    BY <1>1, <2>1, <2>2 DEF Queued
<1>11. CASE GetWifiList
  <2>1. Take("list") /\ UNCHANGED <<conn, ble_is_connected, evq, handler>>
    BY <1>11 DEF GetWifiList, link, task
  <2>2. CASE UNCHANGED <<scan, records, asked>>
    BY <1>7, <2>1, <2>2 DEF ScanEvent
  <2>3. CASE scan' = TRUE /\ asked' = (conn /\ ~Queued("disconnect"))
    <3>1. conn /\ ~Queued("disconnect")
      BY <2>3
    <3>2. btcq # <<>> /\ btcq' = Tail(btcq) /\ btcq[1].type = "list"
      BY <2>1, Taken
    <3>3. ~Queued("disconnect")'
      BY <3>1, <3>2, QueuedAfter
    <3>4. UpAt(btcq, ble_is_connected, 1)
      BY <1>0, <3>2 DEF LinkInv
    <3>5. ble_is_connected
      BY <3>4 DEF UpAt
    <3> QED
      BY <2>1, <2>3, <3>1, <3>3, <3>5
  <2> QED
    BY <1>11, <2>2, <2>3 DEF GetWifiList
\* A scan ends, and has found something.
<1>12. ASSUME NEW n \in 0..MaxAp, EndScan(n),
              UNCHANGED <<conn, ble_is_connected, btcq>>
       PROVE  There' /\ Coming'
  <2>1. asked /\ records' # 0
    BY <1>12 DEF EndScan
  <2>2. ScanEvent'
    BY <1>12, ScanEventPosted DEF EndScan
  <2> QED
    BY <1>1, <1>12, <2>1, <2>2 DEF Queued
<1>13. CASE ScanDone
  BY <1>12, <1>13 DEF ScanDone, link
<1>14. CASE StationChanges \/ ScanList
  <2>1. UNCHANGED <<asked, conn, ble_is_connected, btcq>>
        /\ ((ble_is_connected => handler' = "listed")
              \/ UNCHANGED <<scan, records, evq, handler>>)
    BY <1>14 DEF StationChanges, ScanList, link, task
  <2> QED
    BY <1>1, <2>1 DEF Queued, ScanEvent
<1>15. CASE ReportSend
  <2>1. UNCHANGED <<asked, conn, ble_is_connected, scan, records, evq>>
        /\ handler = "reporting"
    BY <1>15 DEF ReportSend, link, air
  <2>2. btcq' = Append(btcq, Note("send report"))
    BY <1>15 DEF ReportSend, Post
  <2>3. Note("send report") \in Job /\ Note("send report").type = "send report"
    BY NotesTyped DEF Note
  <2>4. (Queued("disconnect")' <=> Queued("disconnect"))
        /\ (Queued("send list")' <=> Queued("send list"))
    BY <2>2, <2>3, QueuedAfter
  <2> QED
    BY <1>1, <2>1, <2>4 DEF ScanEvent
<1>16. CASE ScanEmpty
  <2>1. records = 0 /\ UNCHANGED <<asked, conn, ble_is_connected, scan, records, handler, btcq>>
    BY <1>16 DEF ScanEmpty, link, air
  <2> QED
    BY <1>1, <2>1 DEF Queued
<1>17. CASE ScanSend
  <2>1. UNCHANGED <<asked, conn, ble_is_connected>>
    BY <1>17 DEF ScanSend, link
  <2>2. btcq' = Append(btcq, Note("send list"))
    BY <1>17 DEF ScanSend, Post
  <2>3. Note("send list") \in Job /\ Note("send list").type = "send list"
    BY NotesTyped DEF Note
  <2>4. (Queued("disconnect")' <=> Queued("disconnect"))
    BY <2>2, <2>3, QueuedAfter
  <2>5. Queued("send list")'
    BY <2>2, <2>3, QueuedBehind
  <2> QED
    BY <1>1, <2>1, <2>4, <2>5
<1>18. CASE ScanStop
  <2>1. UNCHANGED <<conn, ble_is_connected, btcq>> /\ handler = "sent"
    BY <1>18 DEF ScanStop, link
  <2>2. CASE scan
    BY <1>12, <1>18, <2>1, <2>2 DEF ScanStop
  <2>3. CASE ~scan
    <3>1. UNCHANGED <<scan, records, evq, asked>>
      BY <1>18, <2>3 DEF ScanStop
    <3> QED
      BY <1>1, <2>1, <2>3, <3>1 DEF Queued, ScanEvent
  <2> QED
    BY <2>2, <2>3
<1> QED
  BY <1>3, <1>4, <1>5, <1>6, <1>8, <1>9, <1>10, <1>11, <1>13, <1>14, <1>15, <1>16, <1>17,
     <1>18, <1>19, <1>20, <1>21 DEF Next, Host, Btc, EventTask
---------------------------------------------------------------------------
(* The theorems.                                                           *)

LEMMA InitTyped == Init => TypeOK /\ NothingLeftBehind /\ CopyIsSent /\ SoftApAsSent
<1> SUFFICES ASSUME Init PROVE TypeOK /\ NothingLeftBehind /\ CopyIsSent /\ SoftApAsSent
  OBVIOUS
<1>1. IsApConfig(ap_config) /\ IsApConfig(softap) /\ IsApConfig(sent)
  BY ZerosTyped DEF Init
<1>2. evq \in Seq({"REPORT", "SCAN_DONE"}) /\ btcq \in Seq(Job) /\ Len(btcq) <= MaxBtcq
      /\ records \in 0..MaxAp /\ ops \in 0..MaxOps
  BY DEF Init
<1>3. TypeOK
  BY <1>1, <1>2 DEF Init, TypeOK, Mode
<1>4. NothingLeftBehind
  BY DEF Init, NothingLeftBehind
<1>5. CopyIsSent /\ SoftApAsSent
  <2>1. ap_config = sent /\ sent["ssid"] \notin Ssid
    BY DEF Init, Zeros, Field
  <2> QED
    BY <2>1 DEF CopyIsSent, SoftApAsSent
<1> QED
  BY <1>3, <1>4, <1>5

\* Everything keeps its type, for any names, numbers and bounds.
THEOREM TypeCorrect == Spec => []TypeOK
BY InitTyped, TypeStep, PTL DEF Spec

\* On every way out of the handler of a scan both lists are freed, and BTC waits only
\* for a scan that runs (user_blufi.c:129-166, 324-333).
THEOREM NothingIsLeftBehind == Spec => []NothingLeftBehind
<1>1. Init => NothingLeftBehind
  BY InitTyped
<1> QED
  BY <1>1, LeftBehindStep, TypeCorrect, PTL DEF Spec

\* The soft-AP is what the phone described, in whatever order its fields came
\* (user_blufi.c:287-323).
THEOREM SoftApIsAsSent == Spec => []SoftApAsSent
<1>1. Init => CopyIsSent /\ SoftApAsSent
  BY InitTyped
<1> QED
  BY <1>1, SoftApStep, TypeCorrect, PTL DEF Spec

\* A phone that waits for the list is still there, and the list is on its way to it
\* (user_blufi.c:129-166, 324-333): the safety half of ListArrives.
THEOREM ListIsOnItsWay == Spec => []ListOnItsWay
<1>1. Init => LinkInv /\ ListOnItsWay
  <2> SUFFICES ASSUME Init PROVE LinkInv /\ ListOnItsWay
    OBVIOUS
  <2>1. ~conn /\ ~asked /\ btcq = <<>>
    BY DEF Init
  <2>2. Len(btcq) = 0 /\ 1..0 = {}
    BY <2>1
  <2> QED
    BY <2>1, <2>2 DEF LinkInv, ListOnItsWay
<1>2. TypeOK /\ TypeOK' /\ NothingLeftBehind /\ LinkInv /\ ListOnItsWay /\ [Next]_vars
        => LinkInv' /\ ListOnItsWay'
  BY LinkInvStep, ListStep
<1> QED
  BY <1>1, <1>2, TypeCorrect, NothingIsLeftBehind, PTL DEF Spec

\* Every list that was asked for comes (user_blufi.c:129-166), when the two tasks settle,
\* as the model checker finds that they do, and BTC does not wait for itself for ever:
\* the one way that Settles leaves open is the one way to lose a list.
THEOREM ListArrivesOnceSettled == Spec /\ Settles /\ ~<>[]Stuck => ListArrives
<1>1. NothingLeftBehind /\ ListOnItsWay /\ Quiet => ~asked
  <2> SUFFICES ASSUME NothingLeftBehind, ListOnItsWay, Quiet, asked PROVE FALSE
    OBVIOUS
  <2>1. ~scan /\ handler = "idle"
    BY DEF NothingLeftBehind, Quiet
  <2>2. DOMAIN evq = {} /\ DOMAIN btcq = {}
    BY DEF Quiet
  <2> QED
    BY <2>1, <2>2 DEF ListOnItsWay, Queued
<1>2. Stuck => ~Quiet
  BY DEF Stuck, Quiet, Own
<1> QED
  BY <1>1, <1>2, NothingIsLeftBehind, ListIsOnItsWay, PTL DEF ListArrives, Settles
=============================================================================
