------------------------------ MODULE Firmware ------------------------------
(***************************************************************************)
(* The firmware as a whole: app_main of main/app_main.c starts one part    *)
(* after the other, with blufi_init_start and initialise_wifi of           *)
(* components/src/user_blufi.c and components/src/blufi_init.c, while the  *)
(* tasks of the parts that are already there are running: the system event *)
(* task, the Bluetooth callback task (BTC), the MQTT client.               *)
(*                                                                         *)
(* The session with the cloud is MqttSession; what the tasks do in detail  *)
(* is in BlufiStation, BlufiSecurity, BlufiModes, MqttGateway and          *)
(* Equipment.  Here matters what is there when they do it.                 *)
(***************************************************************************)
EXTENDS Naturals, Sequences

CONSTANTS
    MaxPackets,  \* bound: see MqttSession
    MaxResets    \* bound: aborts and power cuts

ASSUME BoundAssumption == MaxPackets \in Nat /\ MaxResets \in Nat

VARIABLES
    pc,           \* the step that app_main has reached
    ready,        \* the steps that were successful
    failed,       \* ghost: the steps whose calls failed, with app_main going on
    nvs,          \* "good", "full" (or of another version) or "broken"
    config,       \* does flash hold the configuration of a network?
    evq,          \* events for the system event task
    station,      \* "off", "parked" (without a configuration) or "trying"
    jobs,         \* events for BTC
    advertising, conn, ble_is_connected,
    resets,       \* aborts and power cuts, for the bound
    started, net, connected, outbox, up, down, subscription, told, received

Session == INSTANCE MqttSession

boot  == <<pc, ready, failed, nvs, config>>
wifi  == <<evq, station>>
ble   == <<jobs, advertising, conn, ble_is_connected>>
cloud == <<started, net, connected, up, down, subscription, told, outbox, received>>
vars  == <<boot, wifi, ble, resets, cloud>>

OrderWifiFirst ==      \* mutant: the handlers are registered when Wi-Fi is started
    <<"uart", "pins", "nvs", "netif", "wifi", "handlers",
      "controller", "callbacks", "profile", "mqtt", "sensors">>

OrderMqttFirst ==      \* mutant: user_mqtt_app_start before blufi_init_start
    <<"uart", "pins", "mqtt", "nvs", "netif", "handlers", "wifi",
      "controller", "callbacks", "profile", "sensors">>

\* The steps of app_main, those of blufi_init_start and initialise_wifi included.
Order ==
    <<"uart", "pins", "nvs", "netif", "handlers", "wifi",
      "controller", "callbacks", "profile", "mqtt", "sensors">>

Bluetooth == {"controller", "callbacks", "profile"}
Booted    == pc > Len(Order)

Init ==
    /\ pc = 1 /\ ready = {} /\ failed = {}
    /\ nvs \in {"good", "full", "broken"} /\ config \in BOOLEAN
    /\ evq = <<>> /\ station = "off"
    /\ jobs = <<>> /\ advertising = FALSE /\ conn = FALSE /\ ble_is_connected = FALSE
    /\ resets = 0
    /\ Session!Init

\* Everything but flash starts over.
Restart ==
    /\ pc' = 1 /\ ready' = {} /\ failed' = {}
    /\ evq' = <<>> /\ station' = "off"
    /\ jobs' = <<>> /\ advertising' = FALSE /\ conn' = FALSE /\ ble_is_connected' = FALSE
    /\ Session!Restart
    /\ UNCHANGED <<nvs, config>>

Reset == resets < MaxResets /\ resets' = resets + 1 /\ Restart

---------------------------------------------------------------------------
(* The main task.                                                          *)

At(step)    == ~Booted /\ Order[pc] = step
Done(step)  == /\ At(step) /\ pc' = pc + 1
               /\ ready' = ready \cup {step} /\ UNCHANGED failed
Fails(step) == /\ At(step) /\ failed' = failed \cup {step}
               /\ UNCHANGED <<ready, nvs, config, wifi, ble, resets, cloud>>

\* Of these steps matters only that they are done.
Plain(step) ==
    /\ Done(step)
    /\ UNCHANGED <<nvs, config, wifi, ble, resets, cloud>>

usart1_init       == Plain("uart")
equipment_init    == Plain("pins")
InitNetif         == Plain("netif")       \* with the event group and the event loop
RegisterHandlers  == Plain("handlers")
InitHost          == Plain("controller")  \* the controller and Bluedroid
RegisterCallbacks == Plain("callbacks")
StartSensors      == Plain("sensors")

\* nvs_flash_init; when there is no room, everything stored is erased.
InitNvs ==
    /\ Done("nvs") /\ nvs # "broken"
    /\ nvs' = "good"
    /\ config' = (config /\ nvs = "good")
    /\ UNCHANGED <<wifi, ble, resets, cloud>>

\* ESP_ERROR_CHECK of an NVS that cannot be used at all.
InitNvsAborts ==
    /\ At("nvs") /\ nvs = "broken"
    /\ Restart
    /\ UNCHANGED resets

\* esp_wifi_start announces itself.
StartWifi ==
    /\ Done("wifi")
    /\ evq' = Append(evq, "STA_START")
    /\ UNCHANGED <<nvs, config, station, ble, resets, cloud>>

\* esp_blufi_profile_init has BTC told when it is done.
InitProfile ==
    /\ Done("profile")
    /\ jobs' = Append(jobs, "INIT_FINISH")
    /\ UNCHANGED <<nvs, config, wifi, advertising, conn, ble_is_connected, resets, cloud>>

BluetoothFailsForGood == \* mutant: the error ends app_main as well
    /\ \E step \in Bluetooth : Fails(step)
    /\ pc' = Len(Order) + 1

\* An error of Bluetooth leaves blufi_init_start; app_main goes on.
BluetoothFails ==
    /\ \E step \in Bluetooth : Fails(step)
    /\ \E i \in DOMAIN Order : Order[i] = "profile" /\ pc' = i + 1

\* Any other error of blufi_init_start is an ESP_ERROR_CHECK; power may fail anywhere.
AbortOrPowerCut == Reset

StartMqttOnline ==     \* mutant: a started client counts as connected
    /\ Done("mqtt")
    /\ started' = TRUE /\ connected' = TRUE
    /\ UNCHANGED <<nvs, config, wifi, ble, resets, net, up, down, subscription, told,
                   outbox, received>>

StartMqtt ==
    /\ Done("mqtt")
    /\ Session!Start
    /\ UNCHANGED <<nvs, config, wifi, ble, resets>>

\* Nobody looks at the results of esp_mqtt_client_init and _start, and of xTaskCreate.
StartMqttFails    == Fails("mqtt") /\ pc' = pc + 1
StartSensorsFails == Fails("sensors") /\ pc' = pc + 1

---------------------------------------------------------------------------
(* The system event task. An event without a handler is lost.              *)

StaStart ==
    /\ evq # <<>>
    /\ evq' = Tail(evq)
    /\ station' = IF "handlers" \notin ready THEN station
                  ELSE IF config THEN "trying" ELSE "parked"
    /\ UNCHANGED <<boot, ble, resets, cloud>>

---------------------------------------------------------------------------
(* The phone's link, and BTC.                                              *)

\* The controller stops advertising with the connection.
PhoneComes ==
    /\ advertising /\ ~conn
    /\ conn' = TRUE /\ advertising' = FALSE
    /\ jobs' = Append(jobs, "BLE_CONNECT")
    /\ UNCHANGED <<boot, wifi, ble_is_connected, resets, cloud>>

PhoneLeaves ==
    /\ conn
    /\ conn' = FALSE
    /\ jobs' = Append(jobs, "BLE_DISCONNECT")
    /\ UNCHANGED <<boot, wifi, advertising, ble_is_connected, resets, cloud>>

Job(type) == jobs # <<>> /\ Head(jobs) = type /\ jobs' = Tail(jobs)

InitFinish ==
    /\ Job("INIT_FINISH")
    /\ advertising' = TRUE
    /\ UNCHANGED <<boot, wifi, conn, ble_is_connected, resets, cloud>>

\* esp_blufi_adv_stop
BleConnect ==
    /\ Job("BLE_CONNECT")
    /\ ble_is_connected' = TRUE
    /\ advertising' = FALSE
    /\ UNCHANGED <<boot, wifi, conn, resets, cloud>>

BleDisconnectQuiet ==  \* mutant: without the esp_blufi_adv_start
    /\ Job("BLE_DISCONNECT")
    /\ ble_is_connected' = FALSE
    /\ UNCHANGED <<boot, wifi, advertising, conn, resets, cloud>>

\* esp_blufi_adv_start
BleDisconnect ==
    /\ Job("BLE_DISCONNECT")
    /\ ble_is_connected' = FALSE
    /\ advertising' = TRUE
    /\ UNCHANGED <<boot, wifi, conn, resets, cloud>>

\* The phone gives the station a network (BlufiStation has the commands).
Provision ==
    /\ ble_is_connected
    /\ config' = TRUE /\ station' = "trying"
    /\ UNCHANGED <<pc, ready, failed, nvs, evq, ble, resets, cloud>>

---------------------------------------------------------------------------
(* The network, the session with the cloud.                                *)

NetChanges ==
    /\ net \/ station = "trying"
    /\ Session!NetChanges
    /\ UNCHANGED <<boot, wifi, ble, resets>>

MqttTask == Session!Handler /\ UNCHANGED <<boot, wifi, ble, resets>>
Cloud    == Session!Others /\ UNCHANGED <<boot, wifi, ble, resets>>

---------------------------------------------------------------------------
Main == \/ usart1_init \/ equipment_init \/ InitNvs \/ InitNvsAborts \/ InitNetif
        \/ RegisterHandlers \/ StartWifi \/ InitHost \/ RegisterCallbacks \/ InitProfile
        \/ BluetoothFails \/ StartMqtt \/ StartMqttFails
        \/ StartSensors \/ StartSensorsFails
Btc  == InitFinish \/ BleConnect \/ BleDisconnect

Next == \/ Main \/ AbortOrPowerCut \/ StaStart \/ PhoneComes \/ PhoneLeaves
        \/ Btc \/ Provision \/ NetChanges \/ MqttTask \/ Cloud

Spec == Init /\ [][Next]_vars

\* The tasks run, and packets arrive while the network is there.
FairSpec ==
    /\ Spec
    /\ WF_vars(Main) /\ WF_vars(StaStart) /\ WF_vars(Btc) /\ WF_vars(MqttTask)
    /\ WF_vars(Session!Broker /\ UNCHANGED <<boot, wifi, ble, resets>>)

---------------------------------------------------------------------------
Steps == {Order[i] : i \in DOMAIN Order}

TypeOK ==
    /\ pc \in 1..(Len(Order) + 1) /\ ready \subseteq Steps /\ failed \subseteq Steps
    /\ nvs \in {"good", "full", "broken"} /\ config \in BOOLEAN
    /\ evq \in Seq({"STA_START"}) /\ station \in {"off", "parked", "trying"}
    /\ jobs \in Seq({"INIT_FINISH", "BLE_CONNECT", "BLE_DISCONNECT"})
    /\ advertising \in BOOLEAN /\ conn \in BOOLEAN /\ ble_is_connected \in BOOLEAN
    /\ resets \in 0..MaxResets
    /\ Session!TypeOK

\* Whoever runs finds what it uses: events their handlers and the event group, the
\* phone's commands the Wi-Fi driver, the client the IP stack, what comes from the
\* cloud and from the sensors the serial port (app_main.c:14-23, user_blufi.c:366-389).
ReadyBeforeUse ==
    /\ evq # <<>> => {"netif", "handlers"} \subseteq ready
    /\ conn => {"nvs", "wifi", "callbacks"} \subseteq ready
    /\ started => {"uart", "netif"} \subseteq ready
    /\ "sensors" \in ready => {"uart", "pins"} \subseteq ready

\* When no phone is connected, and BTC has seen it leave, the device can be found: the
\* stop and the start of advertising keep the order of the link's events
\* (user_blufi.c:202-221).
PhoneCanReturn ==
    (~conn /\ jobs = <<>> /\ "profile" \in ready) => advertising

\* When app_main has ended, a step is missing only if its own call failed or Bluetooth
\* had been given up before it, and only a step whose failure ends neither; and the
\* station has been started or its event waits (app_main.c:14-23).
BootIsComplete ==
    Booted =>
      /\ \A step \in Steps \ ready :
            step \in failed \/ (step \in Bluetooth /\ failed \cap Bluetooth # {})
      /\ failed \subseteq Bluetooth \cup {"mqtt", "sensors"}
      /\ started \/ "mqtt" \in failed
      /\ station # "off" \/ evq # <<>>

\* The firmware drives the session as its own module says.
DrivesSession == Session!Spec

AnnouncedMeansAnswered == Session!AnnouncedMeansAnswered
AnnouncedMeansSubscribed == Session!AnnouncedMeansSubscribed
SubscriptionOnItsWay == Session!SubscriptionOnItsWay
SubscribedAgain == Session!SubscribedAgain

\* Unless NVS is broken the firmware comes up: the station is started, and the client and
\* the sensors are running, each unless its own start failed, whether Bluetooth works or
\* not (app_main.c:14-23).
ComesUp ==
    [](nvs # "broken") =>
        <>[](/\ station # "off"
             /\ started \/ "mqtt" \in failed
             /\ "sensors" \in ready \cup failed)
=============================================================================
