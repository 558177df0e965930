---------------------------- MODULE MqttGateway ----------------------------
(***************************************************************************)
(* MQTT_EVENT_DATA of components/src/user_mqtt.c: a message of the cloud   *)
(* is copied into databuf, parsed, and its fields are forwarded as command *)
(* lines to the serial port.                                               *)
(*                                                                         *)
(* The handler runs in the MQTT task alone, so one message is one step.    *)
(* What ties the steps together is databuf: it is never cleared and gets   *)
(* no terminator, so that behind a message lies what is left of longer     *)
(* ones before it.                                                         *)
(*                                                                         *)
(* Text is kept as a row of cells, each a piece that the handler tells     *)
(* apart: the opening {"params":{, a field, the closing }}, a whole JSON   *)
(* value without "params", something else, or the zero byte.               *)
(***************************************************************************)
EXTENDS Naturals, Sequences

CONSTANTS
    Cells,       \* cells of databuf
    Heap,        \* how many parsed messages the memory holds
    CloudField,  \* the fields the cloud sends: pairs of a name and a value
    Number,      \* the values that are JSON numbers
    MaxFields    \* bound: fields of a message

ASSUME SizeAssumption == Cells \in Nat /\ Heap \in Nat /\ MaxFields \in Nat
ASSUME RoomAssumption == Cells > MaxFields + 2

VARIABLES
    databuf,     \* the buffer
    heap,        \* parsed messages for which there is memory left
    uart,        \* the commands sent for the last message
    log,         \* how the last message was judged: "json" or "not json"
    last,        \* the last message
    longest      \* ghost: the length of the longest message so far

vars == <<databuf, heap, uart, log, last, longest>>

\* The blocks of the handler, in their order.
LightSwitches ==
    <<"LEDSwitch1", "LEDSwitch2", "LEDSwitch3", "LEDSwitch4", "LEDSwitch5",
      "LEDSwitch6", "LEDSwitch7", "LEDSwitch8", "LEDSwitch9", "LEDSwitchA",
      "LEDSwitchB", "LEDSwitchC">>
LightScenes ==
    <<"LEDsceneS1", "LEDsceneS2", "LEDsceneS3", "LEDsceneS4", "LEDsceneS5",
      "LEDsceneS6", "LEDsceneS7", "LEDsceneS8", "LEDsceneS9", "LEDsceneS10">>
Blocks == LightSwitches \o LightScenes

Cell(kind)     == [kind |-> kind, name |-> "", value |-> ""]
Field(n, v)    == [kind |-> "field", name |-> n, value |-> v]
Open           == Cell("open")
Close          == Cell("close")
Bare           == Cell("bare")
Junk           == Cell("junk")
Nul            == Cell("nul")
FieldCell      == {Field(c[1], c[2]) : c \in CloudField}
AnyCell        == {Open, Close, Bare, Junk, Nul} \cup FieldCell

Fields     == UNION {[1..n -> FieldCell] : n \in 0..MaxFields}
Valid      == {<<Open>> \o f \o <<Close>> : f \in Fields}
Truncated  == {<<Open>> \o f : f \in Fields}
Message    == Valid \cup Truncated \cup {<<Bare>>, <<Junk>>}

---------------------------------------------------------------------------
(* The two memcpy of the handler, cJSON and strstr.                        *)

CopyOverrun(buf, msg, cut) ==      \* mutant: a terminator behind the end of databuf
    [i \in 1..(Cells + 1) |->
       IF i \in DOMAIN msg THEN msg[i] ELSE IF i > Cells THEN Nul ELSE buf[i]]

\* The end of the message may fall within a piece of what was there before.
Copy(buf, msg, cut) ==
    [i \in 1..Cells |->
       IF i \in DOMAIN msg THEN msg[i]
       ELSE IF cut /\ i = Len(msg) + 1 /\ buf[i] # Nul THEN Junk ELSE buf[i]]

\* cJSON_Parse takes the first JSON value of the text and does not look behind it:
\* an object of "params" that is closed at k, or a value without "params".
ClosedAt(buf, k) ==
    /\ buf[1] = Open /\ buf[k] = Close
    /\ \A j \in 2..(k - 1) : buf[j] \in FieldCell

\* The tree of a parsed message stays: nothing ever calls cJSON_Delete.
Parse == heap > 0 /\ heap' = heap - 1

\* cJSON_GetObjectItem: the first field of the object with that name.
ItemAt(buf, k, n, j) ==
    /\ j \in 2..(k - 1) /\ buf[j].name = n
    /\ \A i \in 2..(j - 1) : buf[i].name # n

\* strstr over the text up to the zero byte; LEDsceneS1 is found in LEDsceneS10.
Occurs(n, m) == n = m \/ (n = "LEDsceneS1" /\ m = "LEDsceneS10")
Found(buf, n) ==
    \E i \in 1..Cells : /\ buf[i] \in FieldCell /\ Occurs(n, buf[i].name)
                        /\ \A j \in 1..i : buf[j] # Nul

---------------------------------------------------------------------------
(* One block for each name, in the order of Blocks.                        *)

BreaksAbsent(buf, k, b) ==         \* mutant: the strstr in front of a block is gone
    \A j \in 2..(k - 1) :
       ItemAt(buf, k, Blocks[b], j) => (b = 1 /\ buf[j].value \notin Number)

\* A block leaves the whole switch when the name is in the text but not in the
\* object, and the first block also when its value is not a number.
Breaks(buf, k, b) ==
    /\ Found(buf, Blocks[b])
    /\ \A j \in 2..(k - 1) :
          ItemAt(buf, k, Blocks[b], j) => (b = 1 /\ buf[j].value \notin Number)

\* What the blocks that are reached send.
ForwardedFromText(buf, k) ==       \* mutant: fields are looked up in the whole text
    {buf[j] : j \in {i \in 2..Cells : \E b \in DOMAIN Blocks :
                       /\ buf[i].name = Blocks[b] /\ buf[i].value \in Number
                       /\ \A a \in 1..(b - 1) : ~Breaks(buf, k, a)}}

Forwarded(buf, k) ==
    {buf[j] : j \in {i \in 2..(k - 1) : \E b \in DOMAIN Blocks :
                       /\ ItemAt(buf, k, Blocks[b], i)
                       /\ buf[i].value \in Number
                       /\ \A a \in 1..(b - 1) : ~Breaks(buf, k, a)}}

---------------------------------------------------------------------------
Init ==
    /\ databuf = [i \in 1..Cells |-> Nul]
    /\ heap = Heap
    /\ uart = {} /\ log = "json" /\ last = <<Bare>> /\ longest = 0

\* MQTT_EVENT_DATA, up to the parser.
Receive(msg) ==
    /\ \E cut \in BOOLEAN : databuf' = Copy(databuf, msg, cut)
    /\ last' = msg
    /\ longest' = IF Len(msg) > longest THEN Len(msg) ELSE longest

\* An object with "params".
DataParams ==
    \E msg \in Message, k \in 2..Cells :
      /\ Receive(msg)
      /\ ClosedAt(databuf', k) /\ Parse
      /\ uart' = Forwarded(databuf', k)
      /\ log' = "json"

\* JSON without "params": the handler returns.
DataBare ==
    \E msg \in Message :
      /\ Receive(msg)
      /\ databuf'[1] = Bare /\ Parse
      /\ uart' = {}
      /\ log' = "json"

\* "data is not Json format"; what the parser had allocated is free again.
DataRejected ==
    \E msg \in Message :
      /\ Receive(msg)
      /\ heap > 0 => /\ \A k \in 2..Cells : ~ClosedAt(databuf', k)
                     /\ databuf'[1] # Bare
      /\ UNCHANGED heap
      /\ uart' = {}
      /\ log' = "not json"

Next == DataParams \/ DataBare \/ DataRejected

Spec == Init /\ [][Next]_vars

---------------------------------------------------------------------------
TypeOK ==
    /\ databuf \in [1..Cells -> AnyCell]
    /\ heap \in 0..Heap
    /\ uart \subseteq FieldCell
    /\ log \in {"json", "not json"}
    /\ last \in Message
    /\ longest \in 0..Cells

\* For a well-formed message only commands of that message are sent, whatever longer
\* messages left behind it in databuf (user_mqtt.c:125-130, 140-667).
NothingForeign ==
    last \in Valid => \A c \in uart : \E i \in DOMAIN last : last[i] = c

FieldsOf(msg) == {msg[i] : i \in {j \in DOMAIN msg : msg[j] \in FieldCell}}

\* Every field has a name of its own, known to the handler, and a number.
Proper(msg) ==
    /\ msg \in Valid
    /\ \A i, j \in 2..(Len(msg) - 1) : msg[i].name = msg[j].name => i = j
    /\ \A c \in FieldsOf(msg) :
          c.value \in Number /\ \E b \in DOMAIN Blocks : Blocks[b] = c.name

\* The blocks whose names are prefixes of others get what they look for.
NoPrefixTrap(msg) ==
    (\E c \in FieldsOf(msg) : c.name = "LEDsceneS10")
      => \E c \in FieldsOf(msg) : c.name = "LEDsceneS1"

\* A proper message that is at least as long as every message before it has nothing
\* behind it, and all of its fields are forwarded as long as memory lasts.
LongestDelivered ==
    (Proper(last) /\ NoPrefixTrap(last) /\ Len(last) = longest /\ log = "json")
      => uart = FieldsOf(last)

---------------------------------------------------------------------------
(* What comments and messages of the file say, and the code does not do.   *)

\* "Judge whether the data is in JSON format" (user_mqtt.c:130): of a message that is
\* not JSON nothing is forwarded.
MalformedIgnored == last \in Truncated => uart = {}
===========================================================================
