------------------------ MODULE MqttGateway_proofs ------------------------
(***************************************************************************)
(* Proofs about MqttGateway, for every set of fields the cloud may send,   *)
(* every size of the buffer and of the memory, and every length of a       *)
(* message: the type invariant, that nothing foreign is forwarded, and     *)
(* that the longest message so far is delivered completely.                *)
(***************************************************************************)
EXTENDS MqttGateway, TLAPS

USE SizeAssumption, RoomAssumption

---------------------------------------------------------------------------
(* The shape of messages.                                                  *)

LEMMA FieldsAreSequences ==
    ASSUME NEW f \in Fields
    PROVE  f \in Seq(FieldCell) /\ Len(f) \in 0..MaxFields
<1>1. PICK n \in 0..MaxFields : f \in [1..n -> FieldCell]
  BY DEF Fields
<1>2. n \in Nat
  BY <1>1
<1> QED
  BY <1>1, <1>2

LEMMA CellsTyped ==
    /\ Open \in AnyCell /\ Close \in AnyCell /\ Bare \in AnyCell
    /\ Junk \in AnyCell /\ Nul \in AnyCell
    /\ FieldCell \subseteq AnyCell
BY DEF AnyCell

LEMMA CellsDiffer ==
    /\ Open \notin FieldCell /\ Close \notin FieldCell /\ Nul \notin FieldCell
    /\ Bare \notin FieldCell /\ Junk \notin FieldCell
    /\ Open # Nul /\ Close # Nul
BY DEF FieldCell, Field, Cell, Open, Close, Nul, Bare, Junk

\* An opening, fields, and a closing.
LEMMA ValidShape ==
    ASSUME NEW msg \in Valid
    PROVE  /\ Len(msg) \in 2..(MaxFields + 2) /\ DOMAIN msg = 1..Len(msg)
           /\ msg \in Seq(AnyCell)
           /\ msg[1] = Open /\ msg[Len(msg)] = Close
           /\ \A j \in 2..(Len(msg) - 1) : msg[j] \in FieldCell
<1>1. PICK f \in Fields : msg = <<Open>> \o f \o <<Close>>
  BY DEF Valid
<1>2. f \in Seq(FieldCell) /\ Len(f) \in 0..MaxFields
  BY FieldsAreSequences
<1>3. f \in Seq(AnyCell) /\ <<Open>> \in Seq(AnyCell) /\ <<Close>> \in Seq(AnyCell)
  BY <1>2, CellsTyped
<1>4. msg \in Seq(AnyCell) /\ Len(msg) = Len(f) + 2
  BY <1>1, <1>2, <1>3
<1>5. msg[1] = Open /\ msg[Len(f) + 2] = Close
  BY <1>1, <1>2, <1>3
<1>6. \A j \in 2..(Len(f) + 1) : msg[j] = f[j - 1]
  BY <1>1, <1>2, <1>3
<1>7. \A j \in 2..(Len(f) + 1) : f[j - 1] \in FieldCell
  BY <1>2
<1> QED
  BY <1>2, <1>4, <1>5, <1>6, <1>7

\* Whatever arrives fits into the buffer, with a zero byte behind it.
LEMMA MessageShape ==
    ASSUME NEW msg \in Message
    PROVE  /\ msg \in Seq(AnyCell) /\ DOMAIN msg = 1..Len(msg)
           /\ Len(msg) \in 1..(MaxFields + 2)
<1>1. CASE msg \in Valid
  BY <1>1, ValidShape
<1>2. CASE msg \in Truncated
  <2>1. PICK f \in Fields : msg = <<Open>> \o f
    BY <1>2 DEF Truncated
  <2>2. f \in Seq(FieldCell) /\ Len(f) \in 0..MaxFields
    BY FieldsAreSequences
  <2>3. f \in Seq(AnyCell) /\ <<Open>> \in Seq(AnyCell)
    BY <2>2, CellsTyped
  <2> QED
    BY <2>1, <2>2, <2>3
<1>3. CASE msg = <<Bare>> \/ msg = <<Junk>>
  <2>1. PICK c \in AnyCell : msg = <<c>>
    BY <1>3, CellsTyped
  <2>2. <<c>> \in Seq(AnyCell) /\ Len(<<c>>) = 1 /\ DOMAIN <<c>> = 1..1
    OBVIOUS
  <2> QED
    BY <2>1, <2>2
<1> QED
  BY <1>1, <1>2, <1>3 DEF Message

---------------------------------------------------------------------------
(* Typing.                                                                 *)

LEMMA CopyTyped ==
    ASSUME NEW buf \in [1..Cells -> AnyCell], NEW msg \in Message, NEW cut \in BOOLEAN
    PROVE  Copy(buf, msg, cut) \in [1..Cells -> AnyCell]
<1>1. \A i \in DOMAIN msg : msg[i] \in AnyCell
  BY MessageShape
<1> QED
  BY <1>1, CellsTyped DEF Copy

LEMMA ForwardedTyped ==
    ASSUME NEW buf, NEW k \in 2..Cells, ClosedAt(buf, k)
    PROVE  Forwarded(buf, k) \subseteq FieldCell
BY DEF Forwarded, ClosedAt

LEMMA ReceiveTyped ==
    ASSUME TypeOK, NEW msg \in Message, Receive(msg)
    PROVE  /\ databuf' \in [1..Cells -> AnyCell]
           /\ last' \in Message /\ longest' \in 0..Cells
<1>1. databuf' \in [1..Cells -> AnyCell]
  <2>1. databuf \in [1..Cells -> AnyCell]
    BY DEF TypeOK
  <2>2. PICK cut \in BOOLEAN : databuf' = Copy(databuf, msg, cut)
    BY DEF Receive
  <2> QED
    BY <2>1, <2>2, CopyTyped
<1>2. Len(msg) \in 0..Cells
  BY MessageShape
<1>3. longest \in 0..Cells
  BY DEF TypeOK
<1>4. last' = msg /\ longest' \in {Len(msg), longest}
  BY DEF Receive
<1> QED
  BY <1>1, <1>2, <1>3, <1>4

LEMMA HeapTyped ==
    ASSUME TypeOK, Parse \/ UNCHANGED heap
    PROVE  heap' \in 0..Heap
<1>1. heap \in 0..Heap
  BY DEF TypeOK
<1>2. heap' = heap \/ (heap > 0 /\ heap' = heap - 1)
  BY DEF Parse
<1> QED
  BY <1>1, <1>2

LEMMA TypeStep == TypeOK /\ [Next]_vars => TypeOK'
<1> SUFFICES ASSUME TypeOK, [Next]_vars PROVE TypeOK'
  OBVIOUS
<1>1. CASE DataParams
  <2>1. PICK msg \in Message, k \in 2..Cells :
          /\ Receive(msg) /\ ClosedAt(databuf', k) /\ Parse
          /\ uart' = Forwarded(databuf', k) /\ log' = "json"
    BY <1>1 DEF DataParams
  <2>2. uart' \subseteq FieldCell
    BY <2>1, ForwardedTyped
  <2>3. heap' \in 0..Heap
    BY <2>1, HeapTyped
  <2> QED
    BY <2>1, <2>2, <2>3, ReceiveTyped DEF TypeOK
<1>2. CASE DataBare \/ DataRejected
  <2>1. PICK msg \in Message :
          Receive(msg) /\ (Parse \/ UNCHANGED heap) /\ uart' = {}
                       /\ log' \in {"json", "not json"}
    BY <1>2 DEF DataBare, DataRejected
  <2>2. heap' \in 0..Heap
    BY <2>1, HeapTyped
  <2> QED
    BY <2>1, <2>2, ReceiveTyped DEF TypeOK
<1>3. CASE UNCHANGED vars
  BY <1>3 DEF vars, TypeOK
<1> QED
  BY <1>1, <1>2, <1>3 DEF Next

\* The buffer, the memory and what is forwarded keep their types.
THEOREM TypeCorrect == Spec => []TypeOK
<1>1. Init => TypeOK
  BY CellsTyped DEF Init, TypeOK, Message
<1> QED
  BY <1>1, TypeStep, PTL DEF Spec

---------------------------------------------------------------------------
(* A well-formed message, once copied.                                     *)

LEMMA CopyHolds ==
    ASSUME NEW buf, NEW msg \in Valid, NEW cut \in BOOLEAN
    PROVE  \A i \in 1..Len(msg) : Copy(buf, msg, cut)[i] = msg[i]
<1>1. DOMAIN msg = 1..Len(msg) /\ Len(msg) \in 2..(MaxFields + 2)
  BY ValidShape
<1> QED
  BY <1>1 DEF Copy

\* The parser stops at the closing of the message, not at an older one behind it.
LEMMA ClosedAtItsEnd ==
    ASSUME NEW buf, NEW msg \in Valid, NEW k \in 2..Cells, ClosedAt(buf, k),
           \A i \in 1..Len(msg) : buf[i] = msg[i]
    PROVE  k = Len(msg)
<1>1. Len(msg) \in 2..(MaxFields + 2) /\ msg[Len(msg)] = Close
  BY ValidShape
<1>2. ~(k < Len(msg))
  <2> SUFFICES ASSUME k < Len(msg) PROVE FALSE
    OBVIOUS
  <2>1. k \in 2..(Len(msg) - 1) /\ buf[k] = msg[k]
    BY <1>1
  <2>2. buf[k] \in FieldCell /\ buf[k] = Close
    BY <2>1, ValidShape DEF ClosedAt
  <2> QED
    BY <2>2, CellsDiffer
<1>3. ~(k > Len(msg))
  <2> SUFFICES ASSUME k > Len(msg) PROVE FALSE
    OBVIOUS
  <2>1. Len(msg) \in 2..(k - 1) /\ buf[Len(msg)] = Close
    BY <1>1
  <2>2. buf[Len(msg)] \in FieldCell
    BY <2>1 DEF ClosedAt
  <2> QED
    BY <2>1, <2>2, CellsDiffer
<1> QED
  BY <1>1, <1>2, <1>3

LEMMA NothingForeignStep == NothingForeign /\ [Next]_vars => NothingForeign'
<1> SUFFICES ASSUME NothingForeign, [Next]_vars PROVE NothingForeign'
  OBVIOUS
<1>1. CASE DataParams
  <2>1. PICK msg \in Message, k \in 2..Cells :
          /\ Receive(msg) /\ ClosedAt(databuf', k)
          /\ uart' = Forwarded(databuf', k)
    BY <1>1 DEF DataParams
  <2> SUFFICES ASSUME msg \in Valid, NEW c \in uart'
               PROVE  \E i \in DOMAIN msg : msg[i] = c
    BY <2>1 DEF NothingForeign, Receive
  <2>2. \A i \in 1..Len(msg) : databuf'[i] = msg[i]
    BY <2>1, CopyHolds DEF Receive
  <2>3. k = Len(msg)
    BY <2>1, <2>2, ClosedAtItsEnd
  <2>4. PICK j \in 2..(k - 1) : c = databuf'[j]
    BY <2>1 DEF Forwarded
  <2>5. j \in 1..Len(msg) /\ DOMAIN msg = 1..Len(msg)
    BY <2>3, <2>4, ValidShape
  <2> QED
    BY <2>2, <2>4, <2>5
<1>2. CASE DataBare \/ DataRejected
  BY <1>2 DEF DataBare, DataRejected, NothingForeign
<1>3. CASE UNCHANGED vars
  BY <1>3 DEF vars, NothingForeign
<1> QED
  BY <1>1, <1>2, <1>3 DEF Next

\* Whatever longer messages left in databuf, a well-formed message makes the handler
\* send commands of that message only.
THEOREM NothingForeignSent == Spec => []NothingForeign
<1>1. Init => NothingForeign
  BY DEF Init, NothingForeign
<1> QED
  BY <1>1, NothingForeignStep, PTL DEF Spec

---------------------------------------------------------------------------
(* The longest message so far has nothing behind it.                       *)

\* Behind the longest message the buffer is as it was at the start.
NothingBehind == \A i \in 1..Cells : i > longest => databuf[i] = Nul

Inv == TypeOK /\ NothingBehind /\ LongestDelivered

LEMMA ReceiveKeepsNothingBehind ==
    ASSUME TypeOK, NothingBehind, NEW msg \in Message, Receive(msg)
    PROVE  NothingBehind'
<1>1. PICK cut \in BOOLEAN : databuf' = Copy(databuf, msg, cut)
  BY DEF Receive
<1>2. DOMAIN msg = 1..Len(msg) /\ Len(msg) \in Nat
  BY MessageShape
<1>3. longest \in Nat /\ longest' = IF Len(msg) > longest THEN Len(msg) ELSE longest
  <2>1. longest \in 0..Cells
    BY DEF TypeOK
  <2>2. longest' = IF Len(msg) > longest THEN Len(msg) ELSE longest
    BY DEF Receive
  <2> QED
    BY <2>1, <2>2
<1> SUFFICES ASSUME NEW i \in 1..Cells, i > longest'
             PROVE  databuf'[i] = Nul
  BY DEF NothingBehind
<1>4. i \notin DOMAIN msg /\ i > longest
  BY <1>2, <1>3
<1>5. databuf[i] = Nul
  BY <1>4 DEF NothingBehind
<1> QED
  BY <1>1, <1>4, <1>5 DEF Copy

\* In front of a field of a proper message no block gives up.
LEMMA NoBlockBreaks ==
    ASSUME NEW buf, NEW msg \in Valid, Proper(msg), NoPrefixTrap(msg),
           \A i \in 1..Len(msg) : buf[i] = msg[i],
           \A i \in 1..Cells : i > Len(msg) => buf[i] = Nul,
           NEW a
    PROVE  ~Breaks(buf, Len(msg), a)
<1> DEFINE k == Len(msg)
<1> SUFFICES ASSUME Breaks(buf, k, a) PROVE FALSE
  OBVIOUS
<1>1. k \in 2..(MaxFields + 2) /\ DOMAIN msg = 1..k /\ msg[1] = Open /\ msg[k] = Close
  BY ValidShape
<1>2. \A j \in 1..Cells : buf[j] \in FieldCell => j \in 2..(k - 1) /\ buf[j] = msg[j]
  <2> SUFFICES ASSUME NEW j \in 1..Cells, buf[j] \in FieldCell
               PROVE  j \in 2..(k - 1) /\ buf[j] = msg[j]
    OBVIOUS
  <2>1. j <= k
    BY <1>1, CellsDiffer
  <2>2. buf[j] = msg[j]
    BY <1>1, <2>1
  <2>3. j # 1 /\ j # k
    BY <1>1, <2>2, CellsDiffer
  <2>4. k \in Nat /\ j \in Nat /\ j >= 1
    BY <1>1
  <2>5. j \in 2..(k - 1)
    BY <2>1, <2>3, <2>4
  <2> QED
    BY <2>2, <2>5
<1>3. PICK i \in 1..Cells : buf[i] \in FieldCell /\ Occurs(Blocks[a], buf[i].name)
  BY DEF Breaks, Found
<1>4. PICK j \in 2..(k - 1) : msg[j] \in FieldCell /\ msg[j].name = Blocks[a]
  <2>1. i \in 2..(k - 1) /\ buf[i] = msg[i]
    BY <1>2, <1>3
  <2>2. CASE Blocks[a] = buf[i].name
    BY <1>3, <2>1, <2>2
  <2>3. CASE Blocks[a] = "LEDsceneS1" /\ buf[i].name = "LEDsceneS10"
    <3>1. msg[i] \in FieldsOf(msg)
      BY <1>1, <1>3, <2>1 DEF FieldsOf
    <3>2. PICK c \in FieldsOf(msg) : c.name = "LEDsceneS1"
      BY <2>1, <2>3, <3>1 DEF NoPrefixTrap
    <3>3. PICK j \in 1..k : msg[j] \in FieldCell /\ c = msg[j]
      BY <1>1, <3>2 DEF FieldsOf
    <3>4. j \in 2..(k - 1)
      BY <1>1, <3>3, CellsDiffer
    <3> QED
      BY <2>3, <3>2, <3>3, <3>4
  <2> QED
    BY <1>3, <2>2, <2>3 DEF Occurs
<1>5. \A m \in 2..(k - 1) : buf[m] = msg[m]
  BY <1>1
<1>6. \A m \in 2..(j - 1) : buf[m].name # Blocks[a]
  <2> SUFFICES ASSUME NEW m \in 2..(j - 1), buf[m].name = Blocks[a]
               PROVE  FALSE
    OBVIOUS
  <2>1. m \in 2..(k - 1) /\ m # j
    BY <1>1, <1>4
  <2>2. msg[m].name = msg[j].name
    BY <1>4, <1>5, <2>1
  <2> QED
    BY <1>4, <2>1, <2>2 DEF Proper
<1>7. ItemAt(buf, k, Blocks[a], j)
  BY <1>4, <1>5, <1>6 DEF ItemAt
<1>8. buf[j].value \in Number
  <2>1. msg[j] \in FieldsOf(msg)
    BY <1>1, <1>4 DEF FieldsOf
  <2> QED
    BY <1>4, <1>5, <2>1 DEF Proper
<1> QED
  BY <1>4, <1>7, <1>8 DEF Breaks

\* All of the fields of a proper message with nothing behind it are forwarded.
LEMMA AllForwarded ==
    ASSUME NEW buf, NEW msg \in Valid, Proper(msg), NoPrefixTrap(msg),
           \A i \in 1..Len(msg) : buf[i] = msg[i],
           \A i \in 1..Cells : i > Len(msg) => buf[i] = Nul
    PROVE  Forwarded(buf, Len(msg)) = FieldsOf(msg)
<1> DEFINE k == Len(msg)
<1>1. k \in 2..(MaxFields + 2) /\ DOMAIN msg = 1..k /\ msg[1] = Open /\ msg[k] = Close
  BY ValidShape
<1>2. \A i \in 2..(k - 1) : buf[i] = msg[i] /\ msg[i] \in FieldCell
  BY <1>1, ValidShape
<1>3. \A a : ~Breaks(buf, k, a)
  BY NoBlockBreaks
<1>4. Forwarded(buf, k) \subseteq FieldsOf(msg)
  <2> SUFFICES ASSUME NEW c \in Forwarded(buf, k) PROVE c \in FieldsOf(msg)
    OBVIOUS
  <2>1. PICK j \in 2..(k - 1) : c = buf[j]
    BY DEF Forwarded
  <2>2. j \in DOMAIN msg
    BY <1>1
  <2> QED
    BY <1>2, <2>1, <2>2 DEF FieldsOf
<1>5. FieldsOf(msg) \subseteq Forwarded(buf, k)
  <2> SUFFICES ASSUME NEW i \in 1..k, msg[i] \in FieldCell
               PROVE  msg[i] \in Forwarded(buf, k)
    BY <1>1 DEF FieldsOf
  <2>1. i \in 2..(k - 1)
    BY <1>1, CellsDiffer
  <2>2. msg[i] \in FieldsOf(msg)
    BY <1>1 DEF FieldsOf
  <2>3. PICK b \in DOMAIN Blocks : Blocks[b] = msg[i].name
    BY <2>2 DEF Proper
  <2>4. \A m \in 2..(i - 1) : buf[m].name # Blocks[b]
    <3> SUFFICES ASSUME NEW m \in 2..(i - 1), buf[m].name = Blocks[b]
                 PROVE  FALSE
      OBVIOUS
    <3>1. m \in 2..(k - 1) /\ m # i
      BY <1>1, <2>1
    <3>2. msg[m].name = msg[i].name
      BY <1>2, <2>3, <3>1
    <3> QED
      BY <2>1, <3>1, <3>2 DEF Proper
  <2>5. ItemAt(buf, k, Blocks[b], i)
    BY <1>2, <2>1, <2>3, <2>4 DEF ItemAt
  <2>6. buf[i] = msg[i] /\ buf[i].value \in Number
    BY <1>2, <2>1, <2>2 DEF Proper
  <2> QED
    BY <1>3, <2>1, <2>3, <2>5, <2>6 DEF Forwarded
<1> QED
  BY <1>4, <1>5

LEMMA LongestStep == Inv /\ [Next]_vars => Inv'
<1> SUFFICES ASSUME Inv, [Next]_vars PROVE Inv'
  OBVIOUS
<1> USE DEF Inv
<1>1. TypeOK'
  BY TypeStep
<1>2. NothingBehind'
  <2>1. CASE Next
    <3>1. PICK msg \in Message : Receive(msg)
      BY <2>1 DEF Next, DataParams, DataBare, DataRejected
    <3> QED
      BY <3>1, ReceiveKeepsNothingBehind
  <2>2. CASE UNCHANGED vars
    BY <2>2 DEF vars, NothingBehind
  <2> QED
    BY <2>1, <2>2
<1>3. LongestDelivered'
  <2>1. CASE DataParams
    <3>1. PICK msg \in Message, k \in 2..Cells :
            /\ Receive(msg) /\ ClosedAt(databuf', k)
            /\ uart' = Forwarded(databuf', k)
      BY <2>1 DEF DataParams
    <3>2. last' = msg
      BY <3>1 DEF Receive
    <3> SUFFICES ASSUME Proper(msg), NoPrefixTrap(msg), Len(msg) = longest'
                 PROVE  uart' = FieldsOf(msg)
      BY <3>2 DEF LongestDelivered
    <3>3. msg \in Valid
      BY DEF Proper
    <3>4. \A i \in 1..Len(msg) : databuf'[i] = msg[i]
      BY <3>1, <3>3, CopyHolds DEF Receive
    <3>5. \A i \in 1..Cells : i > Len(msg) => databuf'[i] = Nul
      BY <1>2 DEF NothingBehind
    <3>6. k = Len(msg)
      BY <3>1, <3>3, <3>4, ClosedAtItsEnd
    <3> QED
      BY <3>1, <3>3, <3>4, <3>5, <3>6, AllForwarded
  <2>2. CASE DataBare
    <3>1. PICK msg \in Message : Receive(msg) /\ databuf'[1] = Bare
      BY <2>2 DEF DataBare
    <3>2. last' = msg
      BY <3>1 DEF Receive
    <3>3. msg \notin Valid
      <4> SUFFICES ASSUME msg \in Valid PROVE FALSE
        OBVIOUS
      <4>1. msg[1] = Open /\ 1 \in 1..Len(msg)
        BY ValidShape
      <4>2. databuf'[1] = msg[1]
        BY <3>1, <4>1, CopyHolds DEF Receive
      <4>3. Open # Bare
        BY DEF Open, Bare, Cell
      <4> QED
        BY <3>1, <4>1, <4>2, <4>3
    <3> QED
      BY <3>2, <3>3 DEF LongestDelivered, Proper
  <2>3. CASE DataRejected
    BY <2>3 DEF DataRejected, LongestDelivered
  <2>4. CASE UNCHANGED vars
    BY <2>4 DEF vars, LongestDelivered
  <2> QED
    BY <2>1, <2>2, <2>3, <2>4 DEF Next
<1> QED
  BY <1>1, <1>2, <1>3

\* The longest message so far, when it is proper, is forwarded completely.
THEOREM LongestIsDelivered == Spec => []LongestDelivered
<1>1. Init => Inv
  <2>1. ASSUME Init PROVE TypeOK
    BY <2>1, CellsTyped DEF Init, TypeOK, Message
  <2>2. ASSUME Init PROVE NothingBehind
    BY <2>2 DEF Init, NothingBehind
  <2>3. ASSUME Init PROVE LongestDelivered
    <3>1. last = <<Bare>> /\ longest = 0
      BY <2>3 DEF Init
    <3>2. Len(last) = 1
      BY <3>1
    <3>3. Len(last) # longest
      BY <3>1, <3>2
    <3> QED
      BY <3>3 DEF LongestDelivered
  <2> QED
    BY <2>1, <2>2, <2>3 DEF Inv
<1>2. Inv => LongestDelivered
  BY DEF Inv
<1> QED
  BY <1>1, <1>2, LongestStep, PTL DEF Spec
===========================================================================
