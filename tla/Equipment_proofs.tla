-------------------------- MODULE Equipment_proofs --------------------------
(***************************************************************************)
(* Proofs about Equipment, for any number of sensors: the type invariant,  *)
(* that no trigger is recorded without a second look, and that none is     *)
(* missed that lasts, as long as the loop goes round.                      *)
(***************************************************************************)
EXTENDS Equipment, TLAPS

USE NAssumption

\* Waiting for the second look means that the first one saw a sensor high.
SeenOnce == sensor_state = 1 => high # {}

\* What one call leaves alone, or sets, in all of the three states.
LEMMA ReadTyped ==
    ASSUME TypeOK, NEW S \in SUBSET Sensor, Read(S)
    PROVE  /\ high' = S /\ confirmed' = (high # {} /\ S # {})
           /\ returned' = 0 /\ uart' = uart
<1>1. returned' = 0
  BY DEF Read
<1>2. 0 \notin Code
  <2>1. \A s \in Sensor : Triggered(s) # 0 /\ Recovered(s) # 0
    BY DEF Sensor, Triggered, Recovered
  <2> QED
    BY <2>1 DEF Code
<1>3. uart' = uart
  BY <1>1, <1>2 DEF Read, Send
<1> QED
  BY <1>1, <1>3 DEF Read

LEMMA CodesTyped ==
    \A s \in Sensor : Triggered(s) \in Code \cup {0} /\ Recovered(s) \in Code \cup {0}
BY DEF Code

LEMMA TypeStep == TypeOK /\ [Next]_vars => TypeOK'
<1> SUFFICES ASSUME TypeOK, [Next]_vars PROVE TypeOK'
  OBVIOUS
<1>1. ASSUME Next
      PROVE  /\ sensor_state' \in 0..2
             /\ sensor_state_return' \in Code \cup {0}
             /\ \E S \in SUBSET Sensor : Read(S)
  <2>1. sensor_state_return \in Code \cup {0}
    BY DEF TypeOK
  <2>2. CASE AtRest
    BY <2>1, <2>2 DEF AtRest
  <2>3. CASE Confirm
    BY <2>1, <2>3, CodesTyped DEF Confirm
  <2>4. CASE Recover
    BY <2>1, <2>4, CodesTyped DEF Recover
  <2> QED
    BY <1>1, <2>2, <2>3, <2>4 DEF Next
<1>2. CASE Next
  <2>1. PICK S \in SUBSET Sensor : Read(S)
    BY <1>1, <1>2
  <2>2. high' \subseteq Sensor /\ returned' \in Code \cup {0}
    BY <2>1, ReadTyped
  <2>3. confirmed' \in BOOLEAN
    BY <2>1, ReadTyped
  <2>4. uart' \in Command \cup {"none"}
    BY <2>1, ReadTyped DEF TypeOK
  <2> QED
    BY <1>1, <1>2, <2>2, <2>3, <2>4 DEF TypeOK
<1>3. CASE UNCHANGED vars
  BY <1>3 DEF vars, TypeOK
<1> QED
  BY <1>2, <1>3

\* The states, the codes and the commands keep their types.
THEOREM TypeCorrect == Spec => []TypeOK
<1>1. Init => TypeOK
  <2> SUFFICES ASSUME Init PROVE TypeOK
    OBVIOUS
  <2>1. sensor_state \in 0..2
    BY DEF Init
  <2>2. sensor_state_return \in Code \cup {0} /\ returned \in Code \cup {0}
    BY DEF Init
  <2>3. high \subseteq Sensor /\ confirmed \in BOOLEAN
    BY DEF Init
  <2>4. uart \in Command \cup {"none"}
    BY DEF Init
  <2> QED
    BY <2>1, <2>2, <2>3, <2>4 DEF TypeOK
<1> QED
  BY <1>1, TypeStep, PTL DEF Spec

LEMMA SeenOnceStep == TypeOK /\ SeenOnce /\ [Next]_vars => SeenOnce'
<1> SUFFICES ASSUME TypeOK, SeenOnce, [Next]_vars PROVE SeenOnce'
  OBVIOUS
<1>1. CASE AtRest
  <2>1. PICK S \in SUBSET Sensor : Read(S) /\ sensor_state' = IF S = {} THEN 0 ELSE 1
    BY <1>1 DEF AtRest
  <2>2. high' = S
    BY <2>1, ReadTyped
  <2> QED
    BY <2>1, <2>2 DEF SeenOnce
<1>2. CASE Confirm \/ Recover
  BY <1>2 DEF Confirm, Recover, SeenOnce
<1>3. CASE UNCHANGED vars
  BY <1>3 DEF vars, SeenOnce
<1> QED
  BY <1>1, <1>2, <1>3 DEF Next

\* A code of a recovery is not a code of a trigger.
LEMMA CodesDiffer ==
    \A r, s \in Sensor :
       /\ Recovered(r) # Triggered(s)
       /\ Triggered(r) = Triggered(s) => r = s
BY DEF Recovered, Triggered, Sensor

\* No sensor is recorded as triggered unless two calls in a row saw a sensor high.
THEOREM TriggersAreDebounced == Spec => Debounced
<1> DEFINE Fresh == \A s \in Sensor :
              (sensor_state_return' = Triggered(s) /\ sensor_state_return # Triggered(s))
                 => confirmed'
<1>1. Init => SeenOnce
  BY DEF Init, SeenOnce
<1>2. TypeOK /\ SeenOnce /\ [Next]_vars => [Fresh]_vars
  <2> SUFFICES ASSUME TypeOK, SeenOnce, [Next]_vars,
                      NEW s \in Sensor, sensor_state_return' = Triggered(s),
                      sensor_state_return # Triggered(s)
               PROVE  confirmed'
    OBVIOUS
  <2>1. CASE AtRest
    BY <2>1 DEF AtRest
  <2>2. CASE Confirm
    <3>1. high # {}
      BY <2>2 DEF Confirm, SeenOnce
    <3>2. PICK S \in SUBSET Sensor :
            Read(S) /\ (S = {} => UNCHANGED sensor_state_return)
      BY <2>2 DEF Confirm
    <3>3. S # {}
      BY <3>2
    <3> QED
      BY <3>1, <3>2, <3>3, ReadTyped
  <2>3. CASE Recover
    <3>1. PICK r \in Sensor : sensor_state_return' = Recovered(r)
      BY <2>3 DEF Recover
    <3> QED
      BY <3>1, CodesDiffer
  <2>4. CASE UNCHANGED vars
    BY <2>4 DEF vars
  <2> QED
    BY <2>1, <2>2, <2>3, <2>4 DEF Next
<1> QED
  BY <1>1, <1>2, SeenOnceStep, TypeCorrect, PTL DEF Spec, Debounced

\* The three states go round while a sensor is high, and the one that stays the first is
\* recorded on the way.
LEMMA RoundStep ==
    ASSUME TypeOK, NEW s, Chosen(high, s), Chosen(high, s)', [Next]_vars
    PROVE  /\ (sensor_state = 0 /\ vars' # vars) => sensor_state' = 1
           /\ (sensor_state = 1 /\ vars' # vars) =>
                 sensor_state' = 2 /\ sensor_state_return' = Triggered(s)
           /\ (sensor_state = 2 /\ vars' # vars) => sensor_state' = 0
           /\ vars' = vars => sensor_state' = sensor_state
<1>1. s \in Sensor /\ high' # {}
  BY DEF Chosen, TypeOK
<1>2. CASE AtRest
  <2>1. PICK S \in SUBSET Sensor : Read(S) /\ sensor_state' = IF S = {} THEN 0 ELSE 1
    BY <1>2 DEF AtRest
  <2>2. sensor_state = 0 /\ sensor_state' = 1
    BY <1>1, <1>2, <2>1, ReadTyped DEF AtRest
  <2> QED
    BY <2>2 DEF vars
<1>3. CASE Confirm
  <2>1. PICK S \in SUBSET Sensor :
          /\ Read(S)
          /\ IF S = {} THEN UNCHANGED sensor_state_return
             ELSE \E r \in Sensor : Chosen(S, r) /\ sensor_state_return' = Triggered(r)
    BY <1>3 DEF Confirm
  <2>2. S = high' /\ S # {}
    BY <1>1, <2>1, ReadTyped
  <2>3. PICK r \in Sensor : Chosen(S, r) /\ sensor_state_return' = Triggered(r)
    BY <2>1, <2>2
  <2>4. r = s
    BY <1>1, <2>2, <2>3 DEF Chosen, Sensor
  <2> QED
    BY <1>3, <2>3, <2>4 DEF Confirm, vars
<1>4. CASE Recover
  BY <1>4 DEF Recover, vars
<1>5. CASE UNCHANGED vars
  BY <1>5 DEF vars
<1> QED
  BY <1>2, <1>3, <1>4, <1>5 DEF Next

\* A sensor that stays high, while those before it stay low, is recorded again and again
\* as long as the loop goes on, for any number of sensors (user_equipment.c:34-100,
\* 195-203): TriggerSeen, sensor by sensor.
THEOREM TriggerRecorded ==
    ASSUME NEW CONSTANT s
    PROVE  Spec /\ []<><<Next>>_vars =>
              (<>[]Chosen(high, s) => []<>(sensor_state_return = Triggered(s)))
<1>1. TypeOK => sensor_state = 0 \/ sensor_state = 1 \/ sensor_state = 2
  BY DEF TypeOK
<1>2. TypeOK /\ Chosen(high, s) /\ Chosen(high, s)' /\ [Next]_vars =>
        /\ sensor_state = 0 => (sensor_state = 0)' \/ (sensor_state = 1)'
        /\ sensor_state = 1 => \/ (sensor_state = 1)'
                               \/ (sensor_state = 2)' /\ (sensor_state_return = Triggered(s))'
        /\ sensor_state = 2 => (sensor_state = 2)' \/ (sensor_state = 0)'
  BY RoundStep
<1>3. TypeOK /\ Chosen(high, s) /\ Chosen(high, s)' /\ <<Next>>_vars =>
        /\ sensor_state = 0 => (sensor_state = 1)'
        /\ sensor_state = 1 => (sensor_state = 2)' /\ (sensor_state_return = Triggered(s))'
        /\ sensor_state = 2 => (sensor_state = 0)'
  BY RoundStep
<1> QED
  BY <1>1, <1>2, <1>3, TypeCorrect, PTL DEF Spec
=============================================================================
