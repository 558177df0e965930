----------------------------- MODULE Equipment -----------------------------
(***************************************************************************)
(* components/src/user_equipment.c: equipment_control_task calls           *)
(* read_sensor_state over and over and turns the code it returns into a    *)
(* command line for the serial port.                                       *)
(*                                                                         *)
(* One pass of the loop is one step.  The pins are read one after the      *)
(* other while the levels change, so any set of sensors may be seen high.  *)
(***************************************************************************)
EXTENDS Naturals

CONSTANT N   \* sensors; the first is at pin 34

ASSUME NAssumption == N \in Nat \ {0}

VARIABLES
    sensor_state,         \* 0: at rest, 1: to be confirmed, 2: triggered
    sensor_state_return,  \* the code of the last change seen, or 0
    high,                 \* the sensors that the last call saw high
    confirmed,            \* ghost: the call before that saw a sensor high, too
    returned,             \* what read_sensor_state returned
    uart                  \* the last command sent, or "none"

vars == <<sensor_state, sensor_state_return, high, confirmed, returned, uart>>

Sensor       == 1..N
Triggered(s) == 10 * s + 1
Recovered(s) == 10 * s
Code         == {Triggered(s) : s \in Sensor} \cup {Recovered(s) : s \in Sensor}
Command      == [pin : {33 + s : s \in Sensor}, level : {0, 1}]

\* The else-if chains take the first sensor of a set.
Chosen(S, s) == s \in S /\ \A r \in S : s <= r

Init ==
    /\ sensor_state = 0 /\ sensor_state_return = 0
    /\ high = {} /\ confirmed = FALSE
    /\ returned = 0 /\ uart = "none"

\* The command of a code; any other value is not for the serial port.
Send(code) ==
    uart' = IF code \in Code THEN [pin |-> 33 + code \div 10, level |-> code % 10]
            ELSE uart

Read(S) ==
    /\ high' = S
    /\ confirmed' = (high # {} /\ S # {})
    /\ returned' = 0
    /\ Send(returned')

AtRest ==
    /\ sensor_state = 0
    /\ \E S \in SUBSET Sensor :
          /\ Read(S)
          /\ sensor_state' = IF S = {} THEN 0 ELSE 1
    /\ UNCHANGED sensor_state_return

ConfirmWait ==         \* mutant: waits here while no sensor is triggered
    /\ sensor_state = 1
    /\ \E S \in SUBSET Sensor :
          /\ Read(S)
          /\ sensor_state' = IF S = {} THEN 1 ELSE 2
          /\ IF S = {} THEN UNCHANGED sensor_state_return
             ELSE \E s \in Sensor : /\ Chosen(S, s)
                                    /\ sensor_state_return' = Triggered(s)

\* When the level is gone again nothing is recorded, and the state moves on.
Confirm ==
    /\ sensor_state = 1
    /\ \E S \in SUBSET Sensor :
          /\ Read(S)
          /\ IF S = {} THEN UNCHANGED sensor_state_return
             ELSE \E s \in Sensor : /\ Chosen(S, s)
                                    /\ sensor_state_return' = Triggered(s)
    /\ sensor_state' = 2

RecoverStuck ==        \* mutant: the state is not set back
    /\ sensor_state = 2
    /\ \E S \in SUBSET Sensor :
          /\ Read(S)
          /\ IF S = Sensor THEN UNCHANGED sensor_state_return
             ELSE \E s \in Sensor : /\ Chosen(Sensor \ S, s)
                                    /\ sensor_state_return' = Recovered(s)
    /\ UNCHANGED sensor_state

\* The first sensor that is low counts as recovered, whichever was triggered.
Recover ==
    /\ sensor_state = 2
    /\ \E S \in SUBSET Sensor :
          /\ Read(S)
          /\ IF S = Sensor THEN UNCHANGED sensor_state_return
             ELSE \E s \in Sensor : /\ Chosen(Sensor \ S, s)
                                    /\ sensor_state_return' = Recovered(s)
    /\ sensor_state' = 0

Next == AtRest \/ Confirm \/ Recover

Spec == Init /\ [][Next]_vars

\* The task never waits, and nothing of a higher priority runs for good.
FairSpec == Spec /\ WF_vars(Next)

---------------------------------------------------------------------------
TypeOK ==
    /\ sensor_state \in 0..2
    /\ sensor_state_return \in Code \cup {0}
    /\ high \subseteq Sensor /\ confirmed \in BOOLEAN
    /\ returned \in Code \cup {0}
    /\ uart \in Command \cup {"none"}

\* A sensor is recorded as triggered only when two calls in a row have seen a sensor
\* high (user_equipment.c:36-70); a single glitch never is.
Debounced ==
    [][\A s \in Sensor :
         (sensor_state_return' = Triggered(s) /\ sensor_state_return # Triggered(s))
            => confirmed']_vars

\* A sensor that stays high while those before it stay low is recorded as triggered
\* again and again: no earlier glitch, and no recovery of another sensor, can keep the
\* three states from coming back to it (user_equipment.c:34-100).
TriggerSeen ==
    \A s \in Sensor :
       <>[](Chosen(high, s)) => []<>(sensor_state_return = Triggered(s))

===========================================================================
