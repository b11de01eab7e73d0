----------------------------- MODULE DriveCycle -----------------------------
(***************************************************************************)
(* What the servo-enable state machine promises whoever commands it: the   *)
(* brake runs through its four states in one order, the drive is switched  *)
(* on by the command only, and a lost bus brakes at once.  Every delay and *)
(* the speed of the motor are left open.                                   *)
(***************************************************************************)
EXTENDS Integers

VARIABLES
  srvOnIn,      \* the run command of this tick
  readyDC,      \* 1 when the bus is lost
  brakeStatus,  \* SM_BRAKESTATUS_*
  srvOnStatus   \* 1 while the drive is on

vars == <<srvOnIn, readyDC, brakeStatus, srvOnStatus>>

Init == srvOnIn = 0 /\ readyDC = 1 /\ brakeStatus = "BRAKE" /\ srvOnStatus = 0

Sample ==
  /\ srvOnIn' \in {0, 1} /\ readyDC' \in {0, 1}
  /\ UNCHANGED <<brakeStatus, srvOnStatus>>

BusLost == readyDC = 1 /\ brakeStatus' = "BRAKE" /\ srvOnStatus' = 0

\* Braked: the drive follows the command; only a command releases the brake.
Braked ==
  /\ brakeStatus = "BRAKE" /\ srvOnStatus' = srvOnIn
  /\ brakeStatus' \in IF srvOnIn = 1 THEN {"BRAKE", "2LOOSE"} ELSE {"BRAKE"}

\* Releasing: the release is completed, or abandoned with the command.
Loosening ==
  /\ brakeStatus = "2LOOSE"
  /\ \/ brakeStatus' = "LOOSE" /\ UNCHANGED srvOnStatus
     \/ srvOnIn = 0 /\ brakeStatus' = "2BRAKE" /\ srvOnStatus' = 0
     \/ srvOnIn = 1 /\ UNCHANGED <<brakeStatus, srvOnStatus>>

\* Released: the brake closes only on a drive that the last tick left off.
Loosened ==
  /\ brakeStatus = "LOOSE" /\ srvOnStatus' = srvOnIn
  /\ brakeStatus' \in IF srvOnStatus = 0 THEN {"LOOSE", "2BRAKE"} ELSE {"LOOSE"}

Braking ==
  brakeStatus = "2BRAKE" /\ brakeStatus' \in {"2BRAKE", "BRAKE"} /\ UNCHANGED srvOnStatus

Step ==
  /\ BusLost \/ (readyDC = 0 /\ (Braked \/ Loosening \/ Loosened \/ Braking))
  /\ UNCHANGED <<srvOnIn, readyDC>>

Spec == Init /\ [][Sample \/ Step]_vars
=============================================================================
