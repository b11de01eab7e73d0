--------------------------- MODULE StartupContract ---------------------------
(***************************************************************************)
(* What the sensorless startup promises the rest of the drive: a start is  *)
(* armed only with the drive on, drives only after having been armed, and  *)
(* a fault is left only with the drive off.  A stop is tested first and    *)
(* stored later, and the start may end or fail in between: the store then  *)
(* comes too late, and is the one way but a clear to leave a fault, and    *)
(* the one way to drive without having been armed.                         *)
(***************************************************************************)
VARIABLES phase, drive, stop  \* stop: tested, and not yet stored
vars == <<phase, drive, stop>>

Init == phase = "off" /\ drive = FALSE /\ stop = FALSE

\* The drive comes and goes by its own state machine, but not on within a stop.
Drive == drive' \in BOOLEAN /\ (stop => ~drive') /\ UNCHANGED <<phase, stop>>

Arm   == phase = "off" /\ drive /\ ~stop /\ phase' = "armed" /\ UNCHANGED <<drive, stop>>
Begin == phase = "armed" /\ drive /\ ~stop /\ phase' = "driving" /\ UNCHANGED <<drive, stop>>
End   == phase \in {"armed", "driving"} /\ phase' = "off" /\ UNCHANGED <<drive, stop>>
Fail  == /\ phase \in {"armed", "driving"} /\ phase' = "fault"
         /\ drive' \in {drive, FALSE} /\ (stop => ~drive') /\ UNCHANGED stop
Clear == phase = "fault" /\ ~drive /\ ~stop /\ phase' = "off" /\ UNCHANGED <<drive, stop>>

\* The tests of a stop withdraw a start that is only armed, and find no fault.
Stop  == /\ ~stop /\ stop' = TRUE
         /\ phase # "fault" /\ phase' = (IF phase = "armed" THEN "off" ELSE phase)
         /\ UNCHANGED drive

\* Its store ends the start, or lets it drive on until the motor rests.
Store == /\ stop /\ stop' = FALSE
         /\ phase' \in {"off", "driving"} /\ (phase = "fault" => ~drive)
         /\ UNCHANGED drive

Next == Drive \/ Arm \/ Begin \/ End \/ Fail \/ Clear \/ Stop \/ Store

Spec == Init /\ [][Next]_vars
=============================================================================
