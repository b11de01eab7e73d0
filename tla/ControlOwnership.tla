--------------------------- MODULE ControlOwnership ---------------------------
(***************************************************************************)
(* What the sensorless command mailboxes promise: the field bus and the    *)
(* debugger never share the motor.  Control changes hands at standstill    *)
(* only, and a motion is started by the owner of the time.                 *)
(***************************************************************************)
VARIABLES
  owner,   \* who may start a motion
  mover    \* who started the motion under way

Init == owner = "can" /\ mover = "none"

Hand  == mover = "none" /\ owner' \in {"can", "jlink"} /\ UNCHANGED mover
Start == mover = "none" /\ mover' = owner /\ UNCHANGED owner
End   == mover' = "none" /\ UNCHANGED owner

Next == Hand \/ Start \/ End

Spec == Init /\ [][Next]_<<owner, mover>>
=============================================================================
