--------------------------- MODULE MCServoEnable ---------------------------
(* A small instance of ServoEnable: delays of a few ticks, and one fault of   *)
(* each kind the state machine tells apart.                                   *)
EXTENDS ServoEnable

\* FaultCode.h: SC_ERR, OverUdc, UnderUdc as [display, level, resettable].
ScErr == [disp |-> 1, level |-> 1, reset |-> 0]
OverUdc == [disp |-> 11, level |-> 1, reset |-> 1]
UnderUdc == [disp |-> 10, level |-> 2, reset |-> 1]

MCFaults == {ScErr, OverUdc, UnderUdc}
=============================================================================
