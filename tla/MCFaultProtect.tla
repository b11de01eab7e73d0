--------------------------- MODULE MCFaultProtect --------------------------
(* Codes of FaultCode: the non-resettable SC_ERR, which outranks all others,  *)
(* and LostPhase, which OverUdc outranks; two resettable ones; two warnings.  *)
EXTENDS FaultProtect

ScErr == [disp |-> 1, level |-> 1, reset |-> 0]
UnderUdc == [disp |-> 10, level |-> 2, reset |-> 1]
OverUdc == [disp |-> 11, level |-> 1, reset |-> 1]
LostPhase == [disp |-> 12, level |-> 1, reset |-> 0]
DrvOvHeatWarn == [disp |-> 130, level |-> 3, reset |-> 1]
MotOvHeatWarn == [disp |-> 129, level |-> 3, reset |-> 1]

MCErrors == {ScErr, UnderUdc, OverUdc, LostPhase}
MCPwm == {ScErr}
MCMain == {UnderUdc}
MCTwoWarnings == {DrvOvHeatWarn, MotOvHeatWarn}
=============================================================================
