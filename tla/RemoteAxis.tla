----------------------------- MODULE RemoteAxis -----------------------------
(***************************************************************************)
(* Who commands the drive and how it is told to stop: the CiA 402 axis and *)
(* the network state of the main loop (Canopenappl.c), the arbitration of  *)
(* the command's sources (SM_CmdInCheck), the control source               *)
(* (SV_CtrlMode.c) and the stop by option code (CiA402_Stop).              *)
(*                                                                         *)
(* Brake, delays and speed are those of DriveCycle, which ServoEnable      *)
(* implements: here a delay ends at any time.  Charge, regulators and      *)
(* gates are ServoEnable's too: they do not act on command or axis. The    *)
(* main loop moves between ticks only, and a tick may come between any two *)
(* of its calls.  The build is SERVO_CANOPEN, where CM_BusCtrl.Run is      *)
(* never set.  The power-up delay has passed.  Dynamic braking and the     *)
(* halt bit are left out; control by the debugger, which sets all other    *)
(* sources aside, is in SensorlessMailbox.                                 *)
(***************************************************************************)
EXTENDS Integers

CONSTANTS
  Hosts,             \* the local sources in use
  QuickStopOption,   \* 0x605A
  DisableOption,     \* 0x605C, which serves the pending code 0x605B
  FaultOption,       \* 0x605E
  LocalStop,         \* SM_StopModeDeal without an error: 0, or STOPMODEZERO
  LocalErrStop       \* with a level-2 error: 0, or STOPMODEFAULT

OptionCodes == 0 .. 4
STOPMODEFAULT == 5
STOPMODEZERO == 6

\* panel: the JOG and learning bits; fft; RamAid->SON, RamAid->JodRun, ScopeCtrl->MortorSon
ASSUME HostsOK == Hosts \subseteq {"panel", "fft", "son", "jod", "scope"}
ASSUME OptionsOK == {QuickStopOption, DisableOption, FaultOption} \subseteq OptionCodes
ASSUME LocalOK == LocalStop \in {0, STOPMODEZERO} /\ LocalErrStop \in {0, STOPMODEFAULT}

VARIABLES
  srvOnIn, readyDC, brakeStatus, srvOnStatus,  \* the drive: see DriveCycle
  readyERR,             \* Ready.bit.ERR
  stopFlg,              \* OffZSpdStopFlg as the last stop set it
  nmt,                  \* operatingState == CO_NMT_OPERATIONAL
  axis,                 \* i16State
  pending,              \* u16PendingOptionCode
  fnEnabled,            \* bAxisFunctionEnabled
  cmdIn,                \* the bits of CmdIn, the panel's five as one
  hosts,                \* the local sources asking for the drive
  ctrlSoure,            \* CtrlMode.CtrlSoure: "remote", or a local one
  errLevel, dcLost,     \* level of FaultP.ErrCode, 0 without; UDC_INIT
  mainPc, tickPc,       \* the next call of the main loop and of the tick
  reason,               \* history: why the axis left OPERATION_ENABLED, until
                        \* the drive has stopped; "dropped" after a reset
  offFor                \* history: ticks begun in a row without any source

driveVars == <<srvOnIn, readyDC, brakeStatus, srvOnStatus>>
axisVars == <<nmt, axis, pending, fnEnabled, reason>>
commandVars == <<cmdIn, hosts>>
faultVars == <<errLevel, dcLost>>
vars == <<driveVars, readyERR, stopFlg, axisVars, commandVars, ctrlSoure, faultVars, mainPc, tickPc, offFor>>

Drive == INSTANCE DriveCycle

\* Ticks from the last request to a drive that is off or has its brake closing.
OffBound == 2

Init ==
  /\ Drive!Init /\ readyERR = 1 /\ stopFlg = 0
  /\ nmt = FALSE /\ axis = "NOT_READY" /\ pending = "none" /\ fnEnabled = FALSE
  /\ cmdIn = {} /\ hosts = {} /\ ctrlSoure = "local" /\ errLevel = 0 /\ dcLost = 1
  /\ mainPc = "nmt" /\ tickPc = "idle" /\ reason = "none" /\ offFor = 0

(* -- The main loop ------------------------------------------------------- *)

Words == {"shutdown", "switchOn", "enable", "quickStop", "disableVoltage", "other"}

\* canopen_task: the network state follows the master.
CanopenTask ==
  /\ mainPc = "nmt" /\ mainPc' = "axis" /\ nmt' \in BOOLEAN
  /\ UNCHANGED <<axis, pending, fnEnabled, reason>>

\* The transitions of CiA402_StateMachine for the control word w, from the state
\* that an error overrides.
State == IF readyERR = 1 THEN "FAULT" ELSE axis
Goto(s) == axis' = s /\ mainPc' = "fn" /\ UNCHANGED <<pending, reason>>
Stay == Goto(State)

NotReady == State = "NOT_READY" /\ Goto(IF nmt THEN "SWITCH_ON_DISABLED" ELSE "NOT_READY")

SwitchOnDisabled(w) ==
  /\ State = "SWITCH_ON_DISABLED"
  /\ Goto(IF w = "shutdown" THEN "READY" ELSE "SWITCH_ON_DISABLED")

Ready(w) ==
  /\ State = "READY"
  /\ CASE w \in {"quickStop", "disableVoltage"} -> Goto("SWITCH_ON_DISABLED")
       [] w \in {"switchOn", "enable"} /\ readyDC = 0 -> Goto("SWITCHED_ON")
       [] OTHER -> Stay

SwitchedOn(w) ==
  /\ State = "SWITCHED_ON"
  /\ CASE readyDC = 1 \/ w = "shutdown" -> Goto("READY")
       [] readyDC = 0 /\ w \in {"quickStop", "disableVoltage"} -> Goto("SWITCH_ON_DISABLED")
       [] readyDC = 0 /\ w = "enable" ->
            axis' = "OPERATION_ENABLED" /\ pending' = "none" /\ reason' = "none" /\ mainPc' = "fn"
       [] OTHER -> Stay

\* Leave OPERATION_ENABLED for s with the stop of the pending code 0x605B.
Disable(s) == axis' = s /\ pending' = "605B" /\ reason' = "disable" /\ mainPc' = "fn"

\* The word is tested after the network, and whatever the network: a quick stop
\* returns at once, with the function still enabled and what is pending kept.
OperationEnabled(w) ==
  /\ State = "OPERATION_ENABLED"
  /\ CASE w = "switchOn" -> Disable("SWITCHED_ON")
       [] w = "quickStop" ->
            /\ axis' = "QUICK_STOP" /\ reason' = "quick" /\ mainPc' = "nmt"
            /\ pending' = IF nmt THEN pending ELSE "605B"
       [] w = "shutdown" -> Disable("READY")
       [] w = "disableVoltage" -> Disable("SWITCH_ON_DISABLED")
       [] w \in {"enable", "other"} -> IF nmt THEN Stay ELSE Disable("NOT_READY")

QuickStop(w) ==
  /\ State = "QUICK_STOP"
  /\ axis' = IF w = "disableVoltage" \/ readyDC = 1 THEN "SWITCH_ON_DISABLED" ELSE "READY"
  /\ pending' = "605A" /\ reason' = "quick" /\ mainPc' = "fn"

Fault ==
  /\ State = "FAULT"
  /\ Goto(IF readyERR = 1 THEN "FAULT" ELSE IF nmt THEN "SWITCH_ON_DISABLED" ELSE "NOT_READY")

\* Variant of Suspended: for a quick stop only.
QuickSuspended == pending = "605A" /\ readyERR = 0
\* A stop not yet completed suspends the axis, unless an error is displayed.
Suspended == pending # "none" /\ readyERR = 0

CiA402_StateMachine ==
  /\ mainPc = "axis"
  /\ IF Suspended
     THEN mainPc' = "nmt" /\ UNCHANGED <<axis, pending, reason>>
     ELSE \E w \in Words :
            \/ NotReady \/ SwitchOnDisabled(w) \/ Ready(w) \/ SwitchedOn(w)
            \/ OperationEnabled(w) \/ QuickStop(w) \/ Fault
  /\ UNCHANGED <<nmt, fnEnabled>>

\* Its tail.  DISABLE_DRIVE is option 0.
AxisFunction ==
  /\ mainPc = "fn" /\ mainPc' = "nmt"
  /\ fnEnabled' = (axis = "OPERATION_ENABLED" \/ (axis = "QUICK_STOP" /\ QuickStopOption # 0))
  /\ UNCHANGED <<nmt, axis, pending, reason>>

MainLoop ==
  /\ tickPc = "idle"
  /\ CanopenTask \/ CiA402_StateMachine \/ AxisFunction
  /\ UNCHANGED <<driveVars, readyERR, stopFlg, commandVars, ctrlSoure, faultVars, tickPc, offFor>>

(* -- The 1 ms tick: StateMachine_Process --------------------------------- *)

Internal == hosts \cap {"panel", "fft", "son", "jod"} # {}

\* The first half of SM_CmdInCheck: only the branch of a source without rivals
\* touches the bits, and only the branch without a source clears them.
SelectedKept ==
  IF Internal THEN cmdIn
  ELSE cmdIn \cup (IF fnEnabled THEN {"ecat"} ELSE {}) \cup (hosts \cap {"scope"})
Selected ==
  CASE Internal -> cmdIn
    [] ~Internal /\ fnEnabled -> cmdIn \cup {"ecat"}
    [] ~Internal /\ ~fnEnabled /\ "scope" \in hosts -> cmdIn \cup {"scope"}
    [] ~Internal /\ ~fnEnabled /\ "scope" \notin hosts -> cmdIn \ {"ecat", "scope"}

\* The second half: an operational network cancels the panel and SON, but neither an
\* FFT nor JodRun.
CmdInCheck ==
  IF nmt
  THEN /\ cmdIn' = Selected \ {"panel", "scope"}
       /\ hosts' = hosts \ {"panel", "son"}
  ELSE /\ cmdIn' = (Selected \ {"panel"}) \cup (IF Internal THEN {"panel"} ELSE {})
       /\ UNCHANGED hosts

\* SM_ReadyJudge and SM_SonCmdInChk
TickCommand ==
  /\ tickPc = "idle" /\ tickPc' = "drive"
  /\ readyERR' = (IF errLevel = 0 THEN 0 ELSE 1) /\ readyDC' = dcLost
  /\ IF readyERR' = 0 /\ readyDC' = 0
     THEN CmdInCheck /\ srvOnIn' = (IF cmdIn' = {} THEN 0 ELSE 1)
     ELSE srvOnIn' = 0 /\ UNCHANGED commandVars
  /\ offFor' = IF fnEnabled \/ hosts # {} THEN 0
               ELSE IF offFor < OffBound THEN offFor + 1 ELSE OffBound
  /\ UNCHANGED <<brakeStatus, srvOnStatus, stopFlg, axisVars, ctrlSoure, faultVars, mainPc>>

\* A stop is complete on a braked drive without a command and when the brake has
\* closed: what is pending is over, and the sources below are withdrawn.
BrakedIdle == readyDC = 0 /\ brakeStatus = "BRAKE" /\ srvOnIn = 0
BrakeClosed == readyDC = 0 /\ brakeStatus = "2BRAKE" /\ brakeStatus' = "BRAKE"
StopClosed == BrakeClosed
StopCompleted == BrakeClosed \/ BrakedIdle
Falling == srvOnStatus = 1 /\ srvOnStatus' = 0
PendingDropped == IF StopCompleted \/ Falling THEN "none" ELSE pending
PendingNow == IF StopCompleted THEN "none" ELSE pending
HostsLeft ==
  CASE readyDC = 1 -> hosts \ {"son", "jod", "scope"}
    [] BrakeClosed -> hosts \ {"son", "jod", "scope"}
    [] OTHER -> hosts

\* CiA402_QuickStopAction, CiA402_TransitionAction, CiA402_FaultStopAction
EcatStopRaw(option) == option
EcatStop(option) == IF option > 2 THEN option - 2 ELSE option

\* CiA402_Stop and SM_StopModeDeal; 0 is a free stop.
Level1 == readyERR = 1 /\ errLevel = 1
RemoteStop ==
  CASE Level1 -> 0
    [] readyERR = 1 /\ ~Level1 -> EcatStop(FaultOption)
    [] readyERR = 0 /\ PendingNow = "605A" -> EcatStop(QuickStopOption)
    [] readyERR = 0 /\ PendingNow = "605B" -> EcatStop(DisableOption)
    [] OTHER -> 0
LocalStopMode ==
  CASE Level1 -> 0
    [] readyERR = 1 /\ ~Level1 -> LocalErrStop
    [] OTHER -> LocalStop

\* Ctrl_Soure_Switch
CtrlSoureSwitch == ctrlSoure' = IF nmt THEN "remote" ELSE "local"

\* SM_SrvBrakeCloseDeal, the stop of SM_SrvStatusDeal with the control source of the
\* last tick, and CtrlModeSwitch.
TickDrive ==
  /\ tickPc = "drive" /\ tickPc' = "protect"
  /\ Drive!Step
  /\ pending' = PendingNow /\ hosts' = HostsLeft
  /\ stopFlg' = IF Falling THEN (IF ctrlSoure = "remote" THEN RemoteStop ELSE LocalStopMode)
                ELSE IF BrakeClosed THEN 0 ELSE stopFlg
  /\ reason' = IF Falling \/ StopCompleted THEN "none" ELSE reason
  /\ CtrlSoureSwitch
  /\ UNCHANGED <<readyERR, nmt, axis, fnEnabled, cmdIn, faultVars, mainPc, offFor>>

(* -- Faults, reset and local sources ------------------------------------- *)

\* FaultPrtt_FaultInterface, as far as levels go.
Outranked(level) == IF errLevel = 0 \/ level < errLevel THEN level ELSE errLevel

\* UdcCtrl_Schedule, the protections, and FaultPrtt_Schedule, which ends with the reset if
\* one is requested and granted: with an error, or with a warning only, which is not state
\* here and which any tick may find.  Either way it drops what is pending.
ResetPending == pending' = "none" /\ reason' = IF reason = "none" THEN "none" ELSE "dropped"
TickProtect ==
  /\ tickPc = "protect" /\ tickPc' = "idle"
  /\ dcLost' \in {0, 1}
  /\ \E raised \in {errLevel} \cup {Outranked(level) : level \in {1, 2}} :
       \/ errLevel' = raised /\ UNCHANGED <<pending, reason>>
       \/ errLevel' = 0 /\ ResetPending
  /\ UNCHANGED <<driveVars, readyERR, stopFlg, nmt, axis, fnEnabled, commandVars, ctrlSoure, mainPc,
                 offFor>>

\* A level-1 error from the PWM interrupt, at any point.
PwmFault ==
  /\ errLevel # 1 /\ errLevel' = Outranked(1)
  /\ UNCHANGED <<driveVars, readyERR, stopFlg, axisVars, commandVars, ctrlSoure, dcLost, mainPc, tickPc,
                 offFor>>

\* A panel, a scope or a test asks for the drive, or withdraws.
HostChange ==
  /\ tickPc = "idle"
  /\ \E h \in Hosts : hosts' = hosts \ {h} \/ hosts' = hosts \cup {h}
  /\ UNCHANGED <<driveVars, readyERR, stopFlg, axisVars, cmdIn, ctrlSoure, faultVars, mainPc, tickPc,
                 offFor>>

Tick == TickCommand \/ TickDrive \/ TickProtect

Next == MainLoop \/ Tick \/ PwmFault \/ HostChange

Spec == Init /\ [][Next]_vars

\* The delay of a brake state ends, though not on a given tick.
BrakeMoves == TickDrive /\ brakeStatus' # brakeStatus

\* The timer keeps firing; the main loop comes round between ticks; the delays of the
\* brake end.
LiveSpec == Spec /\ WF_vars(Tick) /\ SF_vars(MainLoop) /\ SF_vars(BrakeMoves)

(* -- Properties ---------------------------------------------------------- *)

\* Every variable stays in its range.
TypeOK ==
  /\ {srvOnIn, readyDC, srvOnStatus, readyERR, dcLost} \subseteq {0, 1}
  /\ brakeStatus \in {"BRAKE", "2LOOSE", "LOOSE", "2BRAKE"}
  /\ stopFlg \in {0, 1, 2, STOPMODEZERO, STOPMODEFAULT}
  /\ nmt \in BOOLEAN /\ fnEnabled \in BOOLEAN /\ pending \in {"none", "605A", "605B"}
  /\ axis \in {"NOT_READY", "SWITCH_ON_DISABLED", "READY", "SWITCHED_ON", "OPERATION_ENABLED",
               "QUICK_STOP", "FAULT"}
  /\ cmdIn \subseteq {"ecat", "scope", "panel"} /\ hosts \subseteq Hosts
  /\ ctrlSoure \in {"remote", "local"} /\ errLevel \in 0 .. 2
  /\ mainPc \in {"nmt", "axis", "fn"}
  /\ tickPc \in {"idle", "drive", "protect"}
  /\ reason \in {"none", "disable", "quick", "dropped"} /\ offFor \in 0 .. OffBound

\* A disabled axis stops the drive, unless a local source holds it: no bit of a source
\* that has gone outlives the next ticks, whatever branch of SM_CmdInCheck left it set.
DisableStops ==
  tickPc = "idle" /\ offFor = OffBound => srvOnStatus = 0 \/ brakeStatus \in {"2BRAKE", "BRAKE"}

StopFor(r) ==
  CASE r = "quick" -> EcatStop(QuickStopOption)
    [] r = "disable" -> EcatStop(DisableOption)
    [] r = "dropped" -> 0

\* A moving drive that the disabled axis stops, stops by the option for the reason the
\* axis had, though brake, reset and axis all write what is pending in the meantime
\* (CiA402_Stop).  Only a reset in between makes a free stop of it, never a stop by
\* another option: one granted with no more than a warning does so too.
OptionHonoured ==
  [][ tickPc = "drive" /\ Falling /\ readyERR = 0 /\ ctrlSoure = "remote" /\ reason # "none"
        /\ ~fnEnabled /\ brakeStatus = "LOOSE"
      => stopFlg' = StopFor(reason) ]_vars

\* An axis disabled with a stop pending waits for it: until a tick completes the stop or a
\* reset drops it, no control word, network state, error or warning enables the drive again
\* or puts another stop in its place (CiA402_StateMachine).
SuspendedWaits ==
  [][ pending # "none" /\ ~fnEnabled
      => /\ ~fnEnabled'
         /\ \/ pending' = pending
            \/ /\ pending' = "none"
               /\ (tickPc = "drive" /\ StopCompleted) \/ (tickPc = "protect" /\ errLevel' = 0) ]_vars

\* A stop of a disabled axis completes, so that the axis goes on: once the bus is up
\* and no local source asks, nothing that suspends the axis stays pending.
PendingAnswered ==
  <>[](hosts = {} /\ dcLost = 0) => [](pending # "none" /\ ~fnEnabled => <>(pending = "none"))

(* -- What the comments of the repository claim ---------------------------- *)

\* Canopenappl.c:325: a quick stop stops the drive.
QuickStopStops == axis = "QUICK_STOP" ~> srvOnStatus = 0 \/ axis = "OPERATION_ENABLED"
=============================================================================
