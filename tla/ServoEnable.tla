---------------------------- MODULE ServoEnable ----------------------------
(***************************************************************************)
(* The servo-enable core of the drive: the 1 ms state machine that turns a *)
(* run command into bootstrap charge, regulators, PWM gates and the        *)
(* holding brake (SV_StateMachine.c), the fault interface that cuts it all *)
(* from the PWM interrupt (SV_FaultProtect.c), and the main loop that      *)
(* publishes the regulator flag to the current loop (main.c).              *)
(*                                                                         *)
(* Three contexts interleave.  The PWM interrupt has the highest priority  *)
(* and may preempt at any point; the 1 ms interrupt preempts the main loop *)
(* and is here cut into the steps between which a preemption matters (pc); *)
(* the main loop runs only while no tick is in progress, and its final     *)
(* assignment is a load and a store.                                       *)
(***************************************************************************)
EXTENDS Integers

CONSTANTS
  PowerUpDelay,       \* SM_POWERUPDELAY, in ticks
  ChargeStep1,        \* ticks of the first bootstrap step (10 in the code)
  SrvOnBrkDly,        \* max(50, RamServo->SrvOnBrkDlyTime)
  LooseBrakeDelay,    \* P1-54
  SrvOffToBrakeDealy, \* P1-57
  SrvOffToBrakeSpd,   \* P1-56
  HoldBraekDelay,     \* P1-55
  Brake48V_Delay,     \* ticks of full brake supply before the keep voltage
  StopSpeed,          \* STOPSPEED
  MaxSpeed,           \* bound on the modelled |speed|
  StopMode,           \* RamBasePara->StopMode > 0
  ErrStopMode,        \* RamBasePara->ErrStopMode > 0
  ManualBrake,        \* whether the panel may force the brake open
  Faults,             \* the fault codes, as records
  NoFault             \* FaultP.ErrCode when FaultStatus has no error bit

Flag == {0, 1}

ASSUME TimesAreNat ==
  /\ PowerUpDelay \in Nat
  /\ ChargeStep1 \in Nat
  /\ SrvOnBrkDly \in Nat
  /\ LooseBrakeDelay \in Nat
  /\ SrvOffToBrakeDealy \in Nat
  /\ HoldBraekDelay \in Nat
  /\ Brake48V_Delay \in Nat
  /\ SrvOffToBrakeSpd \in Nat
  /\ StopSpeed \in Nat
  /\ MaxSpeed \in Nat
ASSUME ModesAreFlags == StopMode \in Flag /\ ErrStopMode \in Flag /\ ManualBrake \in Flag
ASSUME FaultsAreCodes ==
  /\ \A f \in Faults : f \in [disp : Nat, level : {1, 2}, reset : Flag]
  /\ NoFault \notin Faults

VARIABLES
  pc,                  \* where the 1 ms interrupt stands; "idle" between ticks
  powerUpDly,
  readyERR, readyDC,   \* Ready.bit.ERR, Ready.bit.DC
  srvOnIn,             \* the arbitrated run command of this tick
  srvOnStatus, srvOnStatusOld,
  injectStep, chargeTimer,
  brakeStatus,         \* SM_BRAKESTATUS_*
  srvOnToLooseCnt, looseBrakeCnt, srvOffToBrakeCnt, holdBraekCnt,
  regulFlg, regilFlgISR, offZSpdStopFlg,
  gate,                \* 1 when GLB_CTRL does not force the six outputs off
  brakeOut,            \* SM_BRAKECTRL_OUT
  brakePin, brakeChangePowerCnt,  \* the two brake supply pins
  pinBy,               \* who has the tick's pins driven: the output, the panel
  brakeLogic,          \* 1 when RamAid->BrakeLogic == 128
  errCode, errDoFlg,   \* FaultP.ErrCode (NoFault without an error), ErrDoFlg
  dcLost,              \* 1 when UdcCtrl.State == UDC_INIT
  speed,               \* SM_GLOSPD as this tick reads it, 0 once it has
  mainPc, mainVal,     \* main loop: between the load and the store of RegulFlg
  offTicks,            \* history: consecutive ticks begun without the command
  faultTicks           \* history: ticks begun since a level-1 fault latched

smVars    == <<powerUpDly, readyERR, readyDC, srvOnIn, speed, offTicks, faultTicks>>
onVars    == <<srvOnStatus, srvOnStatusOld>>
chargeVars == <<injectStep, chargeTimer>>
cntVars   == <<srvOnToLooseCnt, looseBrakeCnt, srvOffToBrakeCnt, holdBraekCnt>>
regVars   == <<regulFlg, regilFlgISR>>
brakeVars == <<brakeOut, brakePin, brakeLogic>>
supplyVars == <<brakeChangePowerCnt, pinBy>>
faultVars == <<errCode, errDoFlg>>
mainVars  == <<mainPc, mainVal>>

vars == <<pc, smVars, onVars, chargeVars, brakeStatus, cntVars, regVars, offZSpdStopFlg, gate, brakeVars, supplyVars,
          faultVars, dcLost, mainVars>>

\* Ticks from the withdrawal of the command to a closed brake in a free stop.
StopBound == SrvOffToBrakeDealy + HoldBraekDelay + 5
\* Ticks from a level-1 fault to a drive without torque and a closed brake.
FaultBound == SrvOffToBrakeDealy + 4
Level1 == errCode # NoFault /\ errCode.level = 1

(* -- Initialisation: the reset values of StateMachine and FaultP. ------- *)
Init ==
  /\ pc = "idle" /\ powerUpDly = 0
  /\ readyERR = 1 /\ readyDC = 1 /\ srvOnIn = 0 /\ speed = 0
  /\ srvOnStatus = 0 /\ srvOnStatusOld = 0
  /\ injectStep = 0 /\ chargeTimer = 0
  /\ brakeStatus = "BRAKE"
  /\ srvOnToLooseCnt = 0 /\ looseBrakeCnt = 0
  /\ srvOffToBrakeCnt = 0 /\ holdBraekCnt = 0
  /\ regulFlg = 0 /\ regilFlgISR = 0 /\ offZSpdStopFlg = 0
  /\ gate = 0
  /\ brakeOut = "HOLD" /\ brakePin = "low" /\ brakeChangePowerCnt = 0 /\ pinBy = "none"
  /\ brakeLogic = 0
  /\ errCode = NoFault /\ errDoFlg = 0 /\ dcLost = 1
  /\ mainPc = "body" /\ mainVal = 0
  /\ offTicks = 0 /\ faultTicks = 0

(* -- What several handlers do ------------------------------------------- *)

\* The test `++cnt > limit` of every delay.
ExpiredLate(cnt, limit) == cnt > limit
Expired(cnt, limit) == cnt + 1 > limit

\* PWMOutDisable and both regulator flags cleared.
CloseRegulatorsFlag == gate' = 0 /\ regulFlg' = 0 /\ UNCHANGED regilFlgISR
CloseRegulators == gate' = 0 /\ regulFlg' = 0 /\ regilFlgISR' = 0

\* The brake output to hold, and the panel's override withdrawn.
HoldBrakeLater == UNCHANGED <<brakeOut, brakeLogic>>
HoldBrake == brakeOut' = "HOLD" /\ brakeLogic' = 0

(* -- Fault interface ----------------------------------------------------- *)

\* FAULT_BIT_PRIORITY compares level and code together; smaller wins.
Outranks(f, e) ==
  \/ f.level < e.level
  \/ f.level = e.level /\ f.disp < e.disp

\* FP_ERRDEAL and the brake output and supply dropped.
Level1CutNoBrake == CloseRegulators /\ UNCHANGED brakeVars
Level1Cut == CloseRegulators /\ HoldBrake /\ brakePin' = "low"

\* FaultPrtt_FaultInterface for an unmasked error: latch it unless an error of
\* the same or a higher priority is latched; a level-1 error blocks the gates,
\* closes the regulators and drops the brake supply at once.
Raise(f) ==
  IF errCode = NoFault \/ Outranks(f, errCode)
  THEN /\ errCode' = f
       /\ IF f.level = 1
          THEN Level1Cut
          ELSE UNCHANGED <<gate, regVars, brakeVars>>
  ELSE UNCHANGED <<errCode, gate, regVars, brakeVars>>

\* A level-1 fault raised from the PWM interrupt (short circuit, sensorless
\* parameter or tracking fault): preempts the tick and the main loop anywhere.
PwmFault ==
  /\ \E f \in Faults : f.level = 1 /\ Raise(f)
  /\ UNCHANGED <<pc, smVars, onVars, chargeVars, brakeStatus, cntVars,
                 offZSpdStopFlg, supplyVars, errDoFlg, dcLost, mainVars>>

(* -- The 1 ms tick ------------------------------------------------------- *)

\* StateMachine_Process before the power-up delay has run out.
PowerUpWait ==
  /\ pc = "idle" /\ powerUpDly < PowerUpDelay
  /\ powerUpDly' = powerUpDly + 1
  /\ pc' = "protect"
  /\ UNCHANGED <<readyERR, readyDC, srvOnIn, speed, offTicks, faultTicks, onVars, chargeVars, brakeStatus,
                 cntVars, regVars, offZSpdStopFlg, gate, brakeVars,
                 supplyVars, faultVars, dcLost, mainVars>>

\* SM_ReadyJudge and SM_SonCmdInChk: sample fault and bus, then the command c.
ReadyJudge(c, spd) ==
  /\ pc = "idle" /\ powerUpDly >= PowerUpDelay
  /\ readyERR' = IF errCode = NoFault THEN 0 ELSE 1
  /\ readyDC' = dcLost
  /\ srvOnIn' = IF errCode = NoFault /\ dcLost = 0 THEN c ELSE 0
  /\ speed' = spd
  /\ offTicks' = IF srvOnIn' = 1 THEN 0
                 ELSE IF offTicks < StopBound THEN offTicks + 1 ELSE StopBound
  /\ faultTicks' = IF ~Level1 THEN 0
                   ELSE IF faultTicks < FaultBound THEN faultTicks + 1 ELSE FaultBound
  /\ pc' = "brake"
  /\ UNCHANGED <<powerUpDly, onVars, chargeVars, brakeStatus, cntVars, regVars, offZSpdStopFlg, gate, brakeVars, supplyVars,
                 errCode, errDoFlg, dcLost, mainVars>>

ClearDelaysButOne ==
  /\ srvOnToLooseCnt' = 0 /\ looseBrakeCnt' = 0 /\ srvOffToBrakeCnt' = 0
  /\ UNCHANGED holdBraekCnt
ClearDelays ==
  /\ srvOnToLooseCnt' = 0 /\ looseBrakeCnt' = 0
  /\ srvOffToBrakeCnt' = 0 /\ holdBraekCnt' = 0

\* Bus lost: brake at once.  The regulator flags are left as they are.
BrakeDcLost ==
  /\ readyDC = 1
  /\ brakeStatus' = "BRAKE" /\ HoldBrake /\ ClearDelays
  /\ gate' = 0 /\ srvOnStatus' = 0
  /\ UNCHANGED <<regVars, offZSpdStopFlg>>

\* SM_BRAKESTATUS_BRAKE with the command present: enable, then wait to release.
BrakedOn ==
  /\ readyDC = 0 /\ brakeStatus = "BRAKE" /\ srvOnIn = 1
  /\ srvOnStatus' = 1
  /\ IF Expired(srvOnToLooseCnt, SrvOnBrkDly)
     THEN srvOnToLooseCnt' = 0 /\ brakeStatus' = "2LOOSE"
     ELSE srvOnToLooseCnt' = srvOnToLooseCnt + 1 /\ brakeStatus' = "BRAKE"
  /\ UNCHANGED <<looseBrakeCnt, srvOffToBrakeCnt, holdBraekCnt, regVars,
                 offZSpdStopFlg, gate, brakeOut, brakeLogic>>

\* SM_BRAKESTATUS_BRAKE without it: close the regulators if they are open.
BrakedOff ==
  /\ readyDC = 0 /\ brakeStatus = "BRAKE" /\ srvOnIn = 0
  /\ srvOnStatus' = 0
  /\ IF regulFlg = 1
     THEN CloseRegulators /\ offZSpdStopFlg' = 0
     ELSE UNCHANGED <<gate, regVars, offZSpdStopFlg>>
  /\ holdBraekCnt' = 0 /\ srvOnToLooseCnt' = 0
  /\ UNCHANGED <<brakeStatus, looseBrakeCnt, srvOffToBrakeCnt, brakeOut, brakeLogic>>

\* SM_BRAKESTATUS_2LOOSE: release the brake; the delay is tested before the
\* command, so the tick that ends the delay ignores a withdrawn command.
Loosening ==
  /\ readyDC = 0 /\ brakeStatus = "2LOOSE"
  /\ brakeOut' = "LOOSE"
  /\ IF Expired(looseBrakeCnt, LooseBrakeDelay)
     THEN /\ looseBrakeCnt' = 0 /\ brakeStatus' = "LOOSE"
          /\ srvOnStatus' = srvOnStatus
     ELSE IF srvOnIn = 0
     THEN looseBrakeCnt' = 0 /\ brakeStatus' = "2BRAKE" /\ srvOnStatus' = 0
     ELSE /\ looseBrakeCnt' = looseBrakeCnt + 1
          /\ UNCHANGED <<brakeStatus, srvOnStatus>>
  /\ UNCHANGED <<srvOnToLooseCnt, srvOffToBrakeCnt, holdBraekCnt, regVars,
                 offZSpdStopFlg, gate, brakeLogic>>

\* A zero-speed stop waits for zero speed, a free stop for the delay P1-57 or
\* the speed P1-56.
BrakeDueBySpeed ==
  IF offZSpdStopFlg > 0 THEN speed < StopSpeed ELSE speed <= SrvOffToBrakeSpd
BrakeDue ==
  IF offZSpdStopFlg > 0 THEN speed < StopSpeed
  ELSE Expired(srvOffToBrakeCnt, SrvOffToBrakeDealy) \/ speed <= SrvOffToBrakeSpd

\* The drive was off in the last tick; line 368 keeps an earlier test of this one.
DriveIsOff == srvOnIn = 0 \/ srvOnStatus = 0
DriveWasOff == srvOnStatusOld = 0

\* SM_BRAKESTATUS_LOOSE: once the drive has been off for a tick, close the brake
\* when it is due, even if the command is back.
Loosened ==
  /\ readyDC = 0 /\ brakeStatus = "LOOSE"
  /\ IF DriveWasOff /\ BrakeDue
     THEN srvOffToBrakeCnt' = 0 /\ brakeStatus' = "2BRAKE"
     ELSE /\ srvOffToBrakeCnt' = IF DriveWasOff /\ offZSpdStopFlg = 0
                                 THEN srvOffToBrakeCnt + 1 ELSE srvOffToBrakeCnt
          /\ UNCHANGED brakeStatus
  /\ srvOnStatus' = srvOnIn
  /\ UNCHANGED <<srvOnToLooseCnt, looseBrakeCnt, holdBraekCnt, regVars,
                 offZSpdStopFlg, gate, brakeOut, brakeLogic>>

\* SM_BRAKESTATUS_2BRAKE: hold, and when the brake has closed (or a fault is
\* displayed) block the gates and close the regulators.
Braking ==
  /\ readyDC = 0 /\ brakeStatus = "2BRAKE"
  /\ HoldBrake
  /\ IF Expired(holdBraekCnt, HoldBraekDelay) \/ errDoFlg = 1
     THEN /\ CloseRegulators
          /\ offZSpdStopFlg' = 0 /\ holdBraekCnt' = 0 /\ brakeStatus' = "BRAKE"
     ELSE /\ holdBraekCnt' = holdBraekCnt + 1
          /\ UNCHANGED <<gate, regVars, offZSpdStopFlg, brakeStatus>>
  /\ UNCHANGED <<srvOnStatus, srvOnToLooseCnt, looseBrakeCnt, srvOffToBrakeCnt>>

SrvBrakeCloseDeal ==
  /\ pc = "brake"
  /\ BrakeDcLost \/ BrakedOn \/ BrakedOff \/ Loosening \/ Loosened \/ Braking
  /\ pinBy' = CASE brakeOut' = "LOOSE" -> "output"
              [] brakeOut' = "HOLD" /\ brakeLogic' = 1 -> "panel"
              [] OTHER -> "none"
  /\ pc' = "pins"
  /\ UNCHANGED <<smVars, srvOnStatusOld, chargeVars, brakePin, brakeChangePowerCnt,
                 faultVars, dcLost, mainVars>>

\* The tail of SM_SrvBrakeCloseDeal: drive the two supply pins as decided, even
\* if a fault has taken the output away in between.
PinDrive ==
  /\ pc = "pins" /\ pc' = "status"
  /\ IF pinBy # "none"
     THEN IF brakeChangePowerCnt + 1 < Brake48V_Delay
          THEN brakePin' = "pull" /\ brakeChangePowerCnt' = brakeChangePowerCnt + 1
          ELSE brakePin' = "keep" /\ brakeChangePowerCnt' = Brake48V_Delay + 1
     ELSE brakePin' = "low" /\ brakeChangePowerCnt' = 0
  /\ UNCHANGED <<smVars, onVars, chargeVars, brakeStatus, cntVars, regVars,
                 offZSpdStopFlg, gate, brakeOut, brakeLogic, pinBy, faultVars, dcLost, mainVars>>

(* -- SM_SrvStatusDeal ---------------------------------------------------- *)

\* SM_StopModeDeal: 0 is a free stop, 1 a zero-speed stop.
StopModeDeal ==
  IF readyERR = 1
  THEN IF Level1 THEN 0 ELSE ErrStopMode
  ELSE StopMode

RisingEdge  == srvOnStatusOld = 0 /\ srvOnStatus = 1
FallingEdge == srvOnStatusOld = 1 /\ srvOnStatus = 0

\* OFF -> ON: open the gates and start the bootstrap charge.
StartCharge ==
  /\ RisingEdge
  /\ gate' = 1 /\ injectStep' = 1
  /\ UNCHANGED <<chargeTimer, regVars, offZSpdStopFlg>>

ChargeFirst ==
  /\ ~RisingEdge /\ srvOnStatus = 1 /\ injectStep = 1
  /\ IF Expired(chargeTimer, ChargeStep1)
     THEN injectStep' = 2 /\ chargeTimer' = 0
     ELSE injectStep' = 1 /\ chargeTimer' = chargeTimer + 1
  /\ UNCHANGED <<gate, regVars, offZSpdStopFlg>>

\* The charge is complete: ask the main loop to open the regulators.
ChargeSecond ==
  /\ ~RisingEdge /\ srvOnStatus = 1 /\ injectStep = 2
  /\ IF Expired(chargeTimer, SrvOnBrkDly)
     THEN regilFlgISR' = 1 /\ injectStep' = 0 /\ chargeTimer' = 0
     ELSE /\ chargeTimer' = chargeTimer + 1
          /\ UNCHANGED <<regilFlgISR, injectStep>>
  /\ UNCHANGED <<gate, regulFlg, offZSpdStopFlg>>

\* Steady states: nothing but S_RUN, PWMOUT and HaltStopFlg, which no modelled
\* step reads.
SteadyStatus ==
  /\ ~RisingEdge /\ ~FallingEdge
  /\ srvOnStatus = 1 => injectStep = 0
  /\ UNCHANGED <<chargeVars, gate, regVars, offZSpdStopFlg>>

ClearChargeStep == injectStep' = 0 /\ UNCHANGED chargeTimer
ClearCharge == injectStep' = 0 /\ chargeTimer' = 0

\* ON -> OFF with the stop mode m of the command source: a free stop blocks the
\* gates only above STOPSPEED, a zero-speed stop leaves the regulators running.
StopServo(m) ==
  /\ FallingEdge
  /\ IF m = 0 /\ speed > StopSpeed
     THEN CloseRegulators
     ELSE UNCHANGED <<gate, regVars>>
  /\ offZSpdStopFlg' = m
  /\ ClearCharge

SrvStatusDeal ==
  /\ pc = "status"
  /\ StartCharge \/ ChargeFirst \/ ChargeSecond \/ SteadyStatus \/ StopServo(StopModeDeal)
  /\ srvOnStatusOld' = srvOnStatus /\ speed' = 0
  /\ pc' = "protect"
  /\ UNCHANGED <<powerUpDly, readyERR, readyDC, srvOnIn, offTicks, faultTicks, srvOnStatus, brakeStatus, cntVars, brakeVars,
                 supplyVars, faultVars, dcLost, mainVars>>

(* -- The rest of the tick ------------------------------------------------ *)

\* UdcCtrl_Schedule and the 1 ms protections: the bus may be lost or return,
\* and any unmasked fault may be raised.
Protect ==
  /\ pc = "protect" /\ pc' = "sched"
  /\ dcLost' \in Flag
  /\ \/ \E f \in Faults : Raise(f)
     \/ UNCHANGED <<errCode, gate, regVars, brakeVars>>
  /\ UNCHANGED <<smVars, onVars, chargeVars, brakeStatus, cntVars,
                 offZSpdStopFlg, supplyVars, errDoFlg, mainVars>>

\* FaultPrtt_Schedule: publish the error output, then test for a reset request.
FaultSchedule ==
  /\ pc = "sched"
  /\ errDoFlg' = IF errCode = NoFault THEN 0 ELSE 1
  /\ \/ pc' = "idle"
     \/ errCode # NoFault /\ errCode.reset = 1 /\ pc' = "reset"
  /\ UNCHANGED <<smVars, onVars, chargeVars, brakeStatus, cntVars, regVars,
                 offZSpdStopFlg, gate, brakeVars, supplyVars, errCode,
                 dcLost, mainVars>>

\* The granted reset clears the latch, whatever it holds by now.
FaultReset ==
  /\ pc = "reset" /\ pc' = "idle"
  /\ errCode' = NoFault
  /\ UNCHANGED <<smVars, onVars, chargeVars, brakeStatus, cntVars, regVars,
                 offZSpdStopFlg, gate, brakeVars, supplyVars, errDoFlg,
                 dcLost, mainVars>>

(* -- Main loop and panel ------------------------------------------------- *)

\* StateMachine.RegulFlg = StateMachine.RegilFlgISR, as a load and a store.
MainLoad ==
  /\ pc = "idle" /\ mainPc = "body"
  /\ mainPc' = "store" /\ mainVal' = regilFlgISR
  /\ UNCHANGED <<pc, smVars, onVars, chargeVars, brakeStatus, cntVars, regVars,
                 offZSpdStopFlg, gate, brakeVars, supplyVars, faultVars, dcLost>>

MainStore ==
  /\ pc = "idle" /\ mainPc = "store"
  /\ regulFlg' = mainVal
  /\ mainPc' = "body" /\ mainVal' = 0
  /\ UNCHANGED <<pc, smVars, onVars, chargeVars, brakeStatus, cntVars, regilFlgISR,
                 offZSpdStopFlg, gate, brakeVars, supplyVars, faultVars, dcLost>>

\* The operator forces the brake open (or stops forcing it) from the panel.
PanelBrake ==
  /\ ManualBrake = 1 /\ pc = "idle"
  /\ brakeLogic' = 1 - brakeLogic
  /\ UNCHANGED <<pc, smVars, onVars, chargeVars, brakeStatus, cntVars, regVars,
                 offZSpdStopFlg, gate, brakeOut, brakePin, supplyVars, faultVars,
                 dcLost, mainVars>>

Tick ==
  \/ PowerUpWait
  \/ \E c \in Flag, spd \in 0 .. MaxSpeed : ReadyJudge(c, spd)
  \/ SrvBrakeCloseDeal
  \/ PinDrive
  \/ SrvStatusDeal
  \/ Protect
  \/ FaultSchedule
  \/ FaultReset

MainLoop == MainLoad \/ MainStore

Next == Tick \/ MainLoop \/ PwmFault \/ PanelBrake

Spec == Init /\ [][Next]_vars

\* The 1 ms timer keeps firing and each tick runs to its end; the main loop
\* comes round again between ticks.
LiveSpec == Spec /\ WF_vars(Tick) /\ SF_vars(MainLoop)

(* -- Properties ---------------------------------------------------------- *)

BrakeStates == {"BRAKE", "2LOOSE", "LOOSE", "2BRAKE"}

\* Every variable stays in its range; the brake and charge counters never pass
\* the limits the tests `++cnt > limit` give them.
TypeOK ==
  /\ pc \in {"idle", "brake", "pins", "status", "protect", "sched", "reset"}
  /\ powerUpDly \in 0 .. PowerUpDelay
  /\ readyERR \in Flag /\ readyDC \in Flag /\ srvOnIn \in Flag
  /\ speed \in 0 .. MaxSpeed /\ offTicks \in 0 .. StopBound
  /\ faultTicks \in 0 .. FaultBound
  /\ srvOnStatus \in Flag /\ srvOnStatusOld \in Flag
  /\ injectStep \in 0 .. 2 /\ chargeTimer \in Nat
  /\ chargeTimer <= ChargeStep1 \/ chargeTimer <= SrvOnBrkDly
  /\ brakeStatus \in BrakeStates
  /\ srvOnToLooseCnt \in 0 .. SrvOnBrkDly
  /\ looseBrakeCnt \in 0 .. LooseBrakeDelay
  /\ srvOffToBrakeCnt \in 0 .. SrvOffToBrakeDealy
  /\ holdBraekCnt \in 0 .. HoldBraekDelay
  /\ regulFlg \in Flag /\ regilFlgISR \in Flag
  /\ offZSpdStopFlg \in Flag /\ gate \in Flag
  /\ brakeOut \in {"HOLD", "LOOSE"} /\ brakeLogic \in Flag
  /\ brakePin \in {"low", "pull", "keep"} /\ pinBy \in {"none", "output", "panel"}
  /\ brakeChangePowerCnt \in 0 .. Brake48V_Delay + 1
  /\ errCode \in Faults \cup {NoFault} /\ errDoFlg \in Flag
  /\ dcLost \in Flag
  /\ mainPc \in {"body", "store"} /\ mainVal \in Flag

\* SM_BRAKESTATUS_BRAKE means a closed brake, on every path into the state
\* (bus loss, command withdrawn, fault) and through every later preemption.
BrakeHeld == brakeStatus = "BRAKE" => brakeOut = "HOLD"

\* A bootstrap charge is only ever in progress while the drive is on: no toggle
\* of the command, fault or bus loss leaves a half-counted charge behind for the
\* next start to inherit.
NoStaleCharge ==
  pc = "idle" =>
    /\ srvOnStatusOld = srvOnStatus
    /\ srvOnStatus = 0 => injectStep = 0 /\ chargeTimer = 0

\* A withdrawn command (operator, fault or bus) closes the brake within the free
\* stop's delays, whatever the motor does, unless a zero-speed stop is braking.
StopBounded ==
  pc = "idle" /\ offTicks >= StopBound /\ offZSpdStopFlg = 0
    => brakeStatus = "BRAKE" /\ brakeOut = "HOLD" /\ srvOnStatus = 0

\* A latched level-1 fault is final: within the stop delays the brake is closed with its
\* supply low (unless the panel forces it) and no torque is commanded, on every
\* interleaving of the fault with a start, a brake release, a reset or the main loop.
FaultShutsDown ==
  pc = "idle" /\ Level1 /\ faultTicks >= FaultBound
    => /\ brakeOut = "HOLD"
       /\ brakePin = "low" \/ pinBy = "panel"
       /\ gate = 0 \/ regilFlgISR = 0

\* Each brake delay is counted only in the brake state it belongs to, so a state
\* is always entered with its delay at zero, whichever way it was left before.
CountersRunInState ==
  /\ brakeStatus # "BRAKE" => srvOnToLooseCnt = 0
  /\ brakeStatus # "2LOOSE" => looseBrakeCnt = 0
  /\ brakeStatus # "LOOSE" => srvOffToBrakeCnt = 0
  /\ brakeStatus # "2BRAKE" => holdBraekCnt = 0

\* Whatever the delays, the speed, the faults and the preemptions, the state machine
\* is the drive cycle that the field-bus axis (RemoteAxis) relies on.
Cycle == INSTANCE DriveCycle
CycleSpec == Cycle!Spec

\* Once the command stays away, the motor stays slow and the bus stays up, the
\* drive ends braked with both regulator flags off, although the main loop copies
\* the flag the tick clears.
StopCompletes ==
  <>[](srvOnIn = 0 /\ readyDC = 0 /\ speed < StopSpeed /\ speed <= SrvOffToBrakeSpd)
    => <>[](brakeStatus = "BRAKE" /\ regulFlg = 0 /\ regilFlgISR = 0)

(* -- What the comments and documents of the repository claim -------------- *)

\* SV_StateMachine.c:490: the bootstrap charge runs with the gates on.
ChargesWithGates == pc = "idle" /\ injectStep # 0 => gate = 1
=============================================================================
