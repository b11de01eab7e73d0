------------------------- MODULE ServoEnableProofs -------------------------
(***************************************************************************)
(* Proofs about ServoEnable for every value of the delays, stop modes and  *)
(* faults: the type invariant, then the inductive invariant IInv, which    *)
(* adds to the stated properties what each pc position guarantees, the     *)
(* refinement of DriveCycle, and the clock by which every stop runs down.  *)
(***************************************************************************)
EXTENDS ServoEnable, TLAPS

\* Every step of the specification keeps every variable, counters included,
\* within its range (StateMachine_Process, FaultPrtt_FaultInterface, main).
THEOREM TypeCorrect == Spec => []TypeOK
<1> USE TimesAreNat, ModesAreFlags DEF Flag, StopBound, FaultBound, BrakeStates
<1>1. Init => TypeOK
  BY DEF Init, TypeOK
<1>2. TypeOK /\ [Next]_vars => TypeOK'
  <2> SUFFICES ASSUME TypeOK, [Next]_vars PROVE TypeOK'
    OBVIOUS
  <2> USE DEF smVars, onVars, chargeVars, cntVars, regVars, brakeVars, supplyVars,
              faultVars, mainVars
  <2>1. CASE PowerUpWait
    BY <2>1 DEF TypeOK, PowerUpWait
  <2>2. ASSUME NEW c \in Flag, NEW spd \in 0 .. MaxSpeed, ReadyJudge(c, spd)
        PROVE TypeOK'
    BY <2>2 DEF TypeOK, ReadyJudge
  <2>3. CASE SrvBrakeCloseDeal
    <3> USE <2>3 DEF SrvBrakeCloseDeal, HoldBrake, Expired, CloseRegulators
    <3>1. CASE BrakeDcLost
      BY <3>1 DEF TypeOK, BrakeDcLost, ClearDelays
    <3>2. CASE BrakedOn
      BY <3>2 DEF TypeOK, BrakedOn
    <3>3. CASE BrakedOff
      BY <3>3 DEF TypeOK, BrakedOff
    <3>4. CASE Loosening
      BY <3>4 DEF TypeOK, Loosening
    <3>5. CASE Loosened
      BY <3>5 DEF TypeOK, Loosened, DriveWasOff, BrakeDue
    <3>6. CASE Braking
      BY <3>6 DEF TypeOK, Braking
    <3> QED
      BY <3>1, <3>2, <3>3, <3>4, <3>5, <3>6
  <2>4. CASE PinDrive
    BY <2>4 DEF TypeOK, PinDrive
  <2>5. CASE SrvStatusDeal
    <3> USE <2>5 DEF SrvStatusDeal, Expired, CloseRegulators, ClearCharge
    <3>1. CASE StartCharge
      BY <3>1 DEF TypeOK, StartCharge
    <3>2. CASE ChargeFirst
      BY <3>2 DEF TypeOK, ChargeFirst
    <3>3. CASE ChargeSecond
      BY <3>3 DEF TypeOK, ChargeSecond
    <3>4. CASE SteadyStatus
      BY <3>4 DEF TypeOK, SteadyStatus
    <3>5. CASE StopServo(StopModeDeal)
      BY <3>5 DEF TypeOK, StopServo, StopModeDeal
    <3> QED
      BY <3>1, <3>2, <3>3, <3>4, <3>5
  <2>6. CASE Protect
    BY <2>6 DEF TypeOK, Protect, Raise, Level1Cut, HoldBrake, CloseRegulators
  <2>7. CASE FaultSchedule
    BY <2>7 DEF TypeOK, FaultSchedule
  <2>8. CASE FaultReset
    BY <2>8 DEF TypeOK, FaultReset
  <2>9. CASE MainLoad
    BY <2>9 DEF TypeOK, MainLoad
  <2>10. CASE MainStore
    BY <2>10 DEF TypeOK, MainStore
  <2>11. CASE PwmFault
    BY <2>11 DEF TypeOK, PwmFault, Raise, Level1Cut, HoldBrake, CloseRegulators
  <2>12. CASE PanelBrake
    BY <2>12 DEF TypeOK, PanelBrake
  <2>13. CASE UNCHANGED vars
    BY <2>13 DEF TypeOK, vars
  <2> QED
    BY <2>1, <2>2, <2>3, <2>4, <2>5, <2>6, <2>7, <2>8, <2>9, <2>10, <2>11, <2>12, <2>13
    DEF Next, Tick, MainLoop
<1> QED
  BY <1>1, <1>2, PTL DEF Spec

(* -- The inductive invariant --------------------------------------------- *)

\* The off -> on and on -> off edges are seen exactly once per tick, and a
\* charge exists only while the drive was on.
ChargeInv ==
  /\ pc \notin {"pins", "status"} => srvOnStatusOld = srvOnStatus
  /\ srvOnStatusOld = 0 => injectStep = 0 /\ chargeTimer = 0

\* Off ticks whose brake step is over: offTicks runs ahead of it at "brake".
OffDone == IF pc = "brake" /\ offTicks > 0 THEN offTicks - 1 ELSE offTicks

\* The stop in force, or decided by this tick's falling edge, is a free stop.
FreeStop == offZSpdStopFlg = 0 \/ FallingEdge

\* How long the command can have been away in each brake state: the ranking
\* argument behind StopBounded.
StopInv ==
  /\ srvOnIn = 1 => offTicks = 0
  /\ brakeStatus = "2LOOSE" => OffDone = 0
  /\ brakeStatus = "LOOSE" /\ srvOnStatus = 1 => OffDone <= 1
  /\ brakeStatus = "LOOSE" /\ srvOnStatus = 0 /\ FreeStop
       => OffDone <= srvOffToBrakeCnt + 2
  /\ brakeStatus = "2BRAKE" /\ (FreeStop \/ srvOnStatus = 1)
       => OffDone <= holdBraekCnt + SrvOffToBrakeDealy + 3
  /\ brakeStatus = "BRAKE" /\ srvOnStatus = 1
       => OffDone <= SrvOffToBrakeDealy + HoldBraekDelay + 4

IInv == BrakeHeld /\ CountersRunInState /\ ChargeInv /\ StopInv

LEMMA InitIInv == Init => IInv
  BY TimesAreNat DEF Init, IInv, BrakeHeld, CountersRunInState, ChargeInv, StopInv,
     OffDone, FreeStop, FallingEdge

\* One tick, main-loop step, fault or panel action preserves the invariant.
LEMMA StepIInv ==
  ASSUME TypeOK, IInv, [Next]_vars
  PROVE  IInv'
<1> USE TimesAreNat, ModesAreFlags DEF Flag, StopBound, BrakeStates, IInv, BrakeHeld,
      CountersRunInState, ChargeInv, OffDone, FreeStop, FallingEdge, smVars,
      onVars, chargeVars, cntVars, regVars, brakeVars, supplyVars, faultVars, mainVars
<1>1. CASE PowerUpWait
  BY <1>1 DEF TypeOK, StopInv, PowerUpWait
<1>2. ASSUME NEW c \in Flag, NEW spd \in 0 .. MaxSpeed, ReadyJudge(c, spd)
      PROVE IInv'
  BY <1>2 DEF TypeOK, StopInv, ReadyJudge
<1>3. CASE SrvBrakeCloseDeal
  <2> USE <1>3 DEF SrvBrakeCloseDeal, HoldBrake, Expired, CloseRegulators, TypeOK, StopInv
  <2>1. CASE BrakeDcLost
    BY <2>1 DEF BrakeDcLost, ClearDelays
  <2>2. CASE BrakedOn
    BY <2>2 DEF BrakedOn
  <2>3. CASE BrakedOff
    BY <2>3 DEF BrakedOff
  <2>4. CASE Loosening
    BY <2>4 DEF Loosening
  <2>5. CASE Loosened
    BY <2>5 DEF Loosened, DriveWasOff, BrakeDue
  <2>6. CASE Braking
    BY <2>6 DEF Braking
  <2> QED
    BY <2>1, <2>2, <2>3, <2>4, <2>5, <2>6
<1>4. CASE PinDrive
  BY <1>4 DEF TypeOK, StopInv, PinDrive
<1>5. CASE SrvStatusDeal
  <2> USE <1>5 DEF SrvStatusDeal, Expired, CloseRegulators, ClearCharge, TypeOK, StopInv
  <2>1. CASE StartCharge
    BY <2>1 DEF StartCharge, RisingEdge
  <2>2. CASE ChargeFirst
    BY <2>2 DEF ChargeFirst, RisingEdge
  <2>3. CASE ChargeSecond
    BY <2>3 DEF ChargeSecond, RisingEdge
  <2>4. CASE SteadyStatus
    BY <2>4 DEF SteadyStatus, RisingEdge
  <2>5. CASE StopServo(StopModeDeal)
    BY <2>5 DEF StopServo, StopModeDeal
  <2> QED
    BY <2>1, <2>2, <2>3, <2>4, <2>5
<1>6. CASE Protect
  BY <1>6 DEF TypeOK, StopInv, Protect, Raise, Level1Cut, HoldBrake, CloseRegulators
<1>7. CASE FaultSchedule
  BY <1>7 DEF TypeOK, StopInv, FaultSchedule
<1>8. CASE FaultReset
  BY <1>8 DEF TypeOK, StopInv, FaultReset
<1>9. CASE MainLoad
  BY <1>9 DEF TypeOK, StopInv, MainLoad
<1>10. CASE MainStore
  BY <1>10 DEF TypeOK, StopInv, MainStore
<1>11. CASE PwmFault
  BY <1>11 DEF TypeOK, StopInv, PwmFault, Raise, Level1Cut, HoldBrake, CloseRegulators
<1>12. CASE PanelBrake
  BY <1>12 DEF TypeOK, StopInv, PanelBrake
<1>13. CASE UNCHANGED vars
  BY <1>13 DEF TypeOK, StopInv, vars
<1> QED
  BY <1>1, <1>2, <1>3, <1>4, <1>5, <1>6, <1>7, <1>8, <1>9, <1>10, <1>11, <1>12, <1>13
  DEF Next, Tick, MainLoop

\* The invariant holds in every reachable state, for all delays.
THEOREM Invariance == Spec => []IInv
<1>1. Init => IInv
  BY InitIInv
<1>2. TypeOK /\ IInv /\ [Next]_vars => IInv'
  BY StepIInv
<1> QED
  BY <1>1, <1>2, TypeCorrect, PTL DEF Spec

\* SM_BRAKESTATUS_BRAKE always means a closed brake output.
THEOREM BrakeIsHeld == Spec => []BrakeHeld
<1>1. IInv => BrakeHeld
  BY DEF IInv
<1> QED
  BY <1>1, Invariance, PTL

\* A brake delay is only counted in its own brake state.
THEOREM DelaysAreFresh == Spec => []CountersRunInState
<1>1. IInv => CountersRunInState
  BY DEF IInv
<1> QED
  BY <1>1, Invariance, PTL

\* No bootstrap charge survives the command that started it.
THEOREM ChargeIsFresh == Spec => []NoStaleCharge
<1>1. IInv => NoStaleCharge
  BY DEF IInv, ChargeInv, NoStaleCharge
<1> QED
  BY <1>1, Invariance, PTL

\* A withdrawn command closes the brake within P1-57 + P1-55 + 5 ticks in a free
\* stop, for all delays, speeds, faults and interleavings.
THEOREM StopIsBounded == Spec => []StopBounded
<1>1. TypeOK /\ IInv => StopBounded
  BY TimesAreNat DEF IInv, BrakeHeld, ChargeInv, CountersRunInState, StopInv,
     StopBounded, OffDone, FreeStop, FallingEdge, TypeOK, Flag, StopBound, BrakeStates
<1> QED
  BY <1>1, Invariance, TypeCorrect, PTL

(* -- A level-1 fault is final --------------------------------------------- *)

\* Fault ticks whose brake step is over, as OffDone for the command.
FaultDone == IF pc = "brake" /\ faultTicks > 0 THEN faultTicks - 1 ELSE faultTicks

\* A level-1 fault is latched, or was when this tick began.
Cut == Level1 \/ faultTicks > 0
Deciding == pc \in {"brake", "pins", "status"}

\* A tick begun under the fault has no command and keeps the fault to its end.
FaultSeen ==
  /\ faultTicks <= offTicks
  /\ faultTicks > 0 => readyERR = 1 /\ srvOnIn = 0
  /\ faultTicks > 0 /\ Deciding => Level1
  /\ pc \in {"pins", "status"} /\ RisingEdge => srvOnIn = 1
  /\ brakeStatus = "2LOOSE" => srvOnStatus = 1

\* The brake: what FP_ERRDEAL closed in mid-tick stays closed unless the state is
\* 2LOOSE, and a brake still open belongs to a free stop that is running out.
FaultBrake ==
  /\ Level1 /\ faultTicks = 0 /\ pc = "brake" => brakeOut = "HOLD"
  /\ Cut /\ brakeStatus = "LOOSE" /\ srvOnStatus = 0 /\ brakeOut = "LOOSE"
       => IF FallingEdge THEN faultTicks > 0 ELSE offZSpdStopFlg = 0
  /\ brakeOut = "LOOSE" => FaultDone <= SrvOffToBrakeDealy + 3
  /\ pinBy = "output" => FaultDone <= SrvOffToBrakeDealy + 3
  /\ pc # "pins" /\ brakePin # "low" => pinBy # "none"

\* The torque: the gates a start opens after the cut close, or the drive is off,
\* before the charge can ask for the regulators.
FaultTorque ==
  /\ Level1 /\ faultTicks = 0 /\ Deciding => gate = 0 /\ regilFlgISR = 0
  /\ Cut => gate = 0 \/ regilFlgISR = 0
  /\ Cut /\ gate = 1 /\ srvOnStatus = 1 =>
       /\ FaultDone = 0 \/ (FaultDone = 1 /\ brakeStatus = "LOOSE")
       /\ injectStep <= 1 \/ (FaultDone = 1 /\ pc \notin {"pins", "status"})
       /\ Level1 /\ pc \in {"idle", "brake"} => errDoFlg = 1

FaultInv == FaultSeen /\ FaultBrake /\ FaultTorque

LEMMA InitFaultInv == Init => FaultInv
  BY TimesAreNat DEF Init, FaultInv, FaultSeen, FaultBrake, FaultTorque, FaultDone, Cut,
     Level1, Deciding, RisingEdge, FallingEdge

\* One tick, main-loop step, fault or panel action preserves it.
LEMMA StepFaultInv ==
  ASSUME TypeOK, IInv, FaultInv, [Next]_vars
  PROVE  FaultInv'
<1> USE TimesAreNat, ModesAreFlags, FaultsAreCodes DEF Flag, StopBound, FaultBound, BrakeStates,
      IInv, BrakeHeld, CountersRunInState, ChargeInv, StopInv, OffDone, FreeStop, FallingEdge,
      RisingEdge, FaultInv, FaultSeen, FaultBrake, FaultTorque, FaultDone, Cut, Level1, Deciding,
      TypeOK, smVars, onVars, chargeVars, cntVars, regVars, brakeVars, supplyVars, faultVars,
      mainVars
<1>1. CASE PowerUpWait
  BY <1>1 DEF PowerUpWait
<1>2. ASSUME NEW c \in Flag, NEW spd \in 0 .. MaxSpeed, ReadyJudge(c, spd)
      PROVE FaultInv'
  BY <1>2 DEF ReadyJudge
<1>3. CASE SrvBrakeCloseDeal
  <2> USE <1>3 DEF SrvBrakeCloseDeal, HoldBrake, Expired, CloseRegulators
  <2>1. CASE BrakeDcLost
    BY <2>1 DEF BrakeDcLost, ClearDelays
  <2>2. CASE BrakedOn
    BY <2>2 DEF BrakedOn
  <2>3. CASE BrakedOff
    BY <2>3 DEF BrakedOff
  <2>4. CASE Loosening
    BY <2>4 DEF Loosening
  <2>5. CASE Loosened
    BY <2>5 DEF Loosened, DriveWasOff, BrakeDue
  <2>6. CASE Braking
    BY <2>6 DEF Braking
  <2> QED
    BY <2>1, <2>2, <2>3, <2>4, <2>5, <2>6
<1>4. CASE PinDrive
  BY <1>4 DEF PinDrive
<1>5. CASE SrvStatusDeal
  <2> USE <1>5 DEF SrvStatusDeal, Expired, CloseRegulators, ClearCharge
  <2>1. CASE StartCharge
    BY <2>1 DEF StartCharge
  <2>2. CASE ChargeFirst
    BY <2>2 DEF ChargeFirst
  <2>3. CASE ChargeSecond
    BY <2>3 DEF ChargeSecond
  <2>4. CASE SteadyStatus
    BY <2>4 DEF SteadyStatus
  <2>5. CASE StopServo(StopModeDeal)
    BY <2>5 DEF StopServo, StopModeDeal
  <2> QED
    BY <2>1, <2>2, <2>3, <2>4, <2>5
<1>6. CASE Protect
  BY <1>6 DEF Protect, Raise, Outranks, Level1Cut, HoldBrake, CloseRegulators
<1>7. CASE FaultSchedule
  <2>1. Level1 => errDoFlg' = 1
    BY <1>7 DEF FaultSchedule
  <2>2. pc' \in {"idle", "reset"} /\ UNCHANGED errCode
    BY <1>7 DEF FaultSchedule
  <2> QED
    BY <1>7, <2>1, <2>2 DEF FaultSchedule
<1>8. CASE FaultReset
  <2>1. ~Level1'
    BY <1>8 DEF FaultReset
  <2>2. pc' = "idle"
    BY <1>8 DEF FaultReset
  <2> QED
    BY <1>8, <2>1, <2>2 DEF FaultReset
<1>9. CASE MainLoop
  BY <1>9 DEF MainLoop, MainLoad, MainStore
<1>10. CASE PwmFault
  BY <1>10 DEF PwmFault, Raise, Outranks, Level1Cut, HoldBrake, CloseRegulators
<1>11. CASE PanelBrake
  BY <1>11 DEF PanelBrake
<1>12. CASE UNCHANGED vars
  BY <1>12 DEF vars
<1> QED
  BY <1>1, <1>2, <1>3, <1>4, <1>5, <1>6, <1>7, <1>8, <1>9, <1>10, <1>11, <1>12 DEF Next, Tick

\* A level-1 fault ends within P1-57 + 4 ticks in a closed brake without supply and a
\* drive without torque, for all delays, stop modes, faults and interleavings.
THEOREM FaultIsFinal == Spec => []FaultShutsDown
<1>1. Init => FaultInv
  BY InitFaultInv
<1>2. TypeOK /\ IInv /\ FaultInv /\ [Next]_vars => FaultInv'
  BY StepFaultInv
<1>3. TypeOK /\ FaultInv => FaultShutsDown
  BY TimesAreNat DEF FaultInv, FaultBrake, FaultTorque, FaultDone, Cut, FaultShutsDown,
     FaultBound, TypeOK, Flag
<1> QED
  BY <1>1, <1>2, <1>3, TypeCorrect, Invariance, PTL DEF Spec

(* -- The state machine implements the drive cycle ------------------------- *)

\* Every step of the firmware is a sampling of command and bus, one step of the
\* abstract brake cycle, or leaves drive and brake as they are.
LEMMA StepCycle ==
  ASSUME TypeOK, IInv, [Next]_vars
  PROVE  [Cycle!Sample \/ Cycle!Step]_Cycle!vars
<1> USE DEF Flag, Cycle!vars, smVars, onVars, chargeVars, cntVars, regVars, brakeVars,
            supplyVars, faultVars, mainVars
<1>1. CASE PowerUpWait
  BY <1>1 DEF PowerUpWait
<1>2. ASSUME NEW c \in Flag, NEW spd \in 0 .. MaxSpeed, ReadyJudge(c, spd)
      PROVE Cycle!Sample
  BY <1>2 DEF TypeOK, ReadyJudge, Cycle!Sample
<1>3. CASE SrvBrakeCloseDeal
  <2> USE <1>3 DEF SrvBrakeCloseDeal, TypeOK, Cycle!Step
  <2>1. CASE BrakeDcLost
    BY <2>1 DEF BrakeDcLost, Cycle!BusLost
  <2>2. CASE BrakedOn
    BY <2>2 DEF BrakedOn, Cycle!Braked
  <2>3. CASE BrakedOff
    BY <2>3 DEF BrakedOff, Cycle!Braked
  <2>4. CASE Loosening
    BY <2>4 DEF Loosening, Cycle!Loosening
  <2>5. CASE Loosened
    BY <2>5 DEF Loosened, DriveWasOff, IInv, ChargeInv, Cycle!Loosened
  <2>6. CASE Braking
    BY <2>6 DEF Braking, Cycle!Braking
  <2> QED
    BY <2>1, <2>2, <2>3, <2>4, <2>5, <2>6
<1>4. CASE PinDrive
  BY <1>4 DEF PinDrive
<1>5. CASE SrvStatusDeal
  BY <1>5 DEF SrvStatusDeal
<1>6. CASE Protect
  BY <1>6 DEF Protect
<1>7. CASE FaultSchedule
  BY <1>7 DEF FaultSchedule
<1>8. CASE FaultReset
  BY <1>8 DEF FaultReset
<1>9. CASE MainLoop
  BY <1>9 DEF MainLoop, MainLoad, MainStore
<1>10. CASE PwmFault
  BY <1>10 DEF PwmFault
<1>11. CASE PanelBrake
  BY <1>11 DEF PanelBrake
<1>12. CASE UNCHANGED vars
  BY <1>12 DEF vars
<1> QED
  BY <1>1, <1>2, <1>3, <1>4, <1>5, <1>6, <1>7, <1>8, <1>9, <1>10, <1>11, <1>12 DEF Next, Tick

\* The drive that RemoteAxis commands (DriveCycle) is the one of SV_StateMachine.c, for
\* all delays, stop modes and faults.
THEOREM ImplementsCycle == Spec => CycleSpec
<1>1. Init => Cycle!Init
  BY DEF Init, Cycle!Init
<1>2. TypeOK /\ IInv /\ [Next]_vars => [Cycle!Sample \/ Cycle!Step]_Cycle!vars
  BY StepCycle
<1> QED
  BY <1>1, <1>2, TypeCorrect, Invariance, PTL DEF Spec, CycleSpec, Cycle!Spec

(* -- A stop comes to its end ------------------------------------------------ *)

\* How many brake steps a stop has left at most.
StopRank ==
  CASE brakeStatus = "2LOOSE" -> HoldBraekDelay + SrvOffToBrakeDealy + 5
    [] brakeStatus = "LOOSE" ->
         HoldBraekDelay + 2 + (SrvOffToBrakeDealy - srvOffToBrakeCnt) + srvOnStatus + srvOnStatusOld
    [] brakeStatus = "2BRAKE" -> HoldBraekDelay + 1 - holdBraekCnt
    [] brakeStatus = "BRAKE" -> 0

\* A zero-speed stop whose motor still turns waits: its only step without a bound.
StillTurning == brakeStatus = "LOOSE" /\ offZSpdStopFlg > 0 /\ speed >= StopSpeed

\* While the command stays away every tick brings the brake closer to closed, in free and in
\* zero-speed stops, and no fault, bus loss, reset, panel action or copy by the main loop
\* sets the stop back (SM_SrvBrakeCloseDeal).
StopClock ==
  [][ srvOnIn = 0 /\ srvOnIn' = 0
      => /\ StopRank' <= StopRank
         /\ SrvBrakeCloseDeal /\ brakeStatus # "BRAKE" /\ ~StillTurning => StopRank' < StopRank ]_vars

\* A drive without a command is not switched on between its brake step and its status step.
StopOn ==
  srvOnIn = 0 /\ pc \in {"pins", "status"} /\ brakeStatus = "LOOSE" => srvOnStatus <= srvOnStatusOld

LEMMA BrakeStepStops ==
  ASSUME TypeOK, IInv, SrvBrakeCloseDeal, srvOnIn = 0
  PROVE  /\ StopRank' <= StopRank
         /\ brakeStatus # "BRAKE" /\ ~StillTurning => StopRank' < StopRank
         /\ StopOn'
<1> USE TimesAreNat
        DEF SrvBrakeCloseDeal, TypeOK, IInv, CountersRunInState, ChargeInv, StopRank, StopOn, StillTurning,
            Flag, BrakeStates, Expired, smVars
<1>1. CASE BrakeDcLost
  BY <1>1 DEF BrakeDcLost, ClearDelays
<1>2. CASE BrakedOn \/ BrakedOff
  BY <1>2 DEF BrakedOn, BrakedOff
<1>3. CASE Loosening
  BY <1>3 DEF Loosening
<1>4. CASE Loosened
  BY <1>4 DEF Loosened, DriveWasOff, BrakeDue
<1>5. CASE Braking
  BY <1>5 DEF Braking
<1> QED
  BY <1>1, <1>2, <1>3, <1>4, <1>5

LEMMA OtherStepsStop ==
  ASSUME TypeOK, StopOn, [Next]_vars, ~SrvBrakeCloseDeal, srvOnIn = 0, srvOnIn' = 0
  PROVE  StopRank' <= StopRank /\ StopOn'
<1> USE TimesAreNat
        DEF TypeOK, StopOn, Flag, smVars, onVars, chargeVars, cntVars, regVars, brakeVars, supplyVars,
            faultVars, mainVars
<1> DEFINE Kept == UNCHANGED <<brakeStatus, srvOnStatus, srvOnStatusOld, srvOffToBrakeCnt, holdBraekCnt>>
<1>1. Kept => StopRank' <= StopRank
  BY DEF StopRank, BrakeStates
<1>2. CASE PowerUpWait
  BY <1>1, <1>2 DEF PowerUpWait
<1>3. ASSUME NEW c \in Flag, NEW spd \in 0 .. MaxSpeed, ReadyJudge(c, spd)
      PROVE  StopRank' <= StopRank /\ StopOn'
  BY <1>1, <1>3 DEF ReadyJudge
<1>4. CASE PinDrive
  BY <1>1, <1>4 DEF PinDrive
<1>5. CASE SrvStatusDeal
  <2>1. /\ UNCHANGED <<brakeStatus, srvOnStatus, srvOffToBrakeCnt, holdBraekCnt>>
        /\ srvOnStatusOld' = srvOnStatus /\ pc' = "protect" /\ pc = "status"
    BY <1>5 DEF SrvStatusDeal
  <2> QED
    BY <2>1 DEF StopRank, BrakeStates
<1>6. CASE Protect \/ FaultSchedule \/ FaultReset
  BY <1>1, <1>6 DEF Protect, FaultSchedule, FaultReset
<1>7. CASE MainLoad \/ MainStore \/ PwmFault \/ PanelBrake \/ UNCHANGED vars
  <2>1. Kept /\ UNCHANGED pc
    BY <1>7 DEF MainLoad, MainStore, PwmFault, PanelBrake, vars
  <2> QED
    BY <1>1, <2>1
<1> QED
  BY <1>2, <1>3, <1>4, <1>5, <1>6, <1>7 DEF Next, Tick, MainLoop

\* A command that comes back makes StopOn void until the next brake step.
LEMMA StepStopOn == TypeOK /\ IInv /\ StopOn /\ [Next]_vars => StopOn'
<1> SUFFICES ASSUME TypeOK, IInv, StopOn, [Next]_vars PROVE StopOn'
  OBVIOUS
<1>1. CASE UNCHANGED srvOnIn
  <2>1. srvOnIn = 0 => StopOn'
    BY <1>1, BrakeStepStops, OtherStepsStop
  <2> QED
    BY <1>1, <2>1 DEF StopOn
<1>2. CASE srvOnIn' # srvOnIn
  <2>1. PICK c \in Flag, spd \in 0 .. MaxSpeed : ReadyJudge(c, spd)
    BY <1>2 DEF Next, Tick, MainLoop, PowerUpWait, SrvBrakeCloseDeal, PinDrive, SrvStatusDeal, Protect,
                FaultSchedule, FaultReset, MainLoad, MainStore, PwmFault, PanelBrake, vars, smVars
  <2> QED
    BY <2>1 DEF ReadyJudge, StopOn
<1> QED
  BY <1>1, <1>2

\* Every stop of the drive runs down, for all delays, modes, faults and interleavings.
THEOREM StopClockRuns == Spec => StopClock
<1>1. Init => StopOn
  BY DEF Init, StopOn
<1>2. TypeOK /\ IInv /\ StopOn /\ [Next]_vars =>
        [ srvOnIn = 0 /\ srvOnIn' = 0
          => /\ StopRank' <= StopRank
             /\ SrvBrakeCloseDeal /\ brakeStatus # "BRAKE" /\ ~StillTurning => StopRank' < StopRank ]_vars
  BY BrakeStepStops, OtherStepsStop
<1> QED
  BY <1>1, <1>2, StepStopOn, TypeCorrect, Invariance, PTL DEF Spec, StopClock
=============================================================================
