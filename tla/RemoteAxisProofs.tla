--------------------------- MODULE RemoteAxisProofs ---------------------------
(***************************************************************************)
(* Proofs about RemoteAxis, for every set of local sources and every       *)
(* option code: types, a drive that nobody asks for goes off, the stop of  *)
(* a disabled axis follows the option of its reason and is waited for, and *)
(* the drive below runs through DriveCycle.                                *)
(***************************************************************************)
EXTENDS RemoteAxis, TLAPS

(* -- Types ------------------------------------------------------------------ *)

AxisStates == {"NOT_READY", "SWITCH_ON_DISABLED", "READY", "SWITCHED_ON", "OPERATION_ENABLED",
               "QUICK_STOP", "FAULT"}
AxisTyped ==
  /\ axis \in AxisStates /\ mainPc \in {"nmt", "axis", "fn"}
  /\ pending \in {"none", "605A", "605B"} /\ reason \in {"none", "disable", "quick", "dropped"}

\* The axis, by the state it is in.
LEMMA AxisCases ==
  ASSUME NEW P,
         Suspended /\ mainPc' = "nmt" /\ UNCHANGED <<axis, pending, reason>> => P,
         NotReady => P,
         \A w \in Words : SwitchOnDisabled(w) \/ Ready(w) \/ SwitchedOn(w) => P,
         \A w \in Words : OperationEnabled(w) \/ QuickStop(w) => P,
         Fault => P,
         CiA402_StateMachine
  PROVE  P
BY DEF CiA402_StateMachine

LEMMA AxisStepTyped ==
  ASSUME AxisTyped, CiA402_StateMachine
  PROVE  AxisTyped'
<1> USE DEF AxisTyped, AxisStates, Goto, Stay, State
<1>1. Suspended /\ mainPc' = "nmt" /\ UNCHANGED <<axis, pending, reason>> => AxisTyped'
  OBVIOUS
<1>2. NotReady => AxisTyped'
  BY DEF NotReady
<1>3. ASSUME NEW w \in Words PROVE SwitchOnDisabled(w) \/ Ready(w) \/ SwitchedOn(w) => AxisTyped'
  BY DEF SwitchOnDisabled, Ready, SwitchedOn
<1>4. ASSUME NEW w \in Words PROVE OperationEnabled(w) \/ QuickStop(w) => AxisTyped'
  BY DEF OperationEnabled, QuickStop, Disable, Words
<1>5. Fault => AxisTyped'
  BY DEF Fault
<1> QED
  BY <1>1, <1>2, <1>3, <1>4, <1>5, AxisCases

LEMMA MainTyped == TypeOK /\ MainLoop => TypeOK'
<1> SUFFICES ASSUME TypeOK, MainLoop PROVE TypeOK'
  OBVIOUS
<1>1. UNCHANGED <<driveVars, readyERR, stopFlg, commandVars, ctrlSoure, faultVars, tickPc, offFor>>
  BY DEF MainLoop
<1>2. nmt' \in BOOLEAN /\ fnEnabled' \in BOOLEAN
  BY DEF MainLoop, CanopenTask, CiA402_StateMachine, AxisFunction, TypeOK
<1>3. AxisTyped
  BY DEF TypeOK, AxisTyped, AxisStates
<1>4. AxisTyped'
  BY <1>3, AxisStepTyped DEF MainLoop, CanopenTask, AxisFunction, AxisTyped
<1> QED
  BY <1>1, <1>2, <1>4 DEF TypeOK, AxisTyped, AxisStates, driveVars, commandVars, faultVars

LEMMA CommandTyped == TypeOK /\ TickCommand => TypeOK'
<1> SUFFICES ASSUME TypeOK, TickCommand PROVE TypeOK'
  OBVIOUS
<1>1. readyERR' \in {0, 1} /\ readyDC' \in {0, 1} /\ srvOnIn' \in {0, 1} /\ tickPc' = "drive"
  BY DEF TickCommand, TypeOK
<1>2. offFor' \in 0 .. OffBound
  BY DEF TickCommand, TypeOK, OffBound
<1>3. Selected \subseteq {"ecat", "scope", "panel"}
  BY DEF Selected, TypeOK
<1>4. cmdIn' \subseteq {"ecat", "scope", "panel"} /\ hosts' \subseteq Hosts
  BY <1>3 DEF TickCommand, CmdInCheck, commandVars, TypeOK
<1> QED
  BY <1>1, <1>2, <1>4 DEF TickCommand, TypeOK, axisVars, faultVars

LEMMA DriveTyped == TypeOK /\ TickDrive => TypeOK'
<1> SUFFICES ASSUME TypeOK, TickDrive PROVE TypeOK'
  OBVIOUS
<1>1. /\ srvOnStatus' \in {0, 1} /\ UNCHANGED <<srvOnIn, readyDC>>
      /\ brakeStatus' \in {"BRAKE", "2LOOSE", "LOOSE", "2BRAKE"}
  BY DEF TickDrive, TypeOK, Drive!Step, Drive!BusLost, Drive!Braked, Drive!Loosening, Drive!Loosened,
         Drive!Braking
<1>2. EcatStop(QuickStopOption) \in 0 .. 2 /\ EcatStop(DisableOption) \in 0 .. 2 /\ EcatStop(FaultOption) \in 0 .. 2
  BY OptionsOK DEF OptionCodes, EcatStop
<1>3. RemoteStop \in {0, 1, 2} /\ LocalStopMode \in {0, STOPMODEFAULT, STOPMODEZERO}
  BY <1>2, LocalOK DEF RemoteStop, LocalStopMode, TypeOK
<1>4. stopFlg' \in {0, 1, 2, STOPMODEZERO, STOPMODEFAULT}
  BY <1>3 DEF TickDrive, TypeOK
<1>5. pending' \in {"none", "605A", "605B"} /\ reason' \in {"none", "disable", "quick", "dropped"}
        /\ hosts' \subseteq Hosts /\ ctrlSoure' \in {"remote", "local"}
  BY DEF TickDrive, TypeOK, PendingNow, HostsLeft, CtrlSoureSwitch
<1> QED
  BY <1>1, <1>4, <1>5 DEF TickDrive, TypeOK, faultVars

LEMMA RestTyped == TypeOK /\ (TickProtect \/ PwmFault \/ HostChange) => TypeOK'
<1> SUFFICES ASSUME TypeOK, TickProtect \/ PwmFault \/ HostChange PROVE TypeOK'
  OBVIOUS
<1>1. Outranked(1) \in 0 .. 2 /\ Outranked(2) \in 0 .. 2
  BY DEF Outranked, TypeOK
<1>2. CASE TickProtect
  BY <1>1, <1>2 DEF TickProtect, TypeOK, ResetPending, driveVars, commandVars
<1>3. CASE PwmFault
  BY <1>1, <1>3 DEF PwmFault, TypeOK, driveVars, axisVars, commandVars
<1>4. CASE HostChange
  BY <1>4 DEF HostChange, TypeOK, driveVars, axisVars, faultVars
<1> QED
  BY <1>2, <1>3, <1>4

LEMMA StepTyped == TypeOK /\ [Next]_vars => TypeOK'
<1>1. TypeOK /\ UNCHANGED vars => TypeOK'
  BY DEF TypeOK, vars, driveVars, axisVars, commandVars, faultVars
<1> QED
  BY <1>1, MainTyped, CommandTyped, DriveTyped, RestTyped DEF Next, Tick

\* Every variable stays in its range, for all options and sources.
THEOREM TypeCorrect == Spec => []TypeOK
<1>1. Init => TypeOK
  <2> SUFFICES ASSUME Init PROVE TypeOK
    OBVIOUS
  <2>1. {srvOnIn, readyDC, srvOnStatus, readyERR, dcLost} \subseteq {0, 1} /\ brakeStatus = "BRAKE"
    BY DEF Init, Drive!Init
  <2>2. offFor \in 0 .. OffBound /\ errLevel \in 0 .. 2
    BY DEF Init, OffBound
  <2> QED
    BY <2>1, <2>2 DEF Init, TypeOK
<1> QED
  BY <1>1, StepTyped, PTL DEF Spec

(* -- A drive nobody asks for --------------------------------------------------- *)

\* The first tick without a source takes the command away and abandons a release that has
\* not yet switched off; the second finds the drive off or its brake closing.
OffInv ==
  /\ offFor > 0 /\ tickPc = "drive" => srvOnIn = 0
  /\ offFor > 0 /\ tickPc # "drive" => srvOnStatus = 0 \/ brakeStatus # "2LOOSE"
  /\ offFor = OffBound /\ tickPc = "drive" => srvOnStatus = 0 \/ brakeStatus # "2LOOSE"
  /\ offFor = OffBound /\ tickPc # "drive" => srvOnStatus = 0 \/ brakeStatus \in {"2BRAKE", "BRAKE"}

LEMMA CommandOff == TypeOK /\ OffInv /\ TickCommand => OffInv'
<1> SUFFICES ASSUME TypeOK, OffInv, TickCommand PROVE OffInv'
  OBVIOUS
<1>1. offFor' > 0 => ~fnEnabled /\ hosts = {}
  BY DEF TickCommand
<1>2. hosts = {} /\ ~fnEnabled => Selected = cmdIn \ {"ecat", "scope"} /\ ~Internal
  BY DEF Selected, Internal
<1>3. hosts = {} /\ ~fnEnabled /\ CmdInCheck => cmdIn' = {}
  BY <1>2 DEF CmdInCheck, TypeOK
<1>4. offFor' > 0 => srvOnIn' = 0
  BY <1>1, <1>3 DEF TickCommand
<1>5. offFor' = OffBound => offFor > 0
  BY DEF TickCommand, OffBound, TypeOK
<1> QED
  BY <1>4, <1>5 DEF TickCommand, OffInv, OffBound

LEMMA DriveStepOff == TypeOK /\ OffInv /\ TickDrive => OffInv'
BY DEF TypeOK, OffInv, TickDrive, OffBound, Drive!Step, Drive!BusLost, Drive!Braked, Drive!Loosening,
       Drive!Loosened, Drive!Braking

LEMMA StepOff == TypeOK /\ OffInv /\ [Next]_vars => OffInv'
<1> SUFFICES ASSUME TypeOK, OffInv, [Next]_vars PROVE OffInv'
  OBVIOUS
<1>1. CASE MainLoop
  BY <1>1 DEF MainLoop, OffInv, driveVars
<1>2. CASE TickCommand
  BY <1>2, CommandOff
<1>3. CASE TickDrive
  BY <1>3, DriveStepOff
<1>4. CASE TickProtect
  BY <1>4 DEF TickProtect, OffInv, driveVars
<1>5. CASE PwmFault \/ HostChange
  BY <1>5 DEF PwmFault, HostChange, OffInv, driveVars
<1>6. CASE UNCHANGED vars
  BY <1>6 DEF vars, OffInv, driveVars
<1> QED
  BY <1>1, <1>2, <1>3, <1>4, <1>5, <1>6 DEF Next, Tick

\* Two ticks after the last source has gone the drive is off or its brake closes, whatever
\* bits of the command the arbitration had left set.
THEOREM DisabledDriveStops == Spec => []DisableStops
<1>1. Init => OffInv
  BY DEF Init, OffInv, OffBound, Drive!Init
<1>2. OffInv => DisableStops
  BY DEF OffInv, DisableStops
<1> QED
  BY <1>1, <1>2, TypeCorrect, StepOff, PTL DEF Spec

(* -- The stop of the disabled axis ----------------------------------------------- *)

\* What is pending agrees with the reason for which the axis was left: a quick stop is
\* pending once the axis has left QUICK_STOP, before its function is disabled.  An error
\* may take the axis out of QUICK_STOP, but then the reset, which drops everything, comes
\* before the drive is asked again.  A reset for a warning may come at any tick, and drops
\* what is pending there and then.
OptInv ==
  /\ mainPc = "fn" => axis # "QUICK_STOP"
  /\ axis \in {"OPERATION_ENABLED", "QUICK_STOP"} /\ mainPc # "fn" => fnEnabled
  /\ axis = "OPERATION_ENABLED" => reason = "none"
  /\ axis = "QUICK_STOP" => reason # "disable"
  /\ reason = "disable" => pending = "605B"
  /\ reason = "quick" =>
       pending = "605A" \/ (axis = "QUICK_STOP" /\ fnEnabled) \/ (readyERR = 1 /\ errLevel # 0)
  /\ reason = "dropped" => pending = "none"
  /\ readyERR = 1 /\ errLevel = 0 => reason \in {"none", "dropped"}

LEMMA AxisOpt ==
  ASSUME TypeOK, OptInv, CiA402_StateMachine, UNCHANGED <<readyERR, errLevel>>
  PROVE  OptInv'
<1>1. mainPc = "axis" /\ UNCHANGED fnEnabled
  BY DEF CiA402_StateMachine
<1> USE <1>1 DEF TypeOK, OptInv, Goto, Stay, State
<1>2. Suspended /\ mainPc' = "nmt" /\ UNCHANGED <<axis, pending, reason>> => OptInv'
  OBVIOUS
<1>3. NotReady => OptInv'
  BY DEF NotReady
<1>4. ASSUME NEW w \in Words PROVE SwitchOnDisabled(w) \/ Ready(w) \/ SwitchedOn(w) => OptInv'
  BY DEF SwitchOnDisabled, Ready, SwitchedOn
<1>5. ASSUME NEW w \in Words PROVE OperationEnabled(w) \/ QuickStop(w) => OptInv'
  BY DEF OperationEnabled, QuickStop, Disable, Words
<1>6. Fault => OptInv'
  BY DEF Fault
<1> QED
  BY <1>2, <1>3, <1>4, <1>5, <1>6, AxisCases

LEMMA StepOpt == TypeOK /\ OptInv /\ [Next]_vars => OptInv'
<1> SUFFICES ASSUME TypeOK, OptInv, [Next]_vars PROVE OptInv'
  OBVIOUS
<1>1. CASE MainLoop
  <2>1. UNCHANGED <<readyERR, errLevel>>
    BY <1>1 DEF MainLoop, faultVars
  <2>2. CASE CanopenTask
    BY <2>1, <2>2 DEF CanopenTask, OptInv
  <2>3. CASE AxisFunction
    BY <2>1, <2>3 DEF AxisFunction, OptInv
  <2>4. CASE CiA402_StateMachine
    BY <2>1, <2>4, AxisOpt
  <2> QED
    BY <1>1, <2>2, <2>3, <2>4 DEF MainLoop
<1>2. CASE TickCommand
  BY <1>2 DEF TickCommand, OptInv, axisVars, faultVars, TypeOK
<1>3. CASE TickDrive
  <2>1. (reason' = "none" \/ (reason' = reason /\ pending' = pending))
    BY <1>3 DEF TickDrive, PendingNow
  <2> QED
    BY <1>3, <2>1 DEF TickDrive, OptInv, faultVars, TypeOK
<1>4. CASE TickProtect
  BY <1>4 DEF TickProtect, ResetPending, OptInv, driveVars, commandVars, TypeOK, Outranked
<1>5. CASE PwmFault
  BY <1>5 DEF PwmFault, OptInv, axisVars, driveVars, commandVars, TypeOK, Outranked
<1>6. CASE HostChange
  BY <1>6 DEF HostChange, OptInv, axisVars, faultVars
<1>7. CASE UNCHANGED vars
  BY <1>7 DEF vars, OptInv, axisVars, faultVars
<1> QED
  BY <1>1, <1>2, <1>3, <1>4, <1>5, <1>6, <1>7 DEF Next, Tick

LEMMA HonouredStep ==
  ASSUME TypeOK, OptInv, TickDrive, Falling, readyERR = 0, ctrlSoure = "remote", reason # "none",
         ~fnEnabled, brakeStatus = "LOOSE"
  PROVE  stopFlg' = StopFor(reason)
<1>1. PendingNow = pending
  BY DEF PendingNow, StopCompleted, BrakeClosed, BrakedIdle
<1>2. \/ reason = "quick" /\ pending = "605A"
      \/ reason = "disable" /\ pending = "605B"
      \/ reason = "dropped" /\ pending = "none"
  BY DEF OptInv, TypeOK
<1>3. RemoteStop = StopFor(reason)
  BY <1>1, <1>2 DEF RemoteStop, Level1, StopFor
<1> QED
  BY <1>3 DEF TickDrive

\* A drive that the disabled axis stops, stops by the option for the reason the axis had,
\* for every assignment of the options, and by a free stop if a reset has dropped it.
THEOREM OptionIsHonoured == Spec => OptionHonoured
<1>1. Init => OptInv
  BY DEF Init, OptInv
<1>2. TypeOK /\ OptInv /\ [Next]_vars =>
        [ tickPc = "drive" /\ Falling /\ readyERR = 0 /\ ctrlSoure = "remote" /\ reason # "none"
            /\ ~fnEnabled /\ brakeStatus = "LOOSE"
          => stopFlg' = StopFor(reason) ]_vars
  <2> SUFFICES ASSUME TypeOK, OptInv, Next, tickPc = "drive", Falling, readyERR = 0,
                      ctrlSoure = "remote", reason # "none", ~fnEnabled, brakeStatus = "LOOSE"
               PROVE  stopFlg' = StopFor(reason)
    OBVIOUS
  <2>1. TickDrive
    BY DEF Next, Tick, MainLoop, TickCommand, TickProtect, PwmFault, HostChange, Falling, driveVars
  <2> QED
    BY <2>1, HonouredStep
<1> QED
  BY <1>1, <1>2, TypeCorrect, StepOpt, PTL DEF Spec, OptionHonoured

(* -- The disabled axis waits ---------------------------------------------- *)

\* While what is pending lasts, an axis whose function is disabled is in neither of the
\* two states whose tail would enable it.
SuspendInv == pending # "none" /\ ~fnEnabled => axis \notin {"OPERATION_ENABLED", "QUICK_STOP"}

LEMMA AxisSuspend ==
  ASSUME TypeOK, OptInv, SuspendInv, CiA402_StateMachine
  PROVE  SuspendInv'
<1>1. mainPc = "axis" /\ UNCHANGED fnEnabled
  BY DEF CiA402_StateMachine
<1> USE <1>1 DEF TypeOK, OptInv, SuspendInv, Goto, Stay, State
<1>2. Suspended /\ mainPc' = "nmt" /\ UNCHANGED <<axis, pending, reason>> => SuspendInv'
  OBVIOUS
<1>3. NotReady => SuspendInv'
  BY DEF NotReady
<1>4. ASSUME NEW w \in Words PROVE SwitchOnDisabled(w) \/ Ready(w) \/ SwitchedOn(w) => SuspendInv'
  BY DEF SwitchOnDisabled, Ready, SwitchedOn
<1>5. ASSUME NEW w \in Words PROVE OperationEnabled(w) \/ QuickStop(w) => SuspendInv'
  BY DEF OperationEnabled, QuickStop, Disable, Words
<1>6. Fault => SuspendInv'
  BY DEF Fault
<1> QED
  BY <1>2, <1>3, <1>4, <1>5, <1>6, AxisCases

LEMMA StepSuspend == TypeOK /\ OptInv /\ SuspendInv /\ [Next]_vars => SuspendInv'
<1> SUFFICES ASSUME TypeOK, OptInv, SuspendInv, [Next]_vars PROVE SuspendInv'
  OBVIOUS
<1>1. CASE MainLoop
  <2>1. CASE CanopenTask
    BY <1>1, <2>1 DEF CanopenTask, SuspendInv
  <2>2. CASE AxisFunction
    BY <2>2 DEF AxisFunction, SuspendInv, OptInv
  <2>3. CASE CiA402_StateMachine
    BY <2>3, AxisSuspend
  <2> QED
    BY <1>1, <2>1, <2>2, <2>3 DEF MainLoop
<1>2. CASE TickCommand
  BY <1>2 DEF TickCommand, SuspendInv, axisVars
<1>3. CASE TickDrive
  BY <1>3 DEF TickDrive, PendingNow, SuspendInv
<1>4. CASE TickProtect
  BY <1>4 DEF TickProtect, ResetPending, SuspendInv
<1>5. CASE PwmFault \/ HostChange
  BY <1>5 DEF PwmFault, HostChange, SuspendInv, axisVars
<1>6. CASE UNCHANGED vars
  BY <1>6 DEF vars, SuspendInv, axisVars
<1> QED
  BY <1>1, <1>2, <1>3, <1>4, <1>5, <1>6 DEF Next, Tick

LEMMA SuspendedStep ==
  ASSUME TypeOK, OptInv, SuspendInv, [Next]_vars, pending # "none", ~fnEnabled
  PROVE  /\ ~fnEnabled'
         /\ \/ pending' = pending
            \/ /\ pending' = "none"
               /\ (tickPc = "drive" /\ StopCompleted) \/ (tickPc = "protect" /\ errLevel' = 0)
<1>1. CASE MainLoop
  <2>1. CASE AxisFunction
    BY <2>1 DEF AxisFunction, SuspendInv
  <2>2. CASE CanopenTask
    BY <1>1, <2>2 DEF MainLoop, CanopenTask
  <2>3. CASE CiA402_StateMachine
    <3>1. ~fnEnabled'
      BY <2>3 DEF CiA402_StateMachine
    <3>2. CASE readyERR = 0
      BY <2>3, <3>1, <3>2 DEF CiA402_StateMachine, Suspended
    <3>3. CASE readyERR # 0
      <4>1. State = "FAULT" /\ ~Suspended
        BY <3>3 DEF State, Suspended, TypeOK
      <4>2. UNCHANGED pending
        BY <2>3, <4>1 DEF CiA402_StateMachine, NotReady, SwitchOnDisabled, Ready, SwitchedOn,
                          OperationEnabled, QuickStop, Fault, Goto
      <4> QED
        BY <3>1, <4>2
    <3> QED
      BY <3>2, <3>3
  <2> QED
    BY <1>1, <2>1, <2>2, <2>3 DEF MainLoop
<1>2. CASE TickCommand \/ PwmFault \/ HostChange \/ UNCHANGED vars
  BY <1>2 DEF TickCommand, PwmFault, HostChange, vars, axisVars
<1>3. CASE TickDrive
  BY <1>3 DEF TickDrive, PendingNow
<1>4. CASE TickProtect
  BY <1>4 DEF TickProtect, ResetPending
<1> QED
  BY <1>1, <1>2, <1>3, <1>4 DEF Next, Tick

\* The disabled axis waits for its stop, for all options and sources.
THEOREM DisabledAxisWaits == Spec => SuspendedWaits
<1>1. Init => OptInv /\ SuspendInv
  BY DEF Init, OptInv, SuspendInv
<1>2. TypeOK /\ OptInv /\ SuspendInv /\ [Next]_vars =>
        [ pending # "none" /\ ~fnEnabled
          => /\ ~fnEnabled'
             /\ \/ pending' = pending
                \/ /\ pending' = "none"
                   /\ (tickPc = "drive" /\ StopCompleted) \/ (tickPc = "protect" /\ errLevel' = 0) ]_vars
  BY SuspendedStep
<1> QED
  BY <1>1, <1>2, TypeCorrect, StepOpt, StepSuspend, PTL DEF Spec, SuspendedWaits

(* -- The brake of a drive nobody asks for -------------------------------------------- *)

\* How many brake states are left before the brake is closed.
Away ==
  CASE brakeStatus = "2LOOSE" -> 3
    [] brakeStatus = "LOOSE" -> 2
    [] brakeStatus = "2BRAKE" -> 1
    [] brakeStatus = "BRAKE" -> 0

\* From the first tick without a source on, the brake moves only towards closed
\* (SM_SrvBrakeCloseDeal), and no tick leaves it being released with the drive on.
WindsDown == [][ offFor > 0 /\ offFor' > 0 => Away' <= Away ]_vars

LEMMA WindsDownStep ==
  ASSUME TypeOK, OffInv, [Next]_vars, offFor > 0
  PROVE  Away' <= Away
<1>1. CASE TickDrive
  <2>1. tickPc = "drive" /\ srvOnIn = 0
    BY <1>1 DEF TickDrive, OffInv
  <2> QED
    BY <1>1, <2>1 DEF TickDrive, TypeOK, Away, Drive!Step, Drive!BusLost, Drive!Braked, Drive!Loosening,
                      Drive!Loosened, Drive!Braking
<1>2. CASE MainLoop \/ TickCommand \/ TickProtect \/ PwmFault \/ HostChange \/ UNCHANGED vars
  <2>1. UNCHANGED brakeStatus
    BY <1>2 DEF MainLoop, TickCommand, TickProtect, PwmFault, HostChange, vars, driveVars
  <2> QED
    BY <2>1 DEF Away, TypeOK
<1> QED
  BY <1>1, <1>2 DEF Next, Tick

\* The brake of a drive nobody asks for closes step by step and is never released again.
THEOREM BrakeWindsDown == Spec => WindsDown
<1>1. Init => OffInv
  BY DEF Init, OffInv, OffBound, Drive!Init
<1>2. TypeOK /\ OffInv /\ [Next]_vars => [ offFor > 0 /\ offFor' > 0 => Away' <= Away ]_vars
  BY WindsDownStep
<1> QED
  BY <1>1, <1>2, TypeCorrect, StepOff, PTL DEF Spec, WindsDown

(* -- The drive of the axis is the drive of ServoEnable ---------------------------------- *)

LEMMA DriveStep ==
  ASSUME TypeOK, [Next]_vars
  PROVE  [Drive!Sample \/ Drive!Step]_driveVars
<1>1. CASE TickCommand
  BY <1>1 DEF TickCommand, Drive!Sample, TypeOK
<1>2. CASE TickDrive
  BY <1>2 DEF TickDrive
<1>3. CASE MainLoop \/ TickProtect \/ PwmFault \/ HostChange \/ UNCHANGED vars
  BY <1>3 DEF MainLoop, TickProtect, PwmFault, HostChange, vars
<1> QED
  BY <1>1, <1>2, <1>3 DEF Next, Tick

\* Whoever commands it, the drive runs through the cycle that ServoEnable implements: axis,
\* arbitration and stop modes only choose the command and never step the drive otherwise.
THEOREM AxisDrivesTheCycle == Spec => Drive!Spec
<1>1. Init => Drive!Init
  BY DEF Init
<1>2. TypeOK /\ [Next]_vars => [Drive!Sample \/ Drive!Step]_(Drive!vars)
  BY DriveStep DEF driveVars, Drive!vars
<1> QED
  BY <1>1, <1>2, TypeCorrect, PTL DEF Spec, Drive!Spec
=============================================================================
