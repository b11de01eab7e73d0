-------------------------- MODULE SensorlessStartup --------------------------
(***************************************************************************)
(* The sensorless startup sequencer (SensorlessStartup.c) as the PWM       *)
(* interrupt drives it: CtrLoop_CalcFirst runs the permission guard, the   *)
(* step and its outputs (SensorlessShadow_PreFoc) and the current loop,    *)
(* which may trip.  Requests come from the 1 ms interrupt, which the PWM   *)
(* interrupt preempts; Preemptible says whether RequestStop is cut there.  *)
(*                                                                         *)
(* Angles, speeds and currents are reduced to the tests made on them: a    *)
(* sample says whether the observer or HFI is good, whether the two angles *)
(* agree, and where the speed lies between the exit and handoff speeds.    *)
(***************************************************************************)
EXTENDS Naturals

CONSTANTS
  Modes,                       \* debug modes in use
  HfiEnable,                   \* hfi_enable and hfi_capable
  Fallback,                    \* allow_open_loop_fallback
  AlignCycles, RampCycles, RampTimeout, IfHold, IqHold, TravelEnd,
  LockDwell, LockTimeout, BlendCycles, HfiDwell, HfiTimeout,
  UnlockDwell, StopDwell, StopTimeout, RunTest, TotalTimeout,
  CycleCap,                    \* bound: state_cycles saturates above every limit
  Preemptible

Cycles == Nat \ {0}

\* SensorlessStartup_ValidateConfig: no dwell or timeout is 0, and a scan or a
\* travel path ends before the timeout of the ramp.
ASSUME ConfigOK ==
  /\ Modes \subseteq {"FULL", "ALIGN", "IF", "D_AXIS", "SCAN", "TRAVEL", "PROBE"}
  /\ {AlignCycles, RampCycles, RampTimeout, IfHold, IqHold, TravelEnd, LockDwell,
      LockTimeout, BlendCycles, HfiDwell, HfiTimeout, UnlockDwell, StopDwell,
      StopTimeout, RunTest, TotalTimeout} \subseteq Cycles
  /\ \A n \in {AlignCycles, RampCycles, RampTimeout, IfHold, IqHold, LockTimeout,
               BlendCycles, HfiTimeout, StopTimeout, RunTest} : n < CycleCap
  /\ CycleCap \in Cycles
  /\ 2 * IfHold + 1 < RampTimeout /\ TravelEnd < RampTimeout
  /\ Modes \cap {"D_AXIS", "SCAN", "TRAVEL", "PROBE"} # {} => ~HfiEnable /\ Fallback
ASSUME FlagsOK == {HfiEnable, Fallback, Preemptible} \subseteq BOOLEAN

None == "NONE"
Failures == {"PARAM_INVALID", "START_TIMEOUT", "OBSERVER_NUMERIC", "HFI_UNAVAILABLE",
             "HFI_LOCK_LOST", "HFI_LOCK_TIMEOUT", "RAMP_TIMEOUT", "LOCK_TIMEOUT",
             "BLEND_FAILED", "LOCK_LOST", "STOP_TIMEOUT", "CURRENT_INPUT", "CURRENT", "EXTERNAL"}
HfiStates == {"HFI_ACQUIRE", "HFI_RUN", "HFI_REACQUIRE", "BLEND_TO_HFI"}
ClosedStates == {"BLEND", "IQ_HOLD", "RUN", "STOPPING"}
States == {"IDLE", "ALIGN", "OPEN_LOOP_RAMP", "WAIT_LOCK", "FAULT"}
            \cup HfiStates \cup ClosedStates

VARIABLES
  mode,        \* config.debug_mode
  runtime,     \* SENSORLESS_STARTUP_RUNTIME
  targetFast,  \* the target speed is at least the handoff speed
  owned,       \* control_override_active: the outputs drive the current loop
  hookSent,    \* fault_hook_sent
  regul, err,  \* StateMachine.RegulFlg; FP_ERR latched
  pc,          \* RequestStop: "idle", or the branch chosen and not yet stored
  due,         \* a PWM period has passed since the last 1 ms action
  stale,       \* history: the drive was off since the start was requested
  badRun       \* history: periods in a row without a good lock in IQ_HOLD or RUN

vars == <<mode, runtime, targetFast, owned, hookSent, regul, err, pc, due, stale, badRun>>
driveVars == <<regul, err>>

Runtime == [state : States, request : BOOLEAN, cycles : 0 .. CycleCap,
            total : 0 .. TotalTimeout, lockGood : 0 .. LockDwell, hfiGood : 0 .. HfiDwell,
            hfiBad : 0 .. UnlockDwell, unlockBad : 0 .. UnlockDwell, stopGood : 0 .. StopDwell,
            fromHfi : BOOLEAN, hfiNew : BOOLEAN, active : BOOLEAN, failure : Failures \cup {None}]

\* SensorlessStartup_Init
InitRuntime == [state |-> "IDLE", request |-> FALSE, cycles |-> 0, total |-> 0,
                lockGood |-> 0, hfiGood |-> 0, hfiBad |-> 0, unlockBad |-> 0, stopGood |-> 0,
                fromHfi |-> FALSE, hfiNew |-> FALSE, active |-> FALSE, failure |-> None]

Init ==
  /\ mode \in Modes /\ runtime = InitRuntime /\ targetFast = TRUE
  /\ owned = FALSE /\ hookSent = FALSE /\ regul = FALSE /\ err = FALSE
  /\ pc = "idle" /\ due = FALSE /\ stale = TRUE /\ badRun = 0

(* -- The sequencer: operators from one runtime to the next ----------------- *)

Running(r) == r.state \notin {"IDLE", "FAULT"}
Enter(r, s) == [r EXCEPT !.state = s, !.cycles = 0]

\* Startup_EnterFault: the first failure is kept.
FailureLast(r, f) == f
FailureFirst(r, f) == IF r.failure = None THEN f ELSE r.failure
EnterFault(r, f) ==
  [Enter(r, "FAULT") EXCEPT !.failure = FailureFirst(r, f), !.active = FALSE, !.request = FALSE]

\* SensorlessStartup_RequestStop: the branch its tests choose, and its store.
StopFromFault(r) ==
  IF mode # "FULL" /\ r.state # "FAULT" THEN "toIdle"
  ELSE IF r.state # "IDLE" THEN "toStopping" ELSE "none"
StopBranch(r) ==
  IF mode # "FULL" /\ r.state # "FAULT" THEN "toIdle"
  ELSE IF Running(r) THEN "toStopping" ELSE "none"
StoreStop(r, branch) ==
  CASE branch = "toIdle"     -> [Enter(r, "IDLE") EXCEPT !.active = FALSE]
    [] branch = "toStopping" -> [Enter(r, "STOPPING") EXCEPT !.stopGood = 0]
    [] OTHER                 -> r
StopRequested(r) == StoreStop([r EXCEPT !.request = FALSE], StopBranch(r))

\* A dwell counter: consecutive periods in which c held, up to its limit.
CountOn(n, c, limit) == IF c THEN n + 1 ELSE 0
Count(n, c, limit) == IF ~c THEN 0 ELSE IF n < limit THEN n + 1 ELSE n

LockGood(r, in) == in.lock
HfiGood(r, in) == in.hfi /\ ~r.hfiNew

Idle(r, in) ==
  IF ~r.request THEN r
  ELSE IF ~in.params THEN EnterFault(r, "PARAM_INVALID")
  ELSE [Enter(r, "ALIGN") EXCEPT !.hfiNew = FALSE, !.hfiGood = 0, !.hfiBad = 0]

Align(r, in) ==
  LET a == [r EXCEPT !.active = TRUE]
  IN  IF r.cycles < AlignCycles THEN a
      ELSE IF mode = "ALIGN" THEN [Enter(a, "IDLE") EXCEPT !.active = FALSE, !.request = FALSE]
      ELSE IF HfiEnable THEN Enter(a, "HFI_ACQUIRE")
      ELSE IF Fallback THEN Enter(a, "OPEN_LOOP_RAMP")
      ELSE EnterFault(a, "HFI_UNAVAILABLE")

HfiAcquire(r, in) ==
  LET a == [r EXCEPT !.active = TRUE, !.hfiGood = Count(@, HfiGood(r, in), HfiDwell)]
  IN  IF r.hfiNew THEN EnterFault(r, "HFI_LOCK_LOST")
      ELSE IF a.hfiGood >= HfiDwell THEN [Enter(a, "HFI_RUN") EXCEPT !.lockGood = 0, !.hfiBad = 0]
      ELSE IF r.cycles < HfiTimeout THEN a
      ELSE IF Fallback THEN Enter(a, "OPEN_LOOP_RAMP")
      ELSE EnterFault(a, "HFI_LOCK_TIMEOUT")

HfiRun(r, in) ==
  LET a == [r EXCEPT !.active = TRUE, !.hfiBad = Count(@, ~HfiGood(r, in), UnlockDwell)]
      b == [a EXCEPT !.lockGood = Count(@, in.speed = "fast" /\ LockGood(r, in) /\ in.agree, LockDwell)]
  IN  IF a.hfiBad >= UnlockDwell THEN EnterFault(a, "HFI_LOCK_LOST")
      ELSE IF b.lockGood >= LockDwell THEN [Enter(b, "BLEND") EXCEPT !.fromHfi = TRUE]
      ELSE b

\* in.atSpeed: the open-loop speed has reached the handoff speed.
OpenLoopRamp(r, in) ==
  LET a == [r EXCEPT !.active = TRUE]
  IN  IF r.cycles >= RampTimeout THEN EnterFault(r, "RAMP_TIMEOUT")
      ELSE IF mode \in {"TRAVEL", "PROBE"} THEN IF r.cycles >= TravelEnd THEN StopRequested(a) ELSE a
      ELSE IF mode = "SCAN" THEN IF r.cycles > 2 * IfHold THEN StopRequested(r) ELSE a
      ELSE IF in.atSpeed /\ r.cycles >= RampCycles THEN Enter(a, "WAIT_LOCK")
      ELSE a

\* The I/F and d-axis tests hold the speed and never let the observer in.
HoldsSpeedNever == FALSE
HoldsSpeed == mode \in {"IF", "D_AXIS"}
WaitLock(r, in) ==
  LET a == [r EXCEPT !.active = TRUE]
      b == [a EXCEPT !.lockGood = Count(@, LockGood(r, in) /\ in.agree, LockDwell)]
  IN  IF HoldsSpeed THEN IF r.cycles >= IfHold THEN [Enter(r, "IDLE") EXCEPT !.request = FALSE] ELSE a
      ELSE IF b.lockGood >= LockDwell THEN [Enter(b, "BLEND") EXCEPT !.fromHfi = FALSE]
      ELSE IF r.cycles >= LockTimeout THEN EnterFault(b, "LOCK_TIMEOUT")
      ELSE b

Blend(r, in) ==
  LET a == [r EXCEPT !.active = TRUE]
  IN  IF r.fromHfi /\ ~HfiGood(r, in) THEN EnterFault(a, "HFI_LOCK_LOST")
      ELSE IF ~LockGood(r, in) \/ ~in.agree THEN EnterFault(a, "BLEND_FAILED")
      ELSE IF r.cycles < BlendCycles THEN a
      ELSE [Enter(a, IF r.fromHfi THEN "RUN" ELSE "IQ_HOLD") EXCEPT !.unlockBad = 0, !.hfiGood = 0]

\* Back to HFI from RUN: a new snapshot of the HFI fault count.
Reacquire(r) ==
  [Enter(r, "HFI_REACQUIRE") EXCEPT !.hfiNew = FALSE, !.hfiGood = 0, !.hfiBad = 0, !.unlockBad = 0]

\* Startup_CheckRunMonitors: the lock is lost after a dwell without it.
UnlockSticky(r, in) == IF LockGood(r, in) \/ r.unlockBad = UnlockDwell THEN r.unlockBad ELSE r.unlockBad + 1
Unlock(r, in) == Count(r.unlockBad, ~LockGood(r, in), UnlockDwell)
CheckRunMonitors(r, in) ==
  LET a == [r EXCEPT !.unlockBad = Unlock(r, in)]
  IN  IF a.unlockBad < UnlockDwell THEN a
      ELSE IF HfiEnable THEN Reacquire(a)
      ELSE EnterFault(a, "LOCK_LOST")

IqHoldStep(r, in) ==
  LET a == CheckRunMonitors([r EXCEPT !.active = TRUE], in)
  IN  IF a.state = "IQ_HOLD" /\ r.cycles >= IqHold THEN Enter(a, "RUN") ELSE a

Run(r, in) ==
  LET a == CheckRunMonitors([r EXCEPT !.active = TRUE], in)
  IN  IF r.cycles >= RunTest THEN StopRequested(r)
      ELSE IF a.state = "RUN" /\ HfiEnable /\ in.speed = "slow" THEN Reacquire(a)
      ELSE a

BackToRun(r, in) == in.speed = "fast" /\ targetFast /\ LockGood(r, in)

HfiReacquire(r, in) ==
  LET a == [r EXCEPT !.active = TRUE]
      b == [a EXCEPT !.hfiGood = Count(@, HfiGood(r, in) /\ in.agree, HfiDwell), !.unlockBad = Unlock(r, in)]
  IN  IF BackToRun(r, in) THEN [Enter(a, "RUN") EXCEPT !.unlockBad = 0]
      ELSE IF b.hfiGood >= HfiDwell THEN Enter(b, "BLEND_TO_HFI")
      ELSE IF r.cycles >= HfiTimeout THEN EnterFault(b, "HFI_LOCK_TIMEOUT")
      ELSE b

BlendToHfi(r, in) ==
  LET a == [r EXCEPT !.active = TRUE]
  IN  IF ~HfiGood(r, in) \/ ~in.agree THEN [Enter(r, "HFI_REACQUIRE") EXCEPT !.hfiGood = 0]
      ELSE IF BackToRun(r, in) THEN Enter(a, "RUN")
      ELSE IF r.cycles >= BlendCycles THEN [Enter(a, "HFI_RUN") EXCEPT !.hfiBad = 0, !.lockGood = 0]
      ELSE a

\* in.settled: the speed reference is at 0 and the speed below stop_speed_rpm.
StoppingForever(r, in) ==
  LET a == [r EXCEPT !.active = TRUE, !.stopGood = Count(@, in.settled, StopDwell)]
  IN  IF a.stopGood >= StopDwell THEN Enter(a, "IDLE") ELSE a
Stopping(r, in) ==
  LET a == [r EXCEPT !.active = TRUE, !.stopGood = Count(@, in.settled, StopDwell)]
  IN  IF a.stopGood >= StopDwell THEN Enter(a, "IDLE")
      ELSE IF r.cycles >= StopTimeout THEN EnterFault(a, "STOP_TIMEOUT")
      ELSE a

\* The total timeout runs in every state of a start but RUN.
TotalCountsOpenLoop(r) == r.request /\ r.state \notin HfiStates \cup ClosedStates \cup {"FAULT"}
TotalCounts(r) == r.request /\ r.state \notin {"RUN", "STOPPING", "FAULT"}

\* What SensorlessStartup_Step does before its switch.
Prologue(r, in) ==
  LET p == [r EXCEPT !.active = FALSE, !.cycles = IF @ < CycleCap THEN @ + 1 ELSE @,
                     !.hfiNew = @ \/ in.hfiFault, !.total = IF TotalCounts(r) THEN @ + 1 ELSE @]
      q == IF TotalCounts(r) /\ p.total >= TotalTimeout THEN EnterFault(p, "START_TIMEOUT") ELSE p
  IN  IF Running(q) /\ in.observerFault THEN EnterFault(q, "OBSERVER_NUMERIC") ELSE q

Handle(r, in) ==
  CASE r.state = "IDLE"           -> Idle(r, in)
    [] r.state = "ALIGN"          -> Align(r, in)
    [] r.state = "HFI_ACQUIRE"    -> HfiAcquire(r, in)
    [] r.state = "HFI_RUN"        -> HfiRun(r, in)
    [] r.state = "OPEN_LOOP_RAMP" -> OpenLoopRamp(r, in)
    [] r.state = "WAIT_LOCK"      -> WaitLock(r, in)
    [] r.state = "BLEND"          -> Blend(r, in)
    [] r.state = "IQ_HOLD"        -> IqHoldStep(r, in)
    [] r.state = "RUN"            -> Run(r, in)
    [] r.state = "HFI_REACQUIRE"  -> HfiReacquire(r, in)
    [] r.state = "BLEND_TO_HFI"   -> BlendToHfi(r, in)
    [] r.state = "STOPPING"       -> Stopping(r, in)
    [] r.state = "FAULT"          -> r

\* After the switch, an active takeover probe may end the test or refuse its input.
Probe(r, in) ==
  IF mode # "PROBE" \/ ~r.active \/ in.probe = "go" THEN r
  ELSE IF in.probe = "bad" THEN EnterFault(r, "CURRENT_INPUT")
  ELSE [Enter(r, "IDLE") EXCEPT !.active = FALSE, !.request = FALSE]

Step(r, in) == Probe(Handle(Prologue(r, in), in), in)

(* -- The PWM interrupt ----------------------------------------------------- *)

\* The samples that can make a difference in state s: a test that the state
\* does not make is fixed.
FreeIn(s, states) == IF s \in states THEN BOOLEAN ELSE {FALSE}
Samples(s) ==
  [params : FreeIn(s, {"IDLE"}),
   observerFault : FreeIn(s, States \ {"IDLE", "FAULT"}),
   hfiFault : IF HfiEnable THEN FreeIn(s, HfiStates \cup {"ALIGN", "BLEND"}) ELSE {FALSE},
   hfi : IF HfiEnable THEN FreeIn(s, HfiStates \cup {"BLEND"}) ELSE {FALSE},
   lock : FreeIn(s, (HfiStates \cup ClosedStates \cup {"WAIT_LOCK"}) \ {"HFI_ACQUIRE", "STOPPING"}),
   agree : FreeIn(s, (HfiStates \cup {"WAIT_LOCK", "BLEND"}) \ {"HFI_ACQUIRE"}),
   atSpeed : FreeIn(s, {"OPEN_LOOP_RAMP"}),
   settled : FreeIn(s, {"STOPPING"}),
   speed : IF HfiEnable /\ s \in HfiStates \cup {"RUN"} THEN {"slow", "mid", "fast"} ELSE {"mid"},
   probe : IF mode = "PROBE" THEN {"go", "off", "bad"} ELSE {"go"}]

\* SensorlessCanopen_PwmGuard
GuardedRunning(r) == Running(r)
Guarded(r) == (r.state # "IDLE" \/ r.request) /\ r.state # "FAULT"
PwmGuard(r, allowed) == IF Guarded(r) /\ ~allowed THEN EnterFault(r, "EXTERNAL") ELSE r

\* PreFoc with the regulators closed: a running start is tripped.
DriveLost(r) == IF Running(r) THEN EnterFault(r, "EXTERNAL") ELSE r

\* Sensorless_GlobalFaultHook and its latch: each fault is reported once.
HookNever(r) == FALSE
Hook(r) == r.state = "FAULT" /\ ~hookSent

MayInterrupt == Preemptible \/ pc = "idle"

\* CtrLoop_CalcFirst.  lease is MotionAllowed without its drive conditions;
\* currentOk is the verdict of SourceFoc_Step in the current loop.
PwmIsr ==
  /\ MayInterrupt
  /\ \E lease, currentOk \in BOOLEAN, in \in Samples(runtime.state) :
       LET guarded == PwmGuard(runtime, lease /\ regul /\ ~err)
           r     == IF regul THEN Step(guarded, in) ELSE DriveLost(guarded)
           owns  == regul /\ r.active
           trips == owns /\ ~currentOk
           hooks == trips \/ (regul /\ Hook(r))
       IN  /\ runtime' = IF trips THEN EnterFault(r, "CURRENT") ELSE r
           /\ owned' = (owns /\ ~trips)
           /\ err' = (err \/ hooks) /\ regul' = (regul /\ ~hooks)
           /\ hookSent' = (hookSent \/ hooks)
           /\ stale' = (stale \/ ~regul')
           /\ badRun' = Count(badRun, guarded.state \in {"IQ_HOLD", "RUN"} /\ ~in.lock, UnlockDwell)
  /\ due' = TRUE
  /\ UNCHANGED <<mode, targetFast, pc>>

\* Any other level-1 fault closes the regulators, in the same interrupt or in the tick.
DriveFault ==
  /\ MayInterrupt /\ ~err
  /\ err' = TRUE /\ regul' = FALSE /\ stale' = TRUE /\ due' = FALSE
  /\ UNCHANGED <<mode, runtime, targetFast, owned, hookSent, pc, badRun>>

(* -- The 1 ms interrupt ---------------------------------------------------- *)

\* SensorlessShadow_RequestStart; permission is checked by PwmGuard again.
RequestStart ==
  /\ pc = "idle" /\ regul /\ ~err
  /\ runtime.state = "IDLE" /\ ~runtime.request
  /\ targetFast' \in IF HfiEnable THEN BOOLEAN ELSE {TRUE}
  /\ runtime' = [InitRuntime EXCEPT !.request = TRUE]
  /\ hookSent' = FALSE /\ stale' = FALSE /\ badRun' = 0 /\ due' = FALSE
  /\ UNCHANGED <<mode, owned, regul, err, pc>>

\* SensorlessStartup_UpdateTarget
UpdateTarget ==
  /\ pc = "idle" /\ Running(runtime) /\ HfiEnable
  /\ targetFast' \in BOOLEAN
  /\ UNCHANGED <<mode, runtime, owned, hookSent, driveVars, pc, due, stale, badRun>>

\* SensorlessStartup_RequestStop up to its tests.  A probe that is driving
\* current is left to wind it down by itself.
LeftToProbe == mode = "PROBE" /\ runtime.active /\ runtime.state # "FAULT"
StopTest ==
  /\ pc = "idle"
  /\ \/ LeftToProbe /\ UNCHANGED <<runtime, pc>>
     \/ /\ runtime' = [runtime EXCEPT !.request = FALSE]
        /\ pc' = IF StopBranch(runtime) = "none" THEN "idle" ELSE StopBranch(runtime)
  /\ due' = FALSE
  /\ UNCHANGED <<mode, targetFast, owned, hookSent, driveVars, stale, badRun>>

\* ... and its store.
StopStore ==
  /\ pc # "idle" /\ pc' = "idle"
  /\ runtime' = StoreStop(runtime, pc)
  /\ due' = FALSE
  /\ UNCHANGED <<mode, targetFast, owned, hookSent, driveVars, stale, badRun>>

\* SensorlessShadow_ClearFault: only with the regulators closed.
ClearFault ==
  /\ pc = "idle" /\ ~regul
  /\ runtime' = [IF runtime.state = "FAULT" THEN [Enter(runtime, "IDLE") EXCEPT !.request = FALSE]
                 ELSE runtime EXCEPT !.failure = None]
  /\ hookSent' = FALSE
  /\ UNCHANGED <<mode, targetFast, owned, driveVars, pc, due, stale, badRun>>

\* SensorlessShadow_ConfigureStartup: a new configuration, the failure kept.
Configure ==
  /\ pc = "idle" /\ ~regul /\ runtime.state = "IDLE"
  /\ mode' \in Modes
  /\ runtime' = [InitRuntime EXCEPT !.failure = runtime.failure]
  /\ UNCHANGED <<targetFast, owned, hookSent, driveVars, pc, due, stale, badRun>>

\* jlink_exit revokes a start from the 1 ms interrupt.
Revoke ==
  /\ pc = "idle" /\ Guarded(runtime)
  /\ runtime' = EnterFault(runtime, "EXTERNAL") /\ due' = FALSE
  /\ UNCHANGED <<mode, targetFast, owned, hookSent, driveVars, pc, stale, badRun>>

\* The servo state machine opens and closes the regulators and resets errors in
\* later ticks: a PWM period has always passed.
DriveOn ==
  /\ pc = "idle" /\ due /\ ~regul /\ ~err /\ regul' = TRUE
  /\ UNCHANGED <<mode, runtime, targetFast, owned, hookSent, err, pc, due, stale, badRun>>
DriveOff ==
  /\ pc = "idle" /\ regul /\ regul' = FALSE /\ stale' = TRUE /\ due' = FALSE
  /\ UNCHANGED <<mode, runtime, targetFast, owned, hookSent, err, pc, badRun>>
FaultReset ==
  /\ pc = "idle" /\ due /\ err /\ ~regul /\ err' = FALSE
  /\ UNCHANGED <<mode, runtime, targetFast, owned, hookSent, regul, pc, due, stale, badRun>>

Next ==
  \/ PwmIsr \/ DriveFault
  \/ RequestStart \/ UpdateTarget \/ StopTest \/ StopStore \/ ClearFault \/ Configure \/ Revoke
  \/ DriveOn \/ DriveOff \/ FaultReset

Spec == Init /\ [][Next]_vars
LiveSpec == Spec /\ WF_vars(PwmIsr) /\ WF_vars(StopStore)

(* -- Properties ------------------------------------------------------------ *)

\* Every state, counter and flag of the sequencer stays in its range: no dwell
\* counter passes its limit in any state.
TypeOK ==
  /\ mode \in Modes /\ runtime \in Runtime
  /\ {targetFast, owned, hookSent, regul, err, due, stale} \subseteq BOOLEAN
  /\ pc \in {"idle", "toIdle", "toStopping"} /\ badRun \in 0 .. UnlockDwell

\* A start request that outlived a drive disable never drives current when the
\* drive comes back: after every PWM period, outputs belong to a start requested
\* since the regulators last closed.
NoStaleStart == due /\ owned => ~stale

\* After a PWM period a recorded failure never leaves the sequencer in control of
\* the current loop, whatever the 1 ms interrupt stores over its state.
FaultSilent == due /\ runtime.failure # None => ~owned

\* A sequencer in FAULT has closed the regulators by the end of the PWM period:
\* they can only be on if they were off after the start was requested.
FaultCutsDrive == due /\ runtime.state = "FAULT" /\ regul => stale

\* The lock is reported lost only after unlock_dwell_cycles periods in a row
\* without a good lock in the closed-loop states, never for two spells added up.
LostAfterDwell ==
  [][runtime'.failure = "LOCK_LOST" /\ runtime.failure # "LOCK_LOST" => badRun' >= UnlockDwell]_vars

\* A debug mode never lets the observer own the angle: only a full start reaches
\* the states that close the loop on it.
OpenLoopOnly == mode # "FULL" => runtime.state \notin ClosedStates \cup {"HFI_REACQUIRE"}

\* The first failure of a start is what is reported until a new start or a clear.
FirstFailureKept ==
  [][runtime.failure # None => runtime'.failure \in {runtime.failure, None}]_vars

\* A requested start ends, however often it changes between HFI and the observer:
\* the total timeout keeps counting over every visit to a state but RUN, and RUN
\* has a timeout of its own.
StartEnds == runtime.request ~> ~runtime.request

\* A sequencer that stops is idle or failed in the end, if it is not told to stop
\* again and again: a repeated request restarts the dwell and the timeout.
StopEnds == <>[](pc = "idle") => (runtime.state = "STOPPING" ~> runtime.state # "STOPPING")

\* FAULT is never left by itself: the step that leaves it also erases the recorded
\* failure, as the clear command does.
FaultStays == [][runtime.state = "FAULT" /\ runtime'.state # "FAULT" => runtime'.failure = None]_vars

\* The sequencer and the regulators implement the startup contract, wherever the PWM
\* interrupt cuts a stop request.
Contract == INSTANCE StartupContract WITH
  phase <- CASE runtime.state = "FAULT" -> "fault"
             [] runtime.state = "IDLE"  -> IF runtime.request THEN "armed" ELSE "off"
             [] OTHER                   -> "driving",
  drive <- regul,
  stop  <- pc # "idle"
ContractSpec == Contract!Spec
=============================================================================
