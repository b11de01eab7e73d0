# TLA+ model of the servo drive firmware

This directory holds TLA+ modules, TLC configurations and machine-checked
proofs about the firmware under `src/Servo_HPM_Project/CtrlLoop` (paths below
are relative to it). The firmware runs a servo motor from three execution
contexts on one core:

| context | entry | does |
|---|---|---|
| PWM interrupt (highest) | `CtrLoop_CalcFirst` (60_User/soure/CtrLoop.c), `CMP_isr_pwm` (Hpm_ISR.c) | current loop, sensorless step, short-circuit fault |
| 1 ms interrupt | `AppTime1Ms` (50_App/source/SV_Timer.c) | state machine, bus voltage, protections, fault schedule, sensorless services |
| main loop | `main` (60_User/soure/main.c) | CANopen and its CiA 402 axis, panel, Modbus, and the copy of the regulator flag |

They share global variables with no locks and almost no critical sections. The
debugger is a fourth actor: it writes RAM mailboxes at any moment. Most of
what is hard to test lies in how these four interleave, and that is what the
modules are about.

`PROJECT.json` is the index: components, runs, the lines each definition
translates, the mutants that show a property can fail, the hazards and the
theorems. This file explains how they belong together.

## 1. Inventory

### Modelled parts

**Servo enable, brake and charge** (SV_StateMachine.c, SV_Timer.c, main.c).
State: the run command and its edges, `BrakeStatus` with its four delays,
the bootstrap charge (`InjectStep`, `ChargeTimer`), the regulator flags of the
interrupt and the main loop (`RegilFlgISR`, `RegulFlg`), the PWM gates, the
brake output and its two supply pins. Operations: one pass of
`StateMachine_Process` per millisecond, a fault at any time, the copy in the
main loop. Hard: a fault from the PWM interrupt in the middle of a pass, the copy
cut between its load and its store, a command that toggles while a delay runs.
Correct when a braked state has a closed brake, no delay or charge is inherited by
the next attempt, and a withdrawn command or a level-1 fault ends in a bounded
time.

**Fault latch** (SV_FaultProtect.c). State: `FaultStatus`, `ErrCode`, `WarnFlg`,
the display, the record ring and its unsaved mark, the reset request.
Operations: raise and withdraw from every context, the schedule and the reset
once per millisecond. Hard: the raise and the reset are read-modify-write sequences that
a higher context may cut. Correct when status, code, display and record always
name the same error, the error is the highest-ranking one since the last reset,
and one that must not be reset stays, unless a resettable one outranks it.

**Sensorless startup** (33_Sensorless/source/SensorlessStartup.c, driven by
SensorlessShadow.c). State: the sequencer's state, its start request, seven
dwell and timeout counters, the first failure; the ownership of the current loop
and the reported-fault flag. Operations: one step per PWM period; start, stop,
clear, configure and trip from the 1 ms interrupt. Hard: the 1 ms requests
test and then store the state that the PWM interrupt changes; a request survives
a drive that is switched off; states hand over to one another with shared
counters. Correct when a failure ends the torque in its own period, a stale
request never drives, a test mode never lets the observer own the angle, and
every start and stop ends.

**Sensorless command mailboxes** (SensorlessCanopen.c, SensorlessCanopenOd.c,
and the commands of SensorlessProduction.c that they submit). State: who owns
control, the debugger's run with its deadline, the CAN request, the heartbeat,
the production command outstanding. Operations: SDO writes in the main loop, five
services per millisecond, the permission check of the PWM interrupt. Hard:
two masters, a watchdog, a deadline, and a takeover between the test and the
store of a write. Correct when nobody moves under someone else's permission.

**Command sources and CiA 402 axis** (`SM_CmdInCheck` and `CiA402_Stop` of
SV_StateMachine.c, Canopenappl.c, SV_CtrlMode.c; the SERVO_CANOPEN build). State:
the network state, the axis state with its function-enabled flag and its pending
option code, the command's source bits `CmdIn`, the local sources, the control source,
the stop flag. Operations: network, axis and its tail in the main loop; arbitration, brake
and status, protections and reset in the tick; errors from the PWM interrupt; local
sources that come and go. Hard: the pending code is written by the axis in the main
loop, by the brake and by the fault reset in the tick, with an error or with no more than a
warning; the bits of a source are
cleared in one branch only; the axis is suspended until the brake completes
a stop. Correct when a drive nobody asks for stops, a stop follows the option of its
reason, and a stop always lets the axis go on.

**Parameter store** (SV_I2c.c; the CANopen build). State: the pages of the
EEPROM and their live copies, the task flags `IICFlag`, the task under way, the
panel's slot, a queue of single parameters, the unsaved mark of the fault
records, and where the power-up stands. Operations: one step per millisecond of the
task scheduler; requests from panel, serial line, network and fault records; the
power-up that reads, checks the marks and initialises an empty or outdated EEPROM.
Hard: power may fail between any two page writes, the bus may stop answering or be stuck
from the power-up on, a task clears its flag when it ends and asks for the next one of a
chain, and two chains share a task. Correct when an accepted save reaches the EEPROM, a
full reset restores every area, a power-up that reports nothing runs on sound
parameters, every power-up ends, and the store comes to rest unless its bus is stuck and
the fault says so.

How they interact: the axis gives the state machine its command and, by the pending
option code, the way it stops; the state machine answers by clearing what is pending
when the brake has closed; the fault latch hands its records to the store. The
fault interface closes the regulators and the gates of
the state machine and its error bit takes the command away in the next pass;
the state machine's `RegulFlg` lets the sequencer step; a sequencer failure calls the
fault interface once; the mailboxes start and stop the sequencer, give the servo
command while the debugger owns control (`SM_CmdInCheck`), and the PWM guard
trips a start whose permission has ended.

### Parts that are not modelled

| part | reason |
|---|---|
| automatic tests, sequences and identification of SensorlessProduction.c | left out of `SensorlessMailbox`, which has the commands that CAN and the debugger submit; identification is refused by the product build (SensorlessShadow.c:706) |
| bus voltage and relay (SV_UdcCtrl.c) | its effect, a bus lost or back in any tick, is in ServoEnable and RemoteAxis |
| overload, temperature and locked-rotor protections | integrators against limits; they appear as faults that may be raised in any tick |
| sensorless takeover probe (SensorlessTakeoverProbe.c) | its verdict is an input of the sequencer |
| CAN driver rings, Modbus frames, firmware update banks | no influence on the drive but the request or parameter a frame carries; in the plan |
| observers, current and torque loops, encoders | numerical filters and arithmetic; their verdicts (locked, good, at speed) are inputs |
| panel, scope, monitor, function-code tables | formatting and tables |
| register set-up (20_HardWare, 21_EcatHw, 22_CanopenHw) | pure I/O |
| hpm_sdk_localized_for_hpm6e00evk and the CANopen stack | vendor code: register headers, drivers, RTOS ports and generated tables. They are most of the repository's lines, and hold none of the drive's own logic |

Inside the modelled parts, left out: dynamic braking (winding short) and the
CiA 402 halt bit; targets and modes of motion; of the store, the races on
`IICFlag` (a read-modify-write that a higher context may cut) and on the rear index of a
queue, the Flash mirror of the motor parameters, the replay of `ParaInit` at power-up, a
transfer that completes after its time-out, the serial number and the tail of PF, and the bus
states of the retry and of a missing acknowledge (SV_I2c.c:213-231), which this bus driver never
sets.

## 2. Modules

| module | role |
|---|---|
| `DriveCycle` | abstract specification: the brake's cycle and who switches the drive on |
| `ServoEnable` | the 1 ms state machine, the fault interface as it sees it, the main loop's copy; implements DriveCycle |
| `MCServoEnable`, `ServoEnableProofs` | fault codes for TLC; proofs |
| `FaultLatch` | abstract specification: the highest-ranking error since the last reset |
| `FaultProtect` | the fault interface, the schedule and the reset in full |
| `MCFaultProtect`, `FaultProtectProofs` | codes for TLC; proofs |
| `RemoteAxis` | the CiA 402 axis, the command's sources and the stop by option code, over the steps of DriveCycle |
| `RemoteAxisProofs` | proofs about it |
| `StartupContract` | abstract specification: off, armed, driving, fault, and the drive |
| `SensorlessStartup` | the sequencer and the PWM interrupt around it |
| `SensorlessStartupProofs`, `SensorlessStartupTypeProofs` | proofs about it; its ranges, with a lemma per sequencer function |
| `SensorlessStartupTimeProofs` | proofs about its time: the dwell before a lost lock, how long a start and a stop may last |
| `ControlOwnership` | abstract specification: who owns control and whose motion runs |
| `SensorlessMailbox` | both mailboxes, the runs, the production commands, the PWM guard |
| `SensorlessMailboxProofs` | proofs about it |
| `ParamStore`, `ParamStoreProofs` | the EEPROM store; proofs about it |

### ServoEnable

A tick is cut into the steps between which a preemption matters; `pc` says
where it stands: power-up wait or ready judgement, brake machine, supply pins,
status machine, protections, schedule, reset. Each step is one function of
SV_StateMachine.c with all it calls, so that `FaultReset` or the final pin
writes are never optional. `PwmFault` may come between any two. The main loop
(`MainLoad`, `MainStore`) moves only while no tick is in progress, and a tick may come
between its two halves.

The run command is an arbitrary bit in each tick, an over-approximation of
`SM_CmdInCheck`: its sources and the stop flags of the field bus are in RemoteAxis, and
the stop mode here is the one of the local control. `CycleSpec` says that brake and
drive step as DriveCycle does, which leaves delays and speed open: RemoteAxis can
then use those steps in place of the whole machine. The speed is arbitrary in each tick. `svpwmOnFlg` is only ever written,
the short-circuit braking of the windings is not modelled. `offTicks` and
`faultTicks` are history variables for the bounded-time properties.

### FaultProtect

The codes are records `[disp, level, reset]`, taken from the tables of
FaultCode. A raise is two steps, the `switch` on the status read and the branch
taken; the reset is up to five. `Preemptible` says whether an interrupt may
strike inside them. With FALSE, calls are whole, which is what the code's
comments take for granted and what the runs check; with TRUE it is what the hardware does. The
proofs hold with TRUE: they name the three races that break the latch (`Torn`, section 4) and
assume nothing else of preemption. Masks and display strings are left out.

### RemoteAxis

The main loop's three calls and the tick's three parts are actions; the main loop moves
only between ticks, a level-1 error comes anywhere. The brake takes the steps
of `Drive == INSTANCE DriveCycle`, so its delays end at any time, and any property that
holds here holds for every setting of them. A state of the axis is an operator with
the transitions of its `case`, in the order of the code's tests: an error overrides the
state, a lost network is handled before the control word, a quick stop returns before the
function's flag is refreshed. The five bits of the panel are one; the bits that
`SM_CmdInCheck` clears in some branches only are kept apart, since that is where a stale
one could survive. The network state is arbitrary at each pass of the main loop.
A reset drops the pending code in the tick that grants it, and is granted with a warning only
too (SV_FaultProtect.c:129-155): warnings are no state here, so any tick may grant it.
History variables: `reason`, why the axis left OPERATION_ENABLED, or that a reset has dropped
that stop since; and `offFor`, the ticks without any source.

### SensorlessStartup

The runtime structure is one record and the sequencer's functions are operators
from a record to the next. One step of `PwmIsr` is what one PWM period does:
guard, samples, step, takeover probe, reporting of the failure, current loop. The
sample is a record of the verdicts the state's tests depend on; a verdict that a state does
not test is fixed, which loses nothing and keeps the graph small. All
requests of the 1 ms interrupt are there; the stop is cut between its
tests and its store when `Preemptible`. StartupContract has the same two steps: what a cut stop
may still do, store its state over a fault or over a start that has ended, is part of the
contract and bounded by it (the drive is off by then).

Facts of the code worth knowing when reading it: HFI is refused by the product
build (SensorlessShadow.c:647), so that the HFI states are reachable only in a
configuration of its own; no step enters `ENCODER_FALLBACK`, so the
state does not appear; a stop requested again in STOPPING restarts its dwell
and its timeout; a failure is not reported while `RegulFlg` is 0.

### SensorlessMailbox

`tick` names the next service of the 1 ms interrupt. The fields of a request
(command, key, mode, speed, duration) are chosen when it is served: nobody may
change them while it is outstanding. So sequence numbers become "outstanding"
bits, and results, exit reasons and diagnostics are left out. A debug mode is
reduced to its kind (one bounded test, a travel test, a probe, the full start),
the sequencer to the phases of StartupContract, the travel monitor to its verdict, the drive to
"regulators on and no error". Parameters are loaded, the factory test is
off and no automatic production test runs. `left` is the deadline minus the elapsed
time, so that the counter's absolute value, which wraps, is not part of the
state; the age of a heartbeat does wrap.

History variables: `by`, whose permission the start under way used, and
`beaten`, a heartbeat stored since control was last released.

### ParamStore

A page stands for an area that is written as a whole or cut inside: P1 to PD and PE/PF
are two pages each, the first with the mark or the version that the power-up tests. A
value says where a page comes from (blank, another firmware, factory, the full closed
loop's defaults, written by someone), which is all that the power-up, the resets and the
properties tell apart. The task flags are a set, the scheduler's `if` chain a priority
list, the transfer the pages left; `Begin`, `PageStep` and `Finish` are the three
phases of every task, the chains of reads and of initialising writes are functions.
`PowerLoss` keeps the EEPROM only; `BusTimeout` ends a transfer where it stands, as
the time-out branch does. A page write is atomic: the EEPROM finishes a page it has begun.
`bus` is `I2cBusState` as far as it matters: "ok" is idle and busy in turn; "stuck" is
`IIC_BUS_INITERR`, which the set-up of the bus leaves when SDA stays low (s_iic_init.c:70-76) and
nothing but a power-up ever changes; "told" is the same after its first pass has asked for the
read of everything and raised the fault (SV_I2c.c:302-312). On a stuck bus requests are taken and
queued but no transfer starts, and the software reset is refused (SV_Timer.c:144).

`owed`, `resetOwed`, `cut` and `tainted` are history variables. They say what
the store has promised, and every place where the code is known to take a promise back
removes a page from them, in the action that does it.

## 3. Runs

| run | instance | states | shows |
|---|---|---|---|
| `servo_enable` | two fault levels, three codes, delays of 1 or 2 ticks, speeds 0..2 | 1.45 M | the machine's safety, bounded stops, refinement of DriveCycle and the end of a stop, on every interleaving of a tick, a fault, the main loop |
| `charge_gate` | no faults | violation | a charge may run with blocked gates |
| `fault_protect` | four errors, two warnings, two records, whole calls | 86 k | agreement of status, code, display and record; refinement of FaultLatch; liveness of warnings and of the reset request |
| `hard_fault_reset` | whole calls, no warnings | violation | a reset may clear an error that must not be reset |
| `remote_axis` | one local source, three different option codes | 1.06 M | a drive nobody asks for stops, stops follow their option, are waited for and completed |
| `remote_quick_stop` | no local source | violation | a quick stop command may leave the drive running |
| `sensorless_startup` | all modes, no HFI, preemptible stops | 46 k | the safety of the sequencer in the product's configuration; refinement of StartupContract with stops that are cut |
| `sensorless_hfi` | the full mode with HFI | 102 k | counters in range, starts and stops end |
| `sensorless_stop_race` | two modes, preemptible stops | violation | a stop may store IDLE over FAULT |
| `sensorless_mailbox` | watchdog 2, runs up to 3, clock modulo 4, preemptible writes | 257 k | bounded runs, new heartbeats, ownership, answers |
| `sensorless_full_mode` | a bounded and the full mode | violation | a run accepted in a bounded mode may start in the full one |
| `param_store` | three kinds of EEPROM, any three requests or failures, a queue of one | 2.4 M | saves, resets and power-ups across power loss, bus time-outs and a bus stuck from power-up; the store comes to rest |

### Properties

ServoEnable: `BrakeHeld`, `CountersRunInState` and `NoStaleCharge` relate the
brake state, its output, its delays and the charge on every path, bus loss and
faults included. `StopBounded` bounds the time from the withdrawal of the
command to a closed brake in a free stop (P1-57 + P1-55 + 5 ticks); `FaultShutsDown`
does the same for a level-1 fault and includes the brake supply and the
torque. `StopCompletes` adds the main loop: both regulator flags end closed.
`CycleSpec` is the refinement of DriveCycle.

FaultProtect: `ErrorIsNamed` (status, code, display and record agree between
calls), `SupremeStays` (a non-resettable error that no
resettable code outranks survives every reset), `LatchSpec` (refinement of FaultLatch),
`WarningsRecover` (a status loses its warning bit when all warnings are
withdrawn, however errors and resets interleave), `ResetAnswered`.

RemoteAxis: `DisableStops` (after two ticks without a source the drive is off or its
brake is closing, whatever bit a source that has gone left set), `OptionHonoured` (a moving
drive that the axis stops takes the option of the axis's reason, though three parties
write the pending code; where a reset has dropped it, the stop is the free one and never another
option's), `SuspendedWaits` (an axis disabled with a stop pending waits: until a tick
completes the stop or a reset drops it, no controlword, network state or error enables
the function or changes what is pending), `PendingAnswered` (a stop of a disabled axis completes, so that
the axis is not suspended for ever).

ParamStore: `NoLostSave` (at rest, every accepted save is in the EEPROM), `ResetRestoresAll`
(after a full reset every area holds the factory values), `BootSound` (a power-up that
reports nothing runs on parameters that were all written and on no user parameters of another
firmware, wherever power failed before), `SavesEnd` (every power-up ends and the store rests,
with one exception: on a bus stuck since power-up what is asked for is never served, and then the
main program runs with the fault raised, `NeverServed`). The exceptions of each are named in its
comment.

SensorlessStartup: `NoStaleStart` (outputs belong to a start requested since the
regulators last closed), `FaultCutsDrive` and `FaultSilent` (a failure closes the
regulators in its period and is never followed by outputs, whatever a
preempted stop stores over it), `OpenLoopOnly`, `LostAfterDwell` (a lock is
lost after a dwell in a row only), `FirstFailureKept`, `ContractSpec`,
`StartEnds`, `StopEnds`.

SensorlessMailbox: `RunBounded` (a debugger's run moves only while enabled, owned and
before its deadline), `BeatAfterRelease` (CAN moves only on a heartbeat stored
since the release), `OwnershipSpec` (refinement of ControlOwnership: control
changes hands at standstill, only its owner starts), `RunEnds`,
`RequestAnswered`.

Every property has a mutant in `PROJECT.json`: a plausible slip in one definition
(a dropped guard, a missing reset, a test in the wrong order), under which
TLC finds the property violated in the same configuration.

### Bounds, and why they are enough

Delays, dwells and timeouts are compared with `>` or `>=` against a limit and
otherwise only incremented and reset. Small limits that differ where their order
matters keep every test on both sides of its limit: a limit of 1 or 2 gives "not
yet", "just now" and "past" for each counter. The proofs cover all limits.

* speeds 0..2 with STOPSPEED 1 and P1-56 at 0 distinguish stopped, slow and fast;
* the delay of a free stop (2) is longer than those of the charge and of the release (1), so that
  a command is withdrawn inside a delay and on the tick that ends it; the panel's brake override
  is allowed, and the zero-speed stop of a level-2 fault waits for a speed that is arbitrary;
* the codes of `MCFaultProtect` are a non-resettable error without a resettable one above it, a
  resettable level-1 error, a non-resettable one below it, and a level-2 one; two warnings, of
  which one is displayed. `MCServoEnable` has a non-resettable and a resettable level-1 code and
  one of level 2;
* a record ring of 2 slots wraps;
* RemoteAxis has one local source in TLC (two exceed the time of a run): the scope, whose bit is
  among those cleared in one branch only. The proofs cover all five and all option codes. The
  options 2, 3 and 4 lead to different stop flags. `OffBound` is 2 ticks: one takes the
  command away, one lets the drive see it;
* ParamStore: three events (`MaxEvents`) are enough for a failure of the initialisation that a request
  has started, followed by another failure; `QueueMax` 1 fills the queue with one save. The
  requests of the panel save one page of either kind, those of the line a dictionary,
  which is one page for each path of the code. `BootTimeout`, the 5 s limit of the power-up, comes
  only after a transfer was abandoned (a whole read takes 1.6 s) or on a stuck bus, where
  nothing else ends the wait. Any power-up may find the bus stuck, which is not an event. The proofs drop both bounds;
* SensorlessStartup's limits are 1 to 3 with `RampTimeout` above twice the hold
  time, as `ValidateConfig` requires. `CycleCap` saturates
  `state_cycles`, whose every use is a comparison with a smaller limit;
* the mailbox clock wraps at 4 with a watchdog of 2, so that an age is fresh,
  stale and fresh again after a wrap; runs of 1 to 3 ms end while waiting, while
  armed and while driving.

### Fairness, and why the code justifies it

* `ServoEnable!LiveSpec`: the timer keeps firing and an interrupt runs to its end
  (weak fairness of `Tick`); the main loop comes round between ticks, since the tick
  leaves time for it (strong fairness of its two halves, which are disabled
  during every tick). Nothing is assumed of faults, the operator or the bus:
  `StopCompletes` has their calm as its hypothesis.
* `RemoteAxis!LiveSpec`: as above for tick and main loop; the delay of a brake state ends, though
  not on a given tick (strong fairness of `BrakeMoves`): this is what `StopCompletes` and the
  bounds of ServoEnable establish for a motor that comes to a standstill.
* `ParamStore!LiveSpec`: weak fairness of `Step`: the 1 ms interrupt fires, the bus answers or
  times out, and the main program that waits at power-up runs. Requests and failures are not assumed.
* `FaultProtect!LiveSpec`: the schedule runs every tick even if judges raise
  without end (strong fairness of `Schedule`, enabled whenever the tick is between
  calls), what is begun is finished, the main loop's call gets on between
  ticks (strong, as it is preempted again and again).
* `SensorlessStartup!LiveSpec`: the PWM interrupt keeps coming, and a stop that
  was cut is finished. Nobody is assumed to press stop or to clear a fault.
* `SensorlessMailbox!LiveSpec`: weak fairness of the tick only. The debugger, the
  field bus, the drive and the PWM interrupt may do anything or nothing.

`CHECK_DEADLOCK` is on in every run but `param_store`, where requests and failures are counted
and the store rests when they are used up.

## 4. Proofs

TLC checks an instance; the theorems below hold for every value of the constants that
satisfies the named assumptions of the module (times are natural numbers,
codes are well-formed, flags are booleans).

| module | theorem | argument |
|---|---|---|
| ServoEnableProofs | `TypeCorrect` | inductive by itself; a case for each action |
| | `Invariance` | the inductive invariant `IInv` below |
| | `BrakeIsHeld`, `DelaysAreFresh`, `ChargeIsFresh`, `StopIsBounded` | consequences of `IInv` |
| | `FaultIsFinal` | a ranking of its own: by brake state and step of the tick, how many ticks a level-1 fault can have been raised |
| | `StopClockRuns` | an action property: the brake steps a stop has left, by brake state and delays, from `IInv` |
| | `ImplementsCycle` | refinement of DriveCycle: the ready judgement maps to `Sample`, the brake and status step to `Step`, all else to a stutter |
| FaultProtectProofs | `TypeCorrect` | with preemption; the value that the recovery decrements has its warning bit because nobody else writes a status while it is read |
| | `LatchStepwise` | with preemption: every step is one of the abstract latch, a stutter or one of the three races of `Torn` |
| | `ErrorNamed`, `SupremeIsFinal`, `ImplementsLatch` | for every preemption that meets none of the three races: the error bit of the status a call has read is still that of the status when the branch is taken |
| | `CodeIsRecorded` | with preemption: the store of the code and of the record are one branch, and saving moves neither |
| | `ResetPassAnswers` | with preemption: a rank on the steps of a pass, which nobody else takes |
| | `WithdrawnWarningGoes` | with preemption: the bit the pass clears is the one it tested, since errors keep it; it comes back without a warning only by a main-loop error whose call read the status before the withdrawal |
| RemoteAxisProofs | `TypeCorrect` | a case for each action |
| | `DisabledDriveStops` | the inductive invariant `OffInv` |
| | `OptionIsHonoured` | an action property, from the inductive invariant `OptInv` |
| | `DisabledAxisWaits` | an action property; the invariant `SuspendInv` keeps a disabled axis out of the two states that would enable the function |
| | `BrakeWindsDown` | an action property, from `OffInv`: how far the brake is from closed |
| | `AxisDrivesTheCycle` | refinement of DriveCycle, step by step |
| SensorlessStartupTypeProofs | `TypeCorrect` | one lemma for each function of the sequencer: record in range to record in range |
| SensorlessStartupProofs | `StaleStartsNeverDrive`, `FaultsCutTheDrive`, `FaultsAreSilent` | the inductive invariant `IInv` |
| | `FirstFailureIsKept` | an action property: every writer of the failure tests or clears it |
| | `TestsStayOpen` | under `HfiEnable = FALSE`, the product build: `OpenInv`, the states an open-loop test can reach |
| | `KeepsContract` | refinement of StartupContract under every preemption of a stop |
| SensorlessStartupTimeProofs | `LockLostAfterDwell` | an action property; the invariant says what the shared dwell counter counts in each state that uses it |
| | `FaultIsLeft` | an action property under every preemption: the writers of the state over FAULT are the clear command and the late store of a cut stop |
| | `StartIsBounded`, `StartClockRuns` | a rank of the periods left, total timeout first and the visit to RUN second |
| | `StopIsBounded`, `StopClockRuns` | the count of STOPPING against its limit |
| SensorlessMailboxProofs | `TypeCorrect` | with the lease: a run's remaining time never passes zero |
| | `Leased` | the inductive invariant `Typed /\ Lease` |
| | `RunsAreBounded`, `BeatsAreNew`, `OneMasterAtATime` | from the lease; the last one is a refinement, each action maps to one of the three abstract steps or to a stutter |
| | `RunsHaveABudget`, `RunClockRuns`, `RequestClockRuns` | ranks over the services of the tick, on top of the lease |
| ParamStoreProofs | `TypeCorrect` | the pages left of a transfer are a tail of its task's pages |
| | `BootIsSound` | the inductive invariant `IInv` |
| | `SavesAreKept` | the inductive invariant `SInv` |
| | `ResetIsComplete` | the inductive invariant `RInv` |
| | `WorkRunsOut` | a rank over the tasks asked for, the queue and the power-up, one lemma per action |
| | `PowerUpsGoOn` | the inductive invariants `ChainWaited` and, for a stuck bus, `StuckRead` |

`ServoEnable`: `IInv` is `BrakeHeld /\ CountersRunInState /\ ChargeInv /\ StopInv`.
`NoStaleCharge` speaks of the time between ticks; `ChargeInv` says what holds inside
one: the drive's old and new status differ only until the status step has seen the
edge, and a charge exists only while the old status was on. `StopBounded` needs a
ranking: `StopInv` bounds, for each brake state, how long the command can have been away
by the delay counted in that state and the limits of those before it. Each
tick without the command then either counts the delay on or moves to the next
state, and the sum of the limits is the bound.

`FaultProtect`: nothing that TLC checks of this module with whole calls is proved by assuming
them whole. `Torn` names three steps: a call that takes the branch of an error bit which has
changed since its switch read the status (`TornCall`), the decrement of a recovery that
stores over such a change (`TornRecovery`), and a reset that ends over an error it did not test
(`TornReset`). `LatchStepwise` holds whatever is preempted: these three are all that can go wrong.
The three theorems below it add that as long as none of them happens, however much else is
preempted, the properties hold; `SeqInv` says what agrees between the two stores of a reset,
`HardInv` which errors a granted reset can reach. That the hardware allows the three is the fault
of the code, and is in the list of section 5.

`SensorlessMailbox`: `RunBounded` is not inductive, since nothing in it keeps CAN's
motion apart from the debugger's ownership. The lease says that a motion
under way belongs to whoever owned control when it was started, that an enabled
run is owned and has time left, and that a valid heartbeat under CAN was
stored since the release. The last part is what makes `BeatAfterRelease`
survive a heartbeat write that the takeover cuts in two. The proof has one
lemma for each service of the tick; the start, the exit and the stop are lemmas
on their own, since several services call them.

`RemoteAxis`: a stale bit is dangerous only while some branch of `SM_CmdInCheck` keeps it. `OffInv`
says how far a drive without a source has got after one tick and after two: the bits are gone,
then the command, then the drive. `OptInv` says that the reason the axis had and what is pending belong
together until the drive has stopped: the brake ends both in one step, a reset leaves the
reason "dropped" with nothing pending, and an error that is gone, though its ready bit is still
set until the next tick, has been reset and has left no other reason.

`SensorlessStartup`: the sequencer is a function on a record, so a lemma for each of its
operators says what a call may do to the failure, the request and the outputs, and
the invariant never opens the step itself. `IInv` adds to the three properties what makes them
inductive: once a PWM period has passed, a runtime whose start is stale or whose failure is recorded
drives no outputs, and a stop that was cut belongs to a start that is no longer asked for, so
that its late store cannot bring such a runtime back (`Settled`).

`ParamStore`: `BootSound` holds at rest because of what the EEPROM looks like in the middle of a
chain. `IInv` therefore says: the version word is this firmware's only beside user parameters
that were renewed (`Version`, `MakerSaved`, which is where `tainted` enters), a rewriting
task has pages behind it that are good (`Rewriting`), and what the live pages hold while the
power-up reads or initialises (`Reading`, `Initialising`, `Sane`). `SavesAreKept` rests on "every owed
page agrees with the EEPROM or is covered by a flag, the task under way, the slot or the queue"
(`Served`), and on what sets apart the writes that do not take the live value and the record
of faults, whose flag two tasks clear (`Apart`). `ResetIsComplete` follows the chain of a reset: a page still owed
to it is restored or lies ahead in the chain (`Restoring`), as long as nothing has cleared
`ServoInit`. The three hold for any number of events and any queue; the counter appears
in the guards only.

Time. No liveness property is proved: it needs ENABLED and fairness, beyond this prover.
What makes the liveness hold is proved instead, for every value of the constants, and it says
more than the liveness does, namely how long: a rank, that every step of the fair
actor lowers it, and that no step of anybody else raises it.

* Start (`StartEnds`): `StartRank` counts the PWM periods a request has left. The
  total timeout stands still in RUN, and a start may come back from RUN when the lock is lost;
  a visit to RUN is therefore paid for in advance, `run_test_cycles` for each period
  of the timeout. Hence the bound `total_timeout * (run_test + 1) + run_test`.
* Stop (`StopEnds`, `StopCompletes`): the sequencer's count in STOPPING against its limit,
  which only another stop request sets back; the brake's own delays. The brake's rank stands still in one
  case only, a zero-speed stop whose motor turns, which is where the code waits for
  the speed and `StopCompletes` for the motor.
* Run and request (`RunEnds`, `RequestAnswered`): six services for each millisecond of the
  deadline; a request is answered by the last service of its tick.
* Reset and warning (`ResetAnswered`, `WarningsRecover`): a pass takes five steps that nothing
  undoes and has answered the request by its test; a withdrawn warning is gone after one pass.
* Pending option code (`PendingAnswered`): `DisabledAxisWaits` and `BrakeWindsDown`.
* Store (`SavesEnd`): the rank of `WorkRunsOut` gives a task of a chain the weight of all that
  follow it, counts a task once whether it is asked for or runs (its end clears the flag a
  second request has set), and weighs a reading of everything with the reads it asks for. It says
  that the steps run out between two requests or failures; `PowerUpsGoOn` says that they do not
  run out before the power-up is over.

Only model-checked: the liveness properties named in this list themselves, on the instances of
section 3. Every other property of a passing run is proved. Out of reach too is what
recursive definitions compute for every input, which needs induction over data; no module declares
a recursive operator. The properties of the five runs that end in a counterexample are
false of the code; of `FaultStays` it is proved how it is lost, by the late store of a cut stop
and by nothing else (`FaultIsLeft`).

## 5. What the runs found

Five runs end in a counterexample, each against a sentence of the repository.

1. `charge_gate`: a command that goes and comes back while the brake closes
   starts a new charge; the end of braking blocks the gates without stopping
   the charge, which ends by opening the regulators on a blocked bridge. The
   next release of the brake then finds the gates blocked.
2. `hard_fault_reset`: SV_FaultProtect.h:6 and SV_FaultProtect.c:133 say that an error whose
   code is marked so cannot be reset. Only the highest-ranking error is kept, and the rank
   follows the code, not the mark: a resettable level-1 error replaces a non-resettable
   one of a lower rank, and its reset clears both. `SupremeStays` says which errors are safe.
3. `remote_quick_stop`: the network is lost in the pass that sees the quick stop
   command. The loss has set 0x605B pending, the `return` after it is
   commented out (Canopenappl.c:312), the quick stop overrides the state and returns with
   the function enabled; from then on the pending code suspends the axis, and the
   drive runs on without network and without stop.
4. `sensorless_stop_race`: a stop request tests the state, is preempted by the
   period that enters FAULT, and stores IDLE over it. `FaultSilent` and
   `FaultCutsDrive` show what still protects the motor.
5. `sensorless_full_mode`: the debugger's entry tests the mode when it accepts a
   run, and starts it when the drive is ready. A tuning command accepted in
   between makes it a full start.

Also seen while modelling and without a run of their own; most are listed among the hazards:

* a command withdrawn during the charge leaves the gates open below STOPSPEED,
  with no torque commanded (SV_StateMachine.c:338);
* the count of the P1-57 delay survives an aborted stop, so that the next stop may close
  the brake earlier (SV_StateMachine.c:386);
* a branch to `2LOOSE` sets the brake output loose again on every tick, also just after a fault
  has set it to hold; `FaultShutsDown` bounds how long this lasts
  (SV_StateMachine.c:353);
* a level-1 fault from the PWM interrupt between `SM_ReadyJudge` and `SM_SrvStatusDeal` is
  followed by `PWMOutEnable` of the same tick; `FaultShutsDown` asks for no torque and holds
  (SV_StateMachine.c:490);
* with preemption, a status read by the fault interface before a higher context
  latched an error overwrites it (SV_FaultProtect.c:222), so does the decrement of a recovery
  (line 124), and an error latched between the reset's test and its stores is cleared
  untested (line 146); `LatchStepwise` shows that these are the only ways;
* a reset granted with no more than a warning drops the pending option code too
  (SV_FaultProtect.c:155). When the tick that does so falls between the pass of the axis that
  ordered the stop and its tail (Canopenappl.c:400), the drive makes a free stop in place of the
  ordered one, and the axis goes on without waiting for it, against the comment at
  Canopenappl.c:216;
* with SDA stuck low at power-up the drive runs on factory values with a fault raised: saves
  are taken and never made, which nothing but that fault says (SV_I2c.c:302);
* a save of the fault records while a reset is under way clears `ServoInit` and
  ends the reset before the dictionaries, which the comments at SV_I2c.c:2027 and 2029 do not
  expect (SV_I2c.c:923, `cut`);
* the version word is written before the dictionaries: a firmware update whose
  initialisation is cut in between leaves the older firmware's dictionaries for good
  (SV_I2c.c:684);
* with FullCloseMode 0 a reset leaves the live 0x6000 objects with the values of
  the full closed loop until the next power-up (SV_I2c.c:872);
* a second write of the panel replaces one that waits, and a full queue drops a save; neither
  is reported;
* a network reset reloads the dictionaries and takes back a save that was accepted and not
  yet made;
* saving PE and PF while a fault of the store is raised writes this firmware's version
  beside outdated parameters (`tainted`);
* after 49.7 days without a heartbeat its age wraps and it counts as fresh for a
  second (SensorlessCanopen.c:387).

## 6. Plan

What would come next, in order of importance:

1. **Production tests and sequences** (SensorlessProduction.c:304-374, 578-860) over
   StartupContract: a test reports exactly one verdict, a stop ends it as failed, a sequence
   never skips a point. It composes with SensorlessMailbox through the outstanding command.
2. **Bus voltage** (SV_UdcCtrl.c): precharge relay, ready flag, brake resistor; gives
   `dcLost` its real behaviour.
3. **CAN rings and Modbus frames**: no frame lost or duplicated while there is room.
4. **Firmware update** (ota.c): a bank that boots, wherever power fails.
5. **Protections** (SV_OLProtect.c): the integrators against their limits, as
   pure functions checked against a reference.
6. **Proofs** of those modules; that the ranks of section 4 and fairness give the liveness
   stays with TLC.

## 7. Running

    tlc -config ServoEnable.cfg MCServoEnable.tla
    tlc -config SensorlessMailbox.cfg SensorlessMailbox.tla
    tlc -config ParamStore.cfg ParamStore.tla
    tlapm SensorlessMailboxProofs.tla

Each `.cfg` is used with the module `PROJECT.json` names for its run. A run takes
between a second and four minutes.
