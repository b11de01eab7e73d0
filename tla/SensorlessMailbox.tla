-------------------------- MODULE SensorlessMailbox --------------------------
(***************************************************************************)
(* Who may move the sensorless motor: the CAN and debugger mailboxes of    *)
(* SensorlessCanopen.c and the production commands they submit.  Four      *)
(* actors: the SDO server in the main loop writes the CAN mailbox; the 1   *)
(* ms interrupt serves the debugger's request, its run, the CAN request    *)
(* and the production command, in that order; the PWM interrupt preempts   *)
(* both and checks the permission to move; the debugger writes RAM at any  *)
(* time.                                                                   *)
(*                                                                         *)
(* The sequencer is reduced to the phases of StartupContract, a debug mode *)
(* to its kind, the travel monitor to its verdict.  The fields of a        *)
(* request are chosen when it is served: they cannot change while it is    *)
(* outstanding.  Sequence numbers, results and exit reasons are left out.  *)
(* Parameters are loaded, SysFtest is off and no production test runs, so  *)
(* that every tick reaches the services.                                   *)
(***************************************************************************)
EXTENDS Naturals

CONSTANTS
  Watchdog,   \* SL_CAN_WATCHDOG_MS
  MaxRun,     \* SL_JLINK_MAX_MS
  Wrap,       \* the millisecond counter's modulus, 2^32
  Modes,      \* debug modes in use
  Preemptible \* an SDO write is cut between its tests and its stores

ASSUME TimesOK == {Watchdog, MaxRun, Wrap} \subseteq Nat \ {0} /\ Watchdog < Wrap
ASSUME ModesOK == Modes \subseteq {"bounded", "travel", "probe", "full"} /\ "bounded" \in Modes
ASSUME PreemptibleOK == Preemptible \in BOOLEAN

Commands == {"tuning", "start", "stop", "clear"}

VARIABLES
  phase, by,      \* the sequencer; history: whose permission its start used
  mode,           \* startup.config.debug_mode
  drive, axis,    \* regulators on, no error; CiA 402 axis enabled and operational
  pending,        \* a CAN request not yet answered
  beatValid, beatAge,  \* heartbeat_valid; g_sl_can_elapsed_ms - heartbeat_ms
  write,          \* the SDO write between its tests and its stores
  asked,          \* the debugger's request_seq differs from acknowledge_seq
  owner, enable, started, wait,  \* jl_*
  left,           \* jl_limit - (g_sl_can_elapsed_ms - jl_begin) while enabled
  travel,         \* g_sl_travel: "off", "active", or "over" once it has a reason
  prod,           \* production command outstanding, and who submitted it
  tick,           \* the next service of the 1 ms interrupt, or "main"
  beaten          \* history: a heartbeat since control was last released

platform == <<mode, drive, axis>>
can == <<pending, beatValid, beatAge>>
jlink == <<owner, enable, started, wait, left, travel>>
vars == <<phase, by, platform, can, write, asked, jlink, prod, tick, beaten>>

\* SensorlessCanopen_Init
Init ==
  /\ phase = "idle" /\ by = "none" /\ mode = "bounded" /\ drive = FALSE /\ axis = FALSE
  /\ pending = FALSE /\ beatValid = FALSE /\ beatAge = 0 /\ write = "none" /\ asked = FALSE
  /\ owner = FALSE /\ enable = FALSE /\ started = FALSE /\ wait = FALSE /\ left = 0
  /\ travel = "off" /\ prod = "none" /\ tick = "main" /\ beaten = FALSE

Active == phase \in {"armed", "driving"}

(* -- Permission to move ---------------------------------------------------- *)

PlatformOff == ~drive /\ ~axis
Fresh == beatValid /\ beatAge < Watchdog
TravelMode == mode \in {"travel", "probe"}

\* SensorlessCanopen_MotionAllowed
MotionAllowed ==
  /\ TravelMode => owner /\ travel = "active"
  /\ IF owner THEN enable /\ left > 0 /\ drive ELSE Fresh /\ drive /\ axis

\* The PWM interrupt: SensorlessCanopen_PwmGuard, then a step of the sequencer,
\* which closes the regulators when it reports a fault.
GuardTrips == Active /\ ~MotionAllowed
PwmIsr ==
  /\ phase' \in CASE GuardTrips -> {"fault"}
                  [] Active /\ ~GuardTrips -> {phase, "driving", "idle", "fault"}
                  [] OTHER -> {phase}
  /\ drive' \in IF phase' = "fault" THEN {drive, FALSE} ELSE {drive}
  /\ UNCHANGED <<by, mode, axis, can, write, asked, jlink, prod, tick, beaten>>

(* -- The main loop: SensorlessCanopen_Write -------------------------------- *)

\* The tests of a write of request_seq or of a new heartbeat counter ...
Reserved == owner \/ asked
WriteBegin ==
  /\ tick = "main" /\ write = "none" /\ ~Reserved
  /\ write' \in {"beat"} \cup (IF pending THEN {} ELSE {"request"})
  /\ UNCHANGED <<phase, by, platform, can, asked, jlink, prod, tick, beaten>>

\* ... and its stores.
StoreBeat ==
  /\ tick = "main" /\ write = "beat" /\ write' = "none"
  /\ beatValid' = TRUE /\ beatAge' = 0 /\ beaten' = TRUE
  /\ UNCHANGED <<phase, by, platform, pending, asked, jlink, prod, tick>>
StoreRequest ==
  /\ tick = "main" /\ write = "request" /\ write' = "none"
  /\ pending' = TRUE
  /\ UNCHANGED <<phase, by, platform, beatValid, beatAge, asked, jlink, prod, tick, beaten>>

(* -- The 1 ms interrupt ---------------------------------------------------- *)

\* jlink_exit: the run is over; a start under way is tripped.
TripDriving == IF phase = "driving" THEN "fault" ELSE phase
Trip == IF Active THEN "fault" ELSE phase
JlinkExit == enable' = FALSE /\ wait' = FALSE /\ phase' = Trip
Continue == UNCHANGED <<enable, wait, phase>>

\* SensorlessStartup_RequestStop: at once, or through STOPPING.
StopResults == CASE phase = "armed" -> {"idle"}
                 [] phase = "driving" -> {"idle", "driving"}
                 [] OTHER -> {phase}

\* SensorlessCanopen_Tick1ms
RunningOwned == owner
RunningStarted == owner /\ enable /\ started
Running == owner /\ enable
TickCount ==
  /\ tick = "main" /\ (Preemptible \/ write = "none") /\ tick' = "request"
  /\ by' = IF Active THEN by ELSE "none"
  /\ beatAge' = IF beatValid THEN (beatAge + 1) % Wrap ELSE beatAge
  /\ left' = IF Running THEN left - 1 ELSE 0
  /\ IF Running /\ left' = 0 THEN JlinkExit ELSE Continue
  /\ UNCHANGED <<platform, pending, beatValid, write, asked, owner, started, travel, prod, beaten>>

\* jlink_service, command 2.  A probe that runs is asked to stop.
Abort ==
  /\ IF Running /\ started /\ mode = "probe" THEN phase' \in StopResults /\ UNCHANGED <<enable, wait>>
     ELSE IF owner THEN JlinkExit ELSE Continue
  /\ UNCHANGED <<owner, started, left, travel, beatValid, beatAge, beaten>>

\* Command 3: control returns to CAN, which needs a new heartbeat.
ForgetBeatNever == UNCHANGED <<beatValid, beatAge>>
ForgetBeat == beatValid' = FALSE /\ beatAge' = 0
Release ==
  /\ ~enable /\ PlatformOff
  /\ owner' = FALSE /\ ForgetBeat /\ beaten' = (beaten /\ ~owner)
  /\ UNCHANGED <<phase, enable, started, wait, left, travel>>

\* Command 1: at standstill, with nothing else under way.
MayRunMoving ==
  ~enable /\ travel = "off" /\ ~pending /\ prod = "none" /\ PlatformOff /\ mode # "full"
MayRun ==
  /\ ~enable /\ travel = "off" /\ ~pending /\ prod = "none" /\ phase = "idle"
  /\ PlatformOff /\ mode # "full"
Run ==
  /\ MayRun
  /\ owner' = TRUE /\ enable' = TRUE /\ started' = FALSE /\ wait' = TRUE
  /\ left' \in 1 .. MaxRun
  /\ travel' = IF TravelMode THEN "active" ELSE "off"
  /\ beatValid' = FALSE /\ beatAge' = 0
  /\ UNCHANGED <<phase, beaten>>

\* A wrong key, command, parameter or state.
Refuse == UNCHANGED <<phase, jlink, beatValid, beatAge, beaten>>

\* jlink_service up to its acknowledgement.
JlinkServe ==
  /\ tick = "request" /\ tick' = "run" /\ asked' = FALSE
  /\ IF asked THEN Abort \/ Release \/ Run \/ Refuse ELSE Refuse
  /\ UNCHANGED <<by, platform, pending, write, prod>>

\* SensorlessProduction_Start, when the command's values are accepted.
Start == drive /\ phase = "idle" /\ MotionAllowed /\ phase' = "armed"
           /\ by' = IF owner THEN "jlink" ELSE "can"

\* The rest of jlink_service supervises the run: its end, or its one start, which
\* takes the place of a production command outstanding.
Ended == phase = "fault" \/ (started /\ phase = "idle")
InjectStart ==
  /\ prod' = "none"
  /\ \/ Start /\ wait' = FALSE /\ started' = TRUE /\ UNCHANGED enable
     \/ JlinkExit /\ UNCHANGED <<by, started>>
JlinkSupervise ==
  /\ tick = "run" /\ tick' = "travel"
  /\ CASE Running /\ Ended -> JlinkExit /\ UNCHANGED <<by, started, prod>>
       [] Running /\ ~Ended /\ wait /\ drive -> InjectStart
       [] OTHER -> Continue /\ UNCHANGED <<by, started, prod>>
  /\ UNCHANGED <<platform, can, write, asked, owner, left, travel, beaten>>

\* SlTravel_Sample and the exit on its reason; the monitor stays active for a
\* second after the run.
TravelSample ==
  /\ tick = "travel" /\ tick' = "can"
  /\ travel' \in CASE travel = "off" -> {"off"}
                   [] travel # "off" /\ enable -> {travel, "over"}
                   [] OTHER -> {travel, "over", "off"}
  /\ IF enable /\ travel' = "over" THEN JlinkExit ELSE Continue
  /\ UNCHANGED <<by, platform, can, write, asked, owner, started, left, prod, beaten>>

\* SensorlessCanopen_Service1ms: the CAN request is submitted as a production
\* command, or answered: busy, or not ready for a start without permission.
CanSubmit ==
  /\ tick = "can" /\ tick' = "prod"
  /\ prod' \in CASE ~pending \/ prod # "none" -> {prod}
                 [] pending /\ prod = "none" /\ MotionAllowed -> {"can"}
                 [] OTHER -> {"can", "none"}
  /\ UNCHANGED <<phase, by, platform, can, write, asked, jlink, beaten>>

\* SensorlessProduction_ProcessCommand, for the commands CAN may send.
ApplyTuning ==
  /\ ~drive /\ phase \in {"idle", "armed"}
  /\ phase' = "idle" /\ mode' \in Modes /\ UNCHANGED by
StartCommand == Start /\ UNCHANGED mode
StopCommand == phase' \in StopResults /\ UNCHANGED <<by, mode>>
ClearFault ==
  /\ ~drive /\ phase = "fault"
  /\ phase' = "idle" /\ UNCHANGED <<by, mode>>
Rejected == UNCHANGED <<phase, by, mode>>
ProcessCommand == ApplyTuning \/ StartCommand \/ StopCommand \/ ClearFault \/ Rejected

AnswerSubmitted == pending' = (pending /\ prod # "can")
Answer == pending' = FALSE

\* SensorlessProduction_Service1ms; the CAN request is answered in the same tick.
ProductionService ==
  /\ tick = "prod" /\ tick' = "main"
  /\ IF prod # "none" THEN ProcessCommand ELSE Rejected
  /\ prod' = "none" /\ Answer
  /\ UNCHANGED <<drive, axis, beatValid, beatAge, write, asked, jlink, beaten>>

(* -- The debugger and the servo state machine ------------------------------ *)

JlinkPublish ==
  /\ ~asked /\ asked' = TRUE
  /\ UNCHANGED <<phase, by, platform, can, write, jlink, prod, tick, beaten>>

\* The debugger also writes the production mailbox itself, one command at a time.
DirectPublish ==
  /\ prod = "none" /\ prod' = "direct"
  /\ UNCHANGED <<phase, by, platform, can, write, asked, jlink, tick, beaten>>

\* StateMachine_Process runs between the count and the services.  The debugger as
\* owner supplies the servo command; otherwise it comes from any of its sources.
Commanded == owner => enable
DriveOn ==
  /\ tick = "request" /\ Commanded /\ ~drive /\ drive' = TRUE
  /\ UNCHANGED <<phase, by, mode, axis, can, write, asked, jlink, prod, tick, beaten>>
\* A fault closes the regulators at any time.
DriveOff ==
  /\ drive /\ drive' = FALSE
  /\ UNCHANGED <<phase, by, mode, axis, can, write, asked, jlink, prod, tick, beaten>>
AxisChange ==
  /\ tick = "main" /\ axis' = ~axis
  /\ UNCHANGED <<phase, by, mode, drive, can, write, asked, jlink, prod, tick, beaten>>

Tick == TickCount \/ JlinkServe \/ JlinkSupervise \/ TravelSample \/ CanSubmit \/ ProductionService

Next ==
  \/ PwmIsr \/ Tick \/ WriteBegin \/ StoreBeat \/ StoreRequest
  \/ JlinkPublish \/ DirectPublish \/ DriveOn \/ DriveOff \/ AxisChange

Spec == Init /\ [][Next]_vars
LiveSpec == Spec /\ WF_vars(Tick)

(* -- Properties ------------------------------------------------------------ *)

\* Every variable stays in its range; the remaining time of a run never passes 0.
TypeOK ==
  /\ phase \in {"idle", "armed", "driving", "fault"} /\ by \in {"none", "can", "jlink"}
  /\ mode \in Modes /\ travel \in {"off", "active", "over"}
  /\ drive \in BOOLEAN /\ axis \in BOOLEAN /\ pending \in BOOLEAN /\ beatValid \in BOOLEAN
  /\ asked \in BOOLEAN /\ owner \in BOOLEAN /\ enable \in BOOLEAN /\ started \in BOOLEAN
  /\ wait \in BOOLEAN /\ beaten \in BOOLEAN
  /\ beatAge \in 0 .. Wrap - 1 /\ left \in 0 .. MaxRun
  /\ write \in {"none", "beat", "request"} /\ prod \in {"none", "can", "direct"}
  /\ tick \in {"main", "request", "run", "travel", "can", "prod"}

\* A run of the debugger moves only while it is enabled and before its deadline,
\* which counts from the acceptance of the command, waiting included.
RunBounded == Active /\ by = "jlink" => owner /\ enable /\ left > 0

\* After the debugger has released control, CAN moves only with a heartbeat stored
\* after that release, although a heartbeat write may be cut by the takeover.
BeatAfterRelease == Active /\ by = "can" => beaten

\* Control changes hands at standstill only, and the owner alone starts.
Ownership == INSTANCE ControlOwnership WITH
  owner <- IF owner THEN "jlink" ELSE "can",
  mover <- IF Active THEN by ELSE "none"
OwnershipSpec == Ownership!Spec

\* A debugger's run ends by itself, whatever the debugger and the field bus do.
RunEnds == enable ~> ~enable

\* A CAN request is answered, though the debugger takes control meanwhile.
RequestAnswered == pending ~> ~pending

\* The debugger's entry runs the bounded tests only, never the full start.
JlinkBounded == Active /\ by = "jlink" => mode # "full"
=============================================================================
