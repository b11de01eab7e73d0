------------------------ MODULE SensorlessMailboxProofs ------------------------
(***************************************************************************)
(* Proofs about SensorlessMailbox for every watchdog, deadline, counter    *)
(* width and set of modes, with and without preemption of an SDO write:    *)
(* a debugger's run is bounded, CAN moves only with a heartbeat stored     *)
(* since the last release, control changes hands at standstill only, and   *)
(* a run and a request have so many services of the tick left.             *)
(***************************************************************************)
EXTENDS SensorlessMailbox, TLAPS

\* The part of the types that the arguments below need.
Typed ==
  /\ phase \in {"idle", "armed", "driving", "fault"} /\ left \in Nat
  /\ by \in {"none", "can", "jlink"}
  /\ owner \in BOOLEAN /\ enable \in BOOLEAN /\ beatValid \in BOOLEAN /\ beaten \in BOOLEAN

\* A motion belongs to whoever owned control when it was started, a heartbeat in
\* force under CAN was stored since the release, and a run has time left.
Lease ==
  /\ enable => owner /\ left > 0
  /\ Active => by \in {"can", "jlink"}
  /\ Active /\ by = "jlink" => enable
  /\ Active /\ by = "can" => ~owner /\ beaten
  /\ beatValid /\ ~owner => beaten

IInv == Typed /\ Lease

\* The calls that only end or keep a motion keep the lease of the rest.
LEMMA PwmKeeps == IInv /\ PwmIsr => IInv'
BY DEF IInv, Typed, Lease, Active, PwmIsr, can, jlink

LEMMA TickCountKeeps == IInv /\ TickCount => IInv'
<1> SUFFICES ASSUME IInv, TickCount PROVE IInv'
  OBVIOUS
<1> USE DEF IInv, Typed, Lease, Active
<1>1. CASE Running /\ left' = 0
  <2>1. left' \in Nat /\ ~enable'
    BY <1>1 DEF TickCount, JlinkExit
  <2>2. phase' \in {"idle", "fault"} /\ ~Active'
    BY <1>1 DEF TickCount, JlinkExit, Trip
  <2>3. /\ by' \in {"none", "can", "jlink"} /\ enable' \in BOOLEAN
        /\ UNCHANGED <<owner, beatValid, beaten>>
    BY <1>1 DEF TickCount, JlinkExit
  <2> QED
    BY <2>1, <2>2, <2>3
<1>2. CASE Running /\ left' # 0
  BY <1>2 DEF TickCount, Continue, Running
<1>3. CASE ~Running
  BY <1>3 DEF TickCount, Continue, Running
<1> QED
  BY <1>1, <1>2, <1>3

LEMMA JlinkServeKeeps == IInv /\ JlinkServe => IInv'
<1> SUFFICES ASSUME IInv, JlinkServe PROVE IInv'
  OBVIOUS
<1> USE DEF IInv, Typed, Lease, Active
<1>1. CASE Abort
  BY <1>1 DEF JlinkServe, Abort, JlinkExit, Continue, Trip, StopResults
<1>2. CASE Release
  BY <1>2 DEF JlinkServe, Release, ForgetBeat
<1>3. CASE Run
  <2>1. left' \in Nat /\ left' > 0
    BY <1>3, TimesOK DEF Run
  <2>2. phase' = "idle" /\ ~Active' /\ owner' /\ enable'
    BY <1>3 DEF Run, MayRun
  <2>3. /\ by' \in {"none", "can", "jlink"} /\ beaten' \in BOOLEAN
        /\ {owner', enable', beatValid'} \subseteq BOOLEAN
    BY <1>3 DEF JlinkServe, Run
  <2> QED
    BY <2>1, <2>2, <2>3
<1>4. CASE Refuse
  BY <1>4 DEF JlinkServe, Refuse, jlink
<1> QED
  BY <1>1, <1>2, <1>3, <1>4 DEF JlinkServe

LEMMA StartKeeps ==
  ASSUME IInv, Start, UNCHANGED <<owner, enable, left, beatValid, beaten>>
  PROVE  IInv'
BY DEF IInv, Typed, Lease, Active, Start, MotionAllowed, Fresh

LEMMA ExitKeeps ==
  ASSUME IInv, JlinkExit, UNCHANGED <<by, owner, left, beatValid, beaten>>
  PROVE  IInv'
BY DEF IInv, Typed, Lease, Active, JlinkExit, Trip

LEMMA SuperviseKeeps == IInv /\ JlinkSupervise => IInv'
<1> SUFFICES ASSUME IInv, JlinkSupervise PROVE IInv'
  OBVIOUS
<1>1. UNCHANGED <<owner, left, beatValid, beaten>>
  BY DEF JlinkSupervise, can
<1>2. CASE Start /\ UNCHANGED enable
  BY <1>1, <1>2, StartKeeps
<1>3. CASE JlinkExit /\ UNCHANGED by
  BY <1>1, <1>3, ExitKeeps
<1>4. CASE Continue /\ UNCHANGED by
  BY <1>1, <1>4 DEF IInv, Typed, Lease, Active, Continue
<1> QED
  BY <1>2, <1>3, <1>4 DEF JlinkSupervise, InjectStart

LEMMA TravelKeeps == IInv /\ TravelSample => IInv'
<1> SUFFICES ASSUME IInv, TravelSample PROVE IInv'
  OBVIOUS
<1>1. UNCHANGED <<by, owner, left, beatValid, beaten>>
  BY DEF TravelSample, can
<1>2. CASE JlinkExit
  BY <1>1, <1>2, ExitKeeps
<1>3. CASE Continue
  BY <1>1, <1>3 DEF IInv, Typed, Lease, Active, Continue
<1> QED
  BY <1>2, <1>3 DEF TravelSample

LEMMA ProductionKeeps == IInv /\ ProductionService => IInv'
<1> SUFFICES ASSUME IInv, ProductionService PROVE IInv'
  OBVIOUS
<1>1. UNCHANGED <<owner, enable, left, beatValid, beaten>>
  BY DEF ProductionService, jlink
<1>2. CASE Start
  BY <1>1, <1>2, StartKeeps
<1>3. CASE UNCHANGED by /\ phase' \in {"idle", phase}
  BY <1>1, <1>3 DEF IInv, Typed, Lease, Active
<1>4. Start \/ (UNCHANGED by /\ phase' \in {"idle", phase})
  BY DEF ProductionService, ProcessCommand, ApplyTuning, StartCommand, StopCommand,
         StopResults, ClearFault, Rejected
<1> QED
  BY <1>2, <1>3, <1>4

\* The inductive invariant.  Without its last part a heartbeat write cut by the
\* debugger's takeover could be taken for one stored after the release.
THEOREM Leased == Spec => []IInv
<1>1. Init => IInv
  <2> SUFFICES ASSUME Init PROVE IInv
    OBVIOUS
  <2>1. Typed
    BY DEF Init, Typed
  <2>2. ~enable /\ ~Active /\ ~beatValid
    BY DEF Init, Active
  <2> QED
    BY <2>1, <2>2 DEF IInv, Lease
<1>2. IInv /\ [Next]_vars => IInv'
  <2> SUFFICES ASSUME IInv, [Next]_vars PROVE IInv'
    OBVIOUS
  <2>1. CASE PwmIsr
    BY <2>1, PwmKeeps
  <2>2. CASE Tick
    <3>1. CASE CanSubmit
      BY <3>1 DEF CanSubmit, IInv, Typed, Lease, Active, can, jlink
    <3> QED
      BY <2>2, <3>1, TickCountKeeps, JlinkServeKeeps, SuperviseKeeps, TravelKeeps,
         ProductionKeeps DEF Tick
  <2>3. CASE StoreBeat
    BY <2>3 DEF StoreBeat, IInv, Typed, Lease, Active, jlink
  <2>4. CASE StoreRequest
    BY <2>4 DEF StoreRequest, IInv, Typed, Lease, Active, jlink
  <2>5. CASE WriteBegin \/ JlinkPublish \/ DirectPublish
    BY <2>5 DEF WriteBegin, JlinkPublish, DirectPublish, IInv, Typed, Lease, Active, jlink, can
  <2>6. CASE DriveOn \/ DriveOff \/ AxisChange
    BY <2>6 DEF DriveOn, DriveOff, AxisChange, IInv, Typed, Lease, Active, jlink, can
  <2>7. CASE UNCHANGED vars
    BY <2>7 DEF vars, IInv, Typed, Lease, Active, jlink, can
  <2> QED
    BY <2>1, <2>2, <2>3, <2>4, <2>5, <2>6, <2>7 DEF Next
<1> QED
  BY <1>1, <1>2, PTL DEF Spec

(* -- Every variable stays in its range ------------------------------------ *)

Flags ==
  /\ drive \in BOOLEAN /\ axis \in BOOLEAN /\ pending \in BOOLEAN /\ beatValid \in BOOLEAN
  /\ asked \in BOOLEAN /\ owner \in BOOLEAN /\ enable \in BOOLEAN /\ started \in BOOLEAN
  /\ wait \in BOOLEAN /\ beaten \in BOOLEAN
Places ==
  /\ phase \in {"idle", "armed", "driving", "fault"} /\ by \in {"none", "can", "jlink"}
  /\ mode \in Modes /\ travel \in {"off", "active", "over"}
  /\ write \in {"none", "beat", "request"} /\ prod \in {"none", "can", "direct"}
  /\ tick \in {"main", "request", "run", "travel", "can", "prod"}
Times == beatAge \in 0 .. Wrap - 1 /\ left \in 0 .. MaxRun

LEMMA FlagsKeep ==
  ASSUME Flags, [Next]_vars
  PROVE  Flags'
<1> USE DEF Flags
<1>1. CASE PwmIsr
  BY <1>1 DEF PwmIsr, can, jlink, platform
<1>2. CASE TickCount
  BY <1>2 DEF TickCount, JlinkExit, Continue, Trip, platform
<1>3. CASE JlinkServe
  BY <1>3 DEF JlinkServe, Abort, Release, Run, Refuse, ForgetBeat, JlinkExit, Continue, Trip,
     StopResults, platform, jlink
<1>4. CASE JlinkSupervise
  BY <1>4 DEF JlinkSupervise, InjectStart, Start, JlinkExit, Continue, Trip, platform, can
<1>5. CASE TravelSample
  BY <1>5 DEF TravelSample, JlinkExit, Continue, Trip, platform, can
<1>6. CASE CanSubmit
  BY <1>6 DEF CanSubmit, platform, can, jlink
<1>7. CASE ProductionService
  BY <1>7 DEF ProductionService, ProcessCommand, ApplyTuning, StartCommand, Start, StopCommand,
     StopResults, ClearFault, Rejected, Answer, jlink
<1>8. CASE WriteBegin \/ StoreBeat \/ StoreRequest
  BY <1>8 DEF WriteBegin, StoreBeat, StoreRequest, platform, can, jlink
<1>9. CASE JlinkPublish \/ DirectPublish \/ DriveOn \/ DriveOff \/ AxisChange
  BY <1>9 DEF JlinkPublish, DirectPublish, DriveOn, DriveOff, AxisChange, platform, can, jlink
<1>10. CASE UNCHANGED vars
  BY <1>10 DEF vars, platform, can, jlink
<1> QED
  BY <1>1, <1>2, <1>3, <1>4, <1>5, <1>6, <1>7, <1>8, <1>9, <1>10 DEF Next, Tick

LEMMA PlacesKeep ==
  ASSUME Places, [Next]_vars
  PROVE  Places'
<1> USE DEF Places
<1>1. CASE PwmIsr
  BY <1>1 DEF PwmIsr, can, jlink, platform
<1>2. CASE TickCount
  BY <1>2 DEF TickCount, JlinkExit, Continue, Trip, platform
<1>3. CASE JlinkServe
  BY <1>3 DEF JlinkServe, Abort, Release, Run, Refuse, ForgetBeat, JlinkExit, Continue, Trip,
     StopResults, platform, jlink
<1>4. CASE JlinkSupervise
  BY <1>4 DEF JlinkSupervise, InjectStart, Start, JlinkExit, Continue, Trip, platform, can
<1>5. CASE TravelSample
  BY <1>5 DEF TravelSample, JlinkExit, Continue, Trip, platform, can
<1>6. CASE CanSubmit
  BY <1>6 DEF CanSubmit, platform, can, jlink
<1>7. CASE ProductionService
  BY <1>7 DEF ProductionService, ProcessCommand, ApplyTuning, StartCommand, Start, StopCommand,
     StopResults, ClearFault, Rejected, Answer, jlink
<1>8. CASE WriteBegin \/ StoreBeat \/ StoreRequest
  BY <1>8 DEF WriteBegin, StoreBeat, StoreRequest, platform, can, jlink
<1>9. CASE JlinkPublish \/ DirectPublish \/ DriveOn \/ DriveOff \/ AxisChange
  BY <1>9 DEF JlinkPublish, DirectPublish, DriveOn, DriveOff, AxisChange, platform, can, jlink
<1>10. CASE UNCHANGED vars
  BY <1>10 DEF vars, platform, can, jlink
<1> QED
  BY <1>1, <1>2, <1>3, <1>4, <1>5, <1>6, <1>7, <1>8, <1>9, <1>10 DEF Next, Tick

\* A run that is under way has time left (Lease), so its count never passes 0.
LEMMA TimesKeep ==
  ASSUME Times, IInv, [Next]_vars
  PROVE  Times'
<1>0. MaxRun \in Nat /\ MaxRun > 0 /\ Wrap \in Nat /\ Wrap > 0
  BY TimesOK
<1> USE <1>0 DEF Times
<1>1. CASE PwmIsr
  BY <1>1 DEF PwmIsr, can, jlink, platform
<1>2. CASE TickCount
  BY <1>2 DEF IInv, Lease, Running, TickCount, JlinkExit, Continue, Trip, platform
<1>3. CASE JlinkServe
  BY <1>3 DEF JlinkServe, Abort, Release, Run, Refuse, ForgetBeat, JlinkExit, Continue, Trip,
     StopResults, platform, jlink
<1>4. CASE JlinkSupervise
  BY <1>4 DEF JlinkSupervise, InjectStart, Start, JlinkExit, Continue, Trip, platform, can
<1>5. CASE TravelSample
  BY <1>5 DEF TravelSample, JlinkExit, Continue, Trip, platform, can
<1>6. CASE CanSubmit
  BY <1>6 DEF CanSubmit, platform, can, jlink
<1>7. CASE ProductionService
  BY <1>7 DEF ProductionService, ProcessCommand, ApplyTuning, StartCommand, Start, StopCommand,
     StopResults, ClearFault, Rejected, Answer, jlink
<1>8. CASE WriteBegin \/ StoreBeat \/ StoreRequest
  BY <1>8 DEF WriteBegin, StoreBeat, StoreRequest, platform, can, jlink
<1>9. CASE JlinkPublish \/ DirectPublish \/ DriveOn \/ DriveOff \/ AxisChange
  BY <1>9 DEF JlinkPublish, DirectPublish, DriveOn, DriveOff, AxisChange, platform, can, jlink
<1>10. CASE UNCHANGED vars
  BY <1>10 DEF vars, platform, can, jlink
<1> QED
  BY <1>1, <1>2, <1>3, <1>4, <1>5, <1>6, <1>7, <1>8, <1>9, <1>10 DEF Next, Tick

\* Every variable stays in its range for every watchdog, deadline, counter width and set
\* of modes (SensorlessCanopen_Tick1ms, jlink_service).
THEOREM TypeCorrect == Spec => []TypeOK
<1>1. TypeOK <=> Flags /\ Places /\ Times
  BY DEF TypeOK, Flags, Places, Times
<1>2. Init => TypeOK
  <2>1. Init => Flags
    BY DEF Init, Flags
  <2>2. Init => Places
    BY ModesOK DEF Init, Places
  <2>3. Init => Times
    BY TimesOK DEF Init, Times
  <2> QED
    BY <1>1, <2>1, <2>2, <2>3
<1>3. TypeOK /\ IInv /\ [Next]_vars => TypeOK'
  BY FlagsKeep, PlacesKeep, TimesKeep DEF TypeOK, Flags, Places, Times
<1> QED
  BY <1>2, <1>3, Leased, PTL DEF Spec

\* For every deadline up to MaxRun a run of the debugger moves only while it is
\* enabled and has time left (SensorlessCanopen_Tick1ms, jlink_exit).
THEOREM RunsAreBounded == Spec => []RunBounded
<1>1. IInv => RunBounded
  BY DEF IInv, Lease, RunBounded, Active
<1> QED
  BY <1>1, Leased, PTL

\* CAN never moves on a heartbeat from before the debugger's release
\* (SensorlessCanopen_Write, command 3 of jlink_service).
THEOREM BeatsAreNew == Spec => []BeatAfterRelease
<1>1. IInv => BeatAfterRelease
  BY DEF IInv, Lease, BeatAfterRelease, Active
<1> QED
  BY <1>1, Leased, PTL

(* -- The mailboxes implement ControlOwnership ------------------------------ *)

Holder == IF owner THEN "jlink" ELSE "can"
Mover == IF Active THEN by ELSE "none"
Promised == [Ownership!Next]_<<Holder, Mover>>

\* The three ways a step shows in the abstraction: the motion goes on or ends,
\* control changes hands at standstill, the owner starts.
LEMMA EndMaps ==
  ASSUME UNCHANGED owner, Active' => Active /\ by' = by
  PROVE  Promised
BY DEF Promised, Holder, Mover, Ownership!Next, Ownership!End

LEMMA HandMaps ==
  ASSUME ~Active, ~Active'
  PROVE  Promised
BY DEF Promised, Holder, Mover, Ownership!Next, Ownership!Hand

LEMMA StartMaps ==
  ASSUME Start, UNCHANGED owner
  PROVE  Promised
BY DEF Promised, Holder, Mover, Start, Active, Ownership!Next, Ownership!Start

LEMMA JlinkServeMaps == IInv /\ JlinkServe => Promised
<1> SUFFICES ASSUME IInv, JlinkServe PROVE Promised
  OBVIOUS
<1>1. CASE Abort
  <2>1. UNCHANGED <<owner, by>>
    BY <1>1 DEF JlinkServe, Abort
  <2>2. phase' \in {phase, "idle", "fault"}
    BY <1>1 DEF Abort, JlinkExit, Continue, Trip, StopResults
  <2> QED
    BY <2>1, <2>2, EndMaps DEF Active
<1>2. CASE Release
  <2>1. UNCHANGED <<phase, by>> /\ ~enable /\ owner' = FALSE
    BY <1>2 DEF JlinkServe, Release
  <2>2. CASE owner
    <3>1. ~Active
      BY <2>1, <2>2 DEF IInv, Lease
    <3> QED
      BY <2>1, <3>1, HandMaps DEF Active
  <2>3. CASE ~owner
    BY <2>1, <2>3, EndMaps DEF Active, IInv, Typed
  <2> QED
    BY <2>2, <2>3
<1>3. CASE Run
  BY <1>3, HandMaps DEF Run, MayRun, Active
<1>4. CASE Refuse
  BY <1>4, EndMaps DEF JlinkServe, Refuse, jlink, Active
<1> QED
  BY <1>1, <1>2, <1>3, <1>4 DEF JlinkServe

LEMMA TickMaps == IInv /\ Tick => Promised
<1> SUFFICES ASSUME IInv, Tick PROVE Promised
  OBVIOUS
<1>1. CASE TickCount
  BY <1>1, EndMaps DEF TickCount, JlinkExit, Trip, Continue, Active
<1>2. CASE JlinkServe
  BY <1>2, JlinkServeMaps
<1>3. CASE JlinkSupervise
  BY <1>3, EndMaps, StartMaps DEF JlinkSupervise, InjectStart, JlinkExit, Trip, Continue, Active
<1>4. CASE TravelSample
  BY <1>4, EndMaps DEF TravelSample, JlinkExit, Trip, Continue, Active
<1>5. CASE CanSubmit
  BY <1>5, EndMaps DEF CanSubmit, jlink, Active
<1>6. CASE ProductionService
  <2>1. UNCHANGED owner
    BY <1>6 DEF ProductionService, jlink
  <2>2. Start \/ (UNCHANGED by /\ phase' \in {"idle", phase})
    BY <1>6 DEF ProductionService, ProcessCommand, ApplyTuning, StartCommand, StopCommand,
                StopResults, ClearFault, Rejected
  <2> QED
    BY <2>1, <2>2, EndMaps, StartMaps DEF Active
<1> QED
  BY <1>1, <1>2, <1>3, <1>4, <1>5, <1>6 DEF Tick

\* The mailboxes keep the promise of ControlOwnership: the lease says that a motion
\* under way is the owner's, so that nobody can be given control over it.
THEOREM OneMasterAtATime == Spec => OwnershipSpec
<1>1. Init => Ownership!Init
  BY DEF Init, Ownership!Init, Active
<1>2. IInv /\ [Next]_vars => Promised
  <2> SUFFICES ASSUME IInv, [Next]_vars PROVE Promised
    OBVIOUS
  <2>1. CASE Tick
    BY <2>1, TickMaps
  <2>2. CASE PwmIsr
    BY <2>2, EndMaps DEF PwmIsr, GuardTrips, jlink, Active, IInv, Typed
  <2>3. CASE WriteBegin \/ StoreBeat \/ StoreRequest
    BY <2>3, EndMaps DEF WriteBegin, StoreBeat, StoreRequest, jlink, Active
  <2>4. CASE JlinkPublish \/ DirectPublish \/ DriveOn \/ DriveOff \/ AxisChange
    BY <2>4, EndMaps DEF JlinkPublish, DirectPublish, DriveOn, DriveOff, AxisChange, jlink, Active
  <2>5. CASE UNCHANGED vars
    BY <2>5, EndMaps DEF vars, jlink, Active
  <2> QED
    BY <2>1, <2>2, <2>3, <2>4, <2>5 DEF Next
<1> QED
  BY <1>1, <1>2, Leased, PTL DEF Spec, OwnershipSpec, Ownership!Spec, Promised, Holder, Mover

(* -- Runs end and requests are answered ---------------------------------------- *)

\* How many services of the tick are to come before the deadline next counts.
Ahead ==
  CASE tick = "request" -> 5
    [] tick = "run" -> 4
    [] tick = "travel" -> 3
    [] tick = "can" -> 2
    [] tick = "prod" -> 1
    [] tick = "main" -> 0

\* How many services a run has left at most, and how many precede the answer to a request.
RunRank == 6 * left + Ahead
AnswerRank == IF tick = "main" THEN 5 ELSE Ahead - 1

\* Every service of the tick uses up one of those a run has left, the one that accepts the
\* debugger's requests included: neither a new command, a start, a production command nor
\* an SDO write gives a run more time (SensorlessCanopen_Tick1ms, jlink_service).
RunClock ==
  [][ enable /\ enable' => IF Tick THEN RunRank' = RunRank - 1 ELSE UNCHANGED RunRank ]_vars

\* A pending CAN request is answered by the service that concludes the tick: the services
\* before it neither skip it nor start over, and nothing but an answer withdraws the request,
\* whoever has control and whatever is outstanding (SensorlessCanopen_Service1ms).
RequestClock ==
  [][ pending => IF Tick THEN (pending' /\ AnswerRank' = AnswerRank - 1) \/ (~pending' /\ AnswerRank = 0)
                 ELSE pending' /\ UNCHANGED AnswerRank ]_vars

\* One service of the tick.
LEMMA ServiceRanks ==
  ASSUME IInv, Tick
  PROVE  /\ enable /\ enable' => RunRank' = RunRank - 1
         /\ pending => (pending' /\ AnswerRank' = AnswerRank - 1) \/ (~pending' /\ AnswerRank = 0)
<1> USE DEF Ahead, RunRank, AnswerRank
<1>0. left \in Nat /\ (enable => owner)
  BY DEF IInv, Typed, Lease
<1>1. CASE TickCount
  <2>1. tick = "main" /\ tick' = "request" /\ UNCHANGED pending
    BY <1>1 DEF TickCount
  <2>2. enable => left' = left - 1
    BY <1>0, <1>1 DEF TickCount, Running
  <2> QED
    BY <1>0, <2>1, <2>2
<1>2. CASE JlinkServe
  <2>1. tick = "request" /\ tick' = "run" /\ UNCHANGED pending
    BY <1>2 DEF JlinkServe
  <2>2. enable => UNCHANGED left
    BY <1>2 DEF JlinkServe, Abort, Release, Run, MayRun, Refuse, jlink
  <2> QED
    BY <1>0, <2>1, <2>2
<1>3. CASE JlinkSupervise
  BY <1>0, <1>3 DEF JlinkSupervise, can
<1>4. CASE TravelSample
  BY <1>0, <1>4 DEF TravelSample, can
<1>5. CASE CanSubmit
  BY <1>0, <1>5 DEF CanSubmit, can, jlink
<1>6. CASE ProductionService
  BY <1>0, <1>6 DEF ProductionService, Answer, jlink
<1> QED
  BY <1>1, <1>2, <1>3, <1>4, <1>5, <1>6 DEF Tick

\* Everything else.
LEMMA OthersKeepRanks ==
  ASSUME [Next]_vars, ~Tick
  PROVE  UNCHANGED <<RunRank, AnswerRank>> /\ (pending => pending')
<1>1. CASE StoreRequest
  BY <1>1 DEF StoreRequest, jlink, RunRank, AnswerRank, Ahead
<1>2. CASE PwmIsr \/ WriteBegin \/ StoreBeat \/ JlinkPublish \/ DirectPublish \/ DriveOn \/ DriveOff
           \/ AxisChange \/ UNCHANGED vars
  <2>1. UNCHANGED <<left, tick, pending>>
    BY <1>2 DEF PwmIsr, WriteBegin, StoreBeat, JlinkPublish, DirectPublish, DriveOn, DriveOff, AxisChange,
                vars, jlink, can
  <2> QED
    BY <2>1 DEF RunRank, AnswerRank, Ahead
<1> QED
  BY <1>1, <1>2 DEF Next

\* A run of the debugger is over within six services per millisecond of its deadline.
THEOREM RunClockRuns == Spec => RunClock
<1>1. IInv /\ [Next]_vars =>
        [ enable /\ enable' => IF Tick THEN RunRank' = RunRank - 1 ELSE UNCHANGED RunRank ]_vars
  BY ServiceRanks, OthersKeepRanks
<1> QED
  BY <1>1, Leased, PTL DEF Spec, RunClock

\* A CAN request is answered within six services, the debugger in control or not.
THEOREM RequestClockRuns == Spec => RequestClock
<1>1. IInv /\ [Next]_vars =>
        [ pending => IF Tick THEN (pending' /\ AnswerRank' = AnswerRank - 1) \/ (~pending' /\ AnswerRank = 0)
                     ELSE pending' /\ UNCHANGED AnswerRank ]_vars
  BY ServiceRanks, OthersKeepRanks
<1> QED
  BY <1>1, Leased, PTL DEF Spec, RequestClock

\* An enabled run has a service left, and no more of them than the longest deadline.
RunBudget == enable => RunRank \in 1 .. 6 * MaxRun + 5

\* With RunClock: every run of the debugger is over after that many services, for every
\* deadline and whatever else asks for the drive.
THEOREM RunsHaveABudget == Spec => []RunBudget
<1>1. TypeOK /\ IInv => RunBudget
  <2> SUFFICES ASSUME TypeOK, IInv, enable PROVE RunRank \in 1 .. 6 * MaxRun + 5
    BY DEF RunBudget
  <2>1. left \in 1 .. MaxRun /\ MaxRun \in Nat
    BY TimesOK DEF TypeOK, IInv, Lease
  <2>2. Ahead \in 0 .. 5
    BY DEF TypeOK, Ahead
  <2> QED
    BY <2>1, <2>2 DEF RunRank
<1> QED
  BY <1>1, TypeCorrect, Leased, PTL DEF Spec
=============================================================================
