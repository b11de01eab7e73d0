---------------------- MODULE SensorlessStartupTypeProofs ----------------------
(***************************************************************************)
(* Type correctness of SensorlessStartup: every counter stays in its range *)
(* in every configuration, with and without preemption of a stop request.  *)
(* One lemma for each operator of the sequencer.                           *)
(***************************************************************************)
EXTENDS SensorlessStartupProofs

(* -- A runtime in its ranges ------------------------------------------------ *)

Record(r) == r = [f \in Fields |-> r[f]]
Counters(r) ==
  /\ r.cycles \in 0 .. CycleCap /\ r.total \in 0 .. TotalTimeout
  /\ r.lockGood \in 0 .. LockDwell /\ r.hfiGood \in 0 .. HfiDwell
  /\ r.hfiBad \in 0 .. UnlockDwell /\ r.unlockBad \in 0 .. UnlockDwell
  /\ r.stopGood \in 0 .. StopDwell
Flags(r) ==
  /\ r.request \in BOOLEAN /\ r.fromHfi \in BOOLEAN /\ r.hfiNew \in BOOLEAN /\ r.active \in BOOLEAN
  /\ r.failure \in Failures \cup {None}
Ranged(r) == Shaped(r) /\ Record(r) /\ Counters(r) /\ Flags(r)

\* A start still asked for has time left.
Typed(r) == Ranged(r) /\ (r.request => r.total < TotalTimeout)

LEMMA TypedRuntime ==
  ASSUME NEW r, Typed(r), r.state \in States
  PROVE  r \in Runtime
BY DEF Typed, Ranged, Shaped, Record, Counters, Flags, Runtime, Fields

LEMMA RuntimeTyped ==
  ASSUME NEW r \in Runtime, r.request => r.total < TotalTimeout
  PROVE  Typed(r)
BY DEF Typed, Ranged, Shaped, Record, Counters, Flags, Runtime, Fields

LEMMA Zeros ==
  /\ 0 \in 0 .. CycleCap /\ 0 \in 0 .. LockDwell /\ 0 \in 0 .. HfiDwell
  /\ 0 \in 0 .. UnlockDwell /\ 0 \in 0 .. StopDwell /\ 0 \in 0 .. TotalTimeout
BY ConfigOK DEF Cycles

LEMMA CountRange ==
  ASSUME NEW limit \in Nat, NEW n \in 0 .. limit, NEW c
  PROVE  Count(n, c, limit) \in 0 .. limit
BY DEF Count

LEMMA EnterTyped ==
  ASSUME NEW r, NEW s
  PROVE  /\ Ranged(r) => Ranged(Enter(r, s))
         /\ Typed(r) => Typed(Enter(r, s))
<1>1. Ranged(r) => Ranged(Enter(r, s))
  BY Zeros DEF Ranged, Shaped, Record, Fields, Counters, Flags, Enter
<1>2. Typed(r) => Typed(Enter(r, s))
  BY <1>1 DEF Typed, Ranged, Shaped, Fields, Enter
<1> QED
  BY <1>1, <1>2

\* A failed start needs no time left.
LEMMA FaultTyped ==
  ASSUME NEW r, Ranged(r) \/ Typed(r), NEW f \in Failures
  PROVE  Typed(EnterFault(r, f))
<1> DEFINE e == Enter(r, "FAULT")
<1>1. Ranged(e)
  BY EnterTyped DEF Typed
<1> HIDE DEF e
<1>2. FailureFirst(r, f) \in Failures \cup {None}
  BY DEF FailureFirst, Typed, Ranged, Flags
<1>3. Typed([e EXCEPT !.failure = FailureFirst(r, f), !.active = FALSE, !.request = FALSE])
  BY <1>1, <1>2 DEF Typed, Ranged, Shaped, Record, Fields, Counters, Flags
<1> QED
  BY <1>3 DEF EnterFault, e

LEMMA Limits == LockDwell \in Nat /\ HfiDwell \in Nat /\ UnlockDwell \in Nat /\ StopDwell \in Nat
BY ConfigOK DEF Cycles

LEMMA ActiveTyped ==
  ASSUME NEW r, Typed(r), NEW b \in BOOLEAN
  PROVE  Typed([r EXCEPT !.active = b])
BY DEF Typed, Ranged, Shaped, Record, Fields, Counters, Flags

LEMMA EndTyped ==
  ASSUME NEW r, Typed(r)
  PROVE  /\ Typed([Enter(r, "IDLE") EXCEPT !.active = FALSE, !.request = FALSE])
         /\ Typed([Enter(r, "IDLE") EXCEPT !.request = FALSE])
         /\ Typed([Enter(r, "IDLE") EXCEPT !.active = FALSE])
         /\ Typed([r EXCEPT !.request = FALSE])
<1> DEFINE e == Enter(r, "IDLE")
<1>1. Typed(e)
  BY EnterTyped
<1> HIDE DEF e
<1>2. /\ Typed([e EXCEPT !.active = FALSE, !.request = FALSE])
      /\ Typed([e EXCEPT !.request = FALSE])
      /\ Typed([e EXCEPT !.active = FALSE])
  BY <1>1 DEF Typed, Ranged, Shaped, Record, Fields, Counters, Flags
<1>3. Typed([r EXCEPT !.request = FALSE])
  BY DEF Typed, Ranged, Shaped, Record, Fields, Counters, Flags
<1> QED
  BY <1>2, <1>3 DEF e

LEMMA StoreTyped ==
  ASSUME NEW r, Typed(r), NEW branch
  PROVE  Typed(StoreStop(r, branch))
<1> DEFINE e == Enter(r, "STOPPING")
<1>1. Typed(e)
  BY EnterTyped
<1> HIDE DEF e
<1>2. Typed([e EXCEPT !.stopGood = 0])
  BY <1>1, Zeros DEF Typed, Ranged, Shaped, Record, Fields, Counters, Flags
<1>3. Typed([Enter(r, "IDLE") EXCEPT !.active = FALSE])
  BY EndTyped
<1> QED
  BY <1>2, <1>3 DEF StoreStop, e

LEMMA StopTyped ==
  ASSUME NEW r, Typed(r)
  PROVE  Typed(StopRequested(r))
BY EndTyped, StoreTyped DEF StopRequested

(* -- The states of the sequencer --------------------------------------------- *)

LEMMA IdleTyped ==
  ASSUME NEW r, Typed(r), NEW in
  PROVE  Typed(Idle(r, in))
<1> DEFINE e == Enter(r, "ALIGN")
<1>1. Typed(e)
  BY EnterTyped
<1> HIDE DEF e
<1>2. Typed([e EXCEPT !.hfiNew = FALSE, !.hfiGood = 0, !.hfiBad = 0])
  BY <1>1, Zeros DEF Typed, Ranged, Shaped, Record, Fields, Counters, Flags
<1> QED
  BY <1>2, FaultTyped DEF Idle, Failures, e

LEMMA AlignTyped ==
  ASSUME NEW r, Typed(r), NEW in
  PROVE  Typed(Align(r, in))
BY ActiveTyped, EnterTyped, EndTyped, FaultTyped DEF Align, Failures

LEMMA HfiAcquireTyped ==
  ASSUME NEW r, Typed(r), NEW in
  PROVE  Typed(HfiAcquire(r, in))
<1> DEFINE a == [r EXCEPT !.active = TRUE, !.hfiGood = Count(@, HfiGood(r, in), HfiDwell)]
           e == Enter(a, "HFI_RUN")
<1>1. Typed(a)
  BY Limits, CountRange DEF Typed, Ranged, Shaped, Record, Fields, Counters, Flags
<1> HIDE DEF a
<1>2. Typed(e)
  BY <1>1, EnterTyped
<1> HIDE DEF e
<1>3. Typed([e EXCEPT !.lockGood = 0, !.hfiBad = 0])
  BY <1>2, Zeros DEF Typed, Ranged, Shaped, Record, Fields, Counters, Flags
<1> QED
  BY <1>1, <1>3, EnterTyped, FaultTyped DEF HfiAcquire, Failures, a, e

LEMMA HfiRunTyped ==
  ASSUME NEW r, Typed(r), NEW in
  PROVE  Typed(HfiRun(r, in))
<1> DEFINE a == [r EXCEPT !.active = TRUE, !.hfiBad = Count(@, ~HfiGood(r, in), UnlockDwell)]
           b == [a EXCEPT !.lockGood = Count(@, in.speed = "fast" /\ LockGood(r, in) /\ in.agree, LockDwell)]
           e == Enter(b, "BLEND")
<1>1. Typed(a)
  BY Limits, CountRange DEF Typed, Ranged, Shaped, Record, Fields, Counters, Flags
<1> HIDE DEF a
<1>2. Typed(b)
  BY <1>1, Limits, CountRange DEF Typed, Ranged, Shaped, Record, Fields, Counters, Flags
<1> HIDE DEF b
<1>3. Typed(e)
  BY <1>2, EnterTyped
<1> HIDE DEF e
<1>4. Typed([e EXCEPT !.fromHfi = TRUE])
  BY <1>3 DEF Typed, Ranged, Shaped, Record, Fields, Counters, Flags
<1> QED
  BY <1>1, <1>2, <1>4, FaultTyped DEF HfiRun, Failures, a, b, e

LEMMA OpenLoopRampTyped ==
  ASSUME NEW r, Typed(r), NEW in
  PROVE  Typed(OpenLoopRamp(r, in))
BY ActiveTyped, EnterTyped, StopTyped, FaultTyped DEF OpenLoopRamp, Failures

LEMMA WaitLockTyped ==
  ASSUME NEW r, Typed(r), NEW in
  PROVE  Typed(WaitLock(r, in))
<1> DEFINE a == [r EXCEPT !.active = TRUE]
           b == [a EXCEPT !.lockGood = Count(@, LockGood(r, in) /\ in.agree, LockDwell)]
           e == Enter(b, "BLEND")
<1>1. Typed(a)
  BY ActiveTyped
<1> HIDE DEF a
<1>2. Typed(b)
  BY <1>1, Limits, CountRange DEF Typed, Ranged, Shaped, Record, Fields, Counters, Flags
<1> HIDE DEF b
<1>3. Typed(e)
  BY <1>2, EnterTyped
<1> HIDE DEF e
<1>4. Typed([e EXCEPT !.fromHfi = FALSE])
  BY <1>3 DEF Typed, Ranged, Shaped, Record, Fields, Counters, Flags
<1> QED
  BY <1>1, <1>2, <1>4, EndTyped, FaultTyped DEF WaitLock, Failures, a, b, e

LEMMA BlendTyped ==
  ASSUME NEW r, Typed(r), NEW in
  PROVE  Typed(Blend(r, in))
<1> DEFINE a == [r EXCEPT !.active = TRUE]
           e == Enter(a, IF r.fromHfi THEN "RUN" ELSE "IQ_HOLD")
<1>1. Typed(a)
  BY ActiveTyped
<1> HIDE DEF a
<1>2. Typed(e)
  BY <1>1, EnterTyped
<1> HIDE DEF e
<1>3. Typed([e EXCEPT !.unlockBad = 0, !.hfiGood = 0])
  BY <1>2, Zeros DEF Typed, Ranged, Shaped, Record, Fields, Counters, Flags
<1> QED
  BY <1>1, <1>3, FaultTyped DEF Blend, Failures, a, e

LEMMA ReacquireTyped ==
  ASSUME NEW r, Typed(r)
  PROVE  Typed(Reacquire(r))
<1> DEFINE e == Enter(r, "HFI_REACQUIRE")
<1>1. Typed(e)
  BY EnterTyped
<1> HIDE DEF e
<1> QED
  BY <1>1, Zeros DEF Reacquire, e, Typed, Ranged, Shaped, Record, Fields, Counters, Flags

LEMMA MonitorTyped ==
  ASSUME NEW r, Typed(r), NEW in
  PROVE  Typed(CheckRunMonitors(r, in))
<1> DEFINE a == [r EXCEPT !.unlockBad = Unlock(r, in)]
<1>1. Unlock(r, in) \in 0 .. UnlockDwell
  BY Limits, CountRange DEF Unlock, Typed, Ranged, Counters
<1>2. Typed(a)
  BY <1>1 DEF Typed, Ranged, Shaped, Record, Fields, Counters, Flags
<1> HIDE DEF a
<1> QED
  BY <1>2, ReacquireTyped, FaultTyped DEF CheckRunMonitors, Failures, a

LEMMA IqHoldTyped ==
  ASSUME NEW r, Typed(r), NEW in
  PROVE  Typed(IqHoldStep(r, in))
BY ActiveTyped, MonitorTyped, EnterTyped DEF IqHoldStep

LEMMA RunTyped ==
  ASSUME NEW r, Typed(r), NEW in
  PROVE  Typed(Run(r, in))
BY ActiveTyped, MonitorTyped, ReacquireTyped, StopTyped DEF Run

LEMMA HfiReacquireTyped ==
  ASSUME NEW r, Typed(r), NEW in
  PROVE  Typed(HfiReacquire(r, in))
<1> DEFINE a == [r EXCEPT !.active = TRUE]
           b == [a EXCEPT !.hfiGood = Count(@, HfiGood(r, in) /\ in.agree, HfiDwell), !.unlockBad = Unlock(r, in)]
           e == Enter(a, "RUN")
<1>1. Typed(a)
  BY ActiveTyped
<1> HIDE DEF a
<1>2. Unlock(r, in) \in 0 .. UnlockDwell
  BY Limits, CountRange DEF Unlock, Typed, Ranged, Counters
<1>3. Typed(b)
  BY <1>1, <1>2, Limits, CountRange DEF Typed, Ranged, Shaped, Record, Fields, Counters, Flags
<1> HIDE DEF b
<1>4. Typed(e)
  BY <1>1, EnterTyped
<1> HIDE DEF e
<1>5. Typed([e EXCEPT !.unlockBad = 0])
  BY <1>4, Zeros DEF Typed, Ranged, Shaped, Record, Fields, Counters, Flags
<1> QED
  BY <1>3, <1>5, EnterTyped, FaultTyped DEF HfiReacquire, Failures, a, b, e

LEMMA BlendToHfiTyped ==
  ASSUME NEW r, Typed(r), NEW in
  PROVE  Typed(BlendToHfi(r, in))
<1> DEFINE a == [r EXCEPT !.active = TRUE]
           d == Enter(r, "HFI_REACQUIRE")
           e == Enter(a, "HFI_RUN")
<1>1. Typed(a)
  BY ActiveTyped
<1> HIDE DEF a
<1>2. Typed(d) /\ Typed(e)
  BY <1>1, EnterTyped
<1> HIDE DEF d, e
<1>3. Typed([d EXCEPT !.hfiGood = 0]) /\ Typed([e EXCEPT !.hfiBad = 0, !.lockGood = 0])
  BY <1>2, Zeros DEF Typed, Ranged, Shaped, Record, Fields, Counters, Flags
<1> QED
  BY <1>1, <1>3, EnterTyped DEF BlendToHfi, a, d, e

LEMMA StoppingTyped ==
  ASSUME NEW r, Typed(r), NEW in
  PROVE  Typed(Stopping(r, in))
<1> DEFINE a == [r EXCEPT !.active = TRUE, !.stopGood = Count(@, in.settled, StopDwell)]
<1>1. Typed(a)
  BY Limits, CountRange DEF Typed, Ranged, Shaped, Record, Fields, Counters, Flags
<1> HIDE DEF a
<1> QED
  BY <1>1, EnterTyped, FaultTyped DEF Stopping, Failures, a

LEMMA HandleTyped ==
  ASSUME NEW r, Typed(r), r.state \in States, NEW in
  PROVE  Typed(Handle(r, in))
BY IdleTyped, AlignTyped, HfiAcquireTyped, HfiRunTyped, OpenLoopRampTyped, WaitLockTyped, BlendTyped,
   IqHoldTyped, RunTyped, HfiReacquireTyped, BlendToHfiTyped, StoppingTyped
   DEF Handle, States, HfiStates, ClosedStates

(* -- The step and the actions ------------------------------------------------- *)

LEMMA PrologueTyped ==
  ASSUME NEW r, Typed(r), NEW in
  PROVE  Typed(Prologue(r, in))
<1> DEFINE p == [r EXCEPT !.active = FALSE, !.cycles = IF @ < CycleCap THEN @ + 1 ELSE @,
                          !.hfiNew = @ \/ in.hfiFault, !.total = IF TotalCounts(r) THEN @ + 1 ELSE @]
           q == IF TotalCounts(r) /\ p.total >= TotalTimeout THEN EnterFault(p, "START_TIMEOUT") ELSE p
<1>1. (IF r.cycles < CycleCap THEN r.cycles + 1 ELSE r.cycles) \in 0 .. CycleCap
  BY ConfigOK DEF Typed, Ranged, Counters, Cycles
<1>2. (IF TotalCounts(r) THEN r.total + 1 ELSE r.total) \in 0 .. TotalTimeout
  BY ConfigOK DEF Typed, Ranged, Counters, Cycles, TotalCounts
<1>3. (r.hfiNew \/ in.hfiFault) \in BOOLEAN
  OBVIOUS
<1>4. Ranged(p)
  BY <1>1, <1>2, <1>3 DEF Typed, Ranged, Shaped, Record, Fields, Counters, Flags
<1>5. ~TotalCounts(r) => Typed(p)
  BY <1>4 DEF Typed, Ranged, Shaped, Fields
<1>6. ~(p.total >= TotalTimeout) => Typed(p)
  BY <1>4, ConfigOK DEF Typed, Ranged, Counters, Cycles
<1> HIDE DEF p
<1>7. Typed(q)
  BY <1>4, <1>5, <1>6, FaultTyped DEF Failures
<1> HIDE DEF q
<1> QED
  BY <1>7, FaultTyped DEF Prologue, Failures, p, q

LEMMA StepTyped ==
  ASSUME NEW r, Typed(r), Sound(r), NEW in
  PROVE  Typed(Step(r, in))
<1> DEFINE p == Prologue(r, in)
           h == Handle(p, in)
<1>1. Typed(p) /\ p.state \in States
  BY PrologueTyped, PrologueLeads DEF Leads, Sound
<1> HIDE DEF p
<1>2. Typed(h)
  BY <1>1, HandleTyped
<1> HIDE DEF h
<1> QED
  BY <1>2, EndTyped, FaultTyped DEF Step, Probe, Failures, p, h

LEMMA InitTyped ==
  /\ Typed(InitRuntime) /\ Typed([InitRuntime EXCEPT !.request = TRUE])
  /\ \A f \in Failures \cup {None} : Typed([InitRuntime EXCEPT !.failure = f])
<1>1. Typed(InitRuntime)
  BY Zeros DEF InitRuntime, Typed, Ranged, Shaped, Record, Fields, Counters, Flags
<1>2. 0 < TotalTimeout /\ InitRuntime.total = 0
  BY ConfigOK DEF Cycles, InitRuntime
<1>3. Typed([InitRuntime EXCEPT !.request = TRUE])
  BY <1>1, <1>2 DEF Typed, Ranged, Shaped, Record, Fields, Counters, Flags
<1>4. \A f \in Failures \cup {None} : Typed([InitRuntime EXCEPT !.failure = f])
  BY <1>1 DEF Typed, Ranged, Shaped, Record, Fields, Counters, Flags
<1> QED
  BY <1>1, <1>3, <1>4

TInv == TypeOK /\ Typed(runtime)

LEMMA PwmTyped ==
  ASSUME IInv, TInv, PwmIsr
  PROVE  Typed(runtime)'
<1>1. PICK lease \in BOOLEAN, currentOk \in BOOLEAN, in \in Samples(runtime.state) :
       LET guarded == PwmGuard(runtime, lease /\ regul /\ ~err)
           r     == IF regul THEN Step(guarded, in) ELSE DriveLost(guarded)
       IN  runtime' \in {EnterFault(r, "CURRENT"), r}
  BY DEF PwmIsr
<1> DEFINE guarded == PwmGuard(runtime, lease /\ regul /\ ~err)
           r     == IF regul THEN Step(guarded, in) ELSE DriveLost(guarded)
<1>2. Typed(guarded) /\ Sound(guarded)
  BY FaultTyped, GuardLeads DEF PwmGuard, Leads, IInv, TInv, Failures
<1> HIDE DEF guarded
<1>3. Typed(r)
  BY <1>2, StepTyped, FaultTyped DEF DriveLost, Failures
<1> HIDE DEF r
<1>4. Typed(EnterFault(r, "CURRENT"))
  BY <1>3, FaultTyped DEF Failures
<1> QED
  BY <1>1, <1>3, <1>4 DEF guarded, r

LEMMA StepTypedRuntime ==
  IInv /\ TInv /\ [Next]_vars => Typed(runtime)'
<1> SUFFICES ASSUME IInv, TInv, [Next]_vars PROVE Typed(runtime)'
  OBVIOUS
<1> USE DEF TInv
<1>1. CASE PwmIsr
  BY <1>1, PwmTyped
<1>2. CASE RequestStart
  BY <1>2, InitTyped DEF RequestStart
<1>3. CASE StopTest
  BY <1>3, EndTyped DEF StopTest
<1>4. CASE StopStore
  BY <1>4, StoreTyped DEF StopStore
<1>5. CASE ClearFault
  <2> DEFINE b == IF runtime.state = "FAULT" THEN [Enter(runtime, "IDLE") EXCEPT !.request = FALSE]
                  ELSE runtime
  <2>1. Typed(b)
    BY EndTyped
  <2> HIDE DEF b
  <2>2. Typed([b EXCEPT !.failure = None])
    BY <2>1 DEF Typed, Ranged, Shaped, Record, Fields, Counters, Flags
  <2> QED
    BY <1>5, <2>2 DEF ClearFault, b
<1>6. CASE Configure
  BY <1>6, InitTyped DEF Configure, Typed, Ranged, Flags
<1>7. CASE Revoke
  BY <1>7, FaultTyped DEF Revoke, Failures
<1>8. CASE DriveFault \/ DriveOff \/ DriveOn \/ FaultReset \/ UpdateTarget
  BY <1>8 DEF DriveFault, DriveOff, DriveOn, FaultReset, UpdateTarget
<1>9. CASE UNCHANGED vars
  BY <1>9 DEF vars
<1> QED
  BY <1>1, <1>2, <1>3, <1>4, <1>5, <1>6, <1>7, <1>8, <1>9 DEF Next

LEMMA StepTInv == IInv /\ TInv /\ [Next]_vars => TInv'
<1> SUFFICES ASSUME IInv, TInv, [Next]_vars PROVE TInv'
  OBVIOUS
<1>1. Typed(runtime)' /\ IInv'
  BY StepTypedRuntime, StepIInv
<1>2. runtime' \in Runtime
  BY <1>1, TypedRuntime DEF IInv, Sound
<1>3. mode' \in Modes
  BY DEF TInv, TypeOK, Next, vars, PwmIsr, DriveFault, RequestStart, UpdateTarget, StopTest, StopStore, ClearFault,
         Configure, Revoke, DriveOn, DriveOff, FaultReset
<1>4. pc' \in {"idle", "toIdle", "toStopping"}
  BY DEF TInv, TypeOK, Next, vars, PwmIsr, DriveFault, RequestStart, UpdateTarget, StopTest, StopStore, ClearFault,
         Configure, Revoke, DriveOn, DriveOff, FaultReset, StopBranch
<1>5. badRun' \in 0 .. UnlockDwell
  BY Limits, CountRange, Zeros
     DEF TInv, TypeOK, Next, vars, PwmIsr, DriveFault, RequestStart, UpdateTarget, StopTest, StopStore, ClearFault,
         Configure, Revoke, DriveOn, DriveOff, FaultReset
<1>6. {targetFast, owned, hookSent, regul, err, due, stale}' \subseteq BOOLEAN
  BY DEF TInv, TypeOK, Next, vars, PwmIsr, DriveFault, RequestStart, UpdateTarget, StopTest, StopStore, ClearFault,
         Configure, Revoke, DriveOn, DriveOff, FaultReset, driveVars
<1> QED
  BY <1>1, <1>2, <1>3, <1>4, <1>5, <1>6 DEF TInv, TypeOK

\* Every counter of the sequencer stays in its range, for every configuration, also when a
\* stop is preempted: no dwell passes its limit.
THEOREM TypeCorrect == Spec => []TypeOK
<1>1. Init => TInv
  BY InitTyped, InitSound, TypedRuntime, Zeros DEF Init, TInv, TypeOK, Sound
<1>2. TInv => TypeOK
  BY DEF TInv
<1> QED
  BY <1>1, <1>2, InitIInv, StepIInv, StepTInv, PTL DEF Spec
=============================================================================
