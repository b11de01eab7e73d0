---------------------- MODULE SensorlessStartupTimeProofs ----------------------
(***************************************************************************)
(* The time in SensorlessStartup, for every configuration: how many PWM    *)
(* periods a start and a stop may take, that the lock is lost only after a *)
(* whole dwell, and that, with whole stop requests, FAULT is left by the   *)
(* clear command alone.  The liveness of StartEnds and StopEnds follows    *)
(* from the ranks bounded here and from the fairness of the PWM interrupt. *)
(***************************************************************************)
EXTENDS SensorlessStartupTypeProofs, Integers

(* -- The ranks and what is proved of them ------------------------------------ *)

\* The PWM periods a requested start has left at most: a visit to RUN, where the total
\* timeout is stopped, lasts RunTest of them.
RunLeft(r) == IF r.state = "RUN" THEN RunTest - r.cycles ELSE 0
StartRank(r) == (TotalTimeout - r.total) * (RunTest + 1) + RunLeft(r)

\* A requested start has a finite number of periods left, and at most so many from the
\* request on.
StartBounded == runtime.request => StartRank(runtime) \in 1 .. TotalTimeout * (RunTest + 1) + RunTest

\* While a start is asked for, every PWM period uses up some of them, and nothing the
\* 1 ms interrupt or the drive does gives any back.
StartClock ==
  [][runtime.request /\ runtime'.request =>
       /\ StartRank(runtime') <= StartRank(runtime)
       /\ PwmIsr => StartRank(runtime') < StartRank(runtime)]_vars

\* STOPPING lasts less than stop_timeout_cycles periods ...
StopBounded == runtime.state = "STOPPING" => runtime.cycles < StopTimeout

\* ... each of them counts, and only the store of another stop request starts again.
StopClock ==
  [][runtime.state = "STOPPING" /\ runtime'.state = "STOPPING" /\ ~StopStore =>
       /\ runtime'.cycles >= runtime.cycles
       /\ PwmIsr => runtime'.cycles = runtime.cycles + 1]_vars

(* -- One call of the sequencer ------------------------------------------------ *)

LockStates == {"IQ_HOLD", "RUN"}

\* a is r with the same state and times.
Same(r, a) ==
  /\ Shaped(a) /\ a.state = r.state /\ a.cycles = r.cycles /\ a.total = r.total
  /\ a.failure = r.failure

\* From r, with its periods already counted, to s: no time is given back, a new visit of
\* RUN or STOPPING begins at 0, and one that goes on is below its limit.
Timely(r, s) ==
  /\ s.request => s.total = r.total
  /\ s.state = "RUN" => s.cycles < RunTest /\ (r.state = "RUN" => s.cycles = r.cycles)
  /\ s.state = "STOPPING" => s.cycles < StopTimeout /\ (r.state = "STOPPING" => s.cycles = r.cycles)

\* Without HFI: the HFI states are never entered, and the states that run on the observer
\* are entered with no period without lock and go on with their count.
Watched(r, s, in) ==
  /\ s.state \notin HfiStates
  /\ s.state \in LockStates =>
       s.unlockBad = IF r.state \in LockStates THEN Unlock(r, in) ELSE 0

\* LOCK_LOST is recorded without HFI alone, after a dwell in the states that run on the
\* observer.
Lost(r, s, in) ==
  s.failure = "LOCK_LOST" /\ r.failure # "LOCK_LOST" =>
    ~HfiEnable /\ r.state \in LockStates /\ Unlock(r, in) >= UnlockDwell

LEMMA LimitsPositive == RunTest \in Nat \ {0} /\ StopTimeout \in Nat \ {0} /\ TotalTimeout \in Nat \ {0}
BY ConfigOK DEF Cycles

LEMMA EnterParts ==
  ASSUME NEW r, Shaped(r), NEW s
  PROVE  /\ Shaped(Enter(r, s)) /\ Enter(r, s).state = s /\ Enter(r, s).cycles = 0
         /\ Enter(r, s).total = r.total /\ Enter(r, s).unlockBad = r.unlockBad
         /\ Enter(r, s).request = r.request /\ Enter(r, s).failure = r.failure
BY DEF Enter, Shaped, Fields

LEMMA FaultParts ==
  ASSUME NEW r, Shaped(r), NEW f
  PROVE  LET e == EnterFault(r, f)
         IN  /\ Shaped(e) /\ e.state = "FAULT" /\ ~e.request
             /\ e.failure = IF r.failure = None THEN f ELSE r.failure
BY DEF EnterFault, Enter, FailureFirst, Shaped, Fields

\* A stop gives up the request and starts its own time, or ends in IDLE.
LEMMA StopParts ==
  ASSUME NEW r, Shaped(r), r.state \notin {"IDLE", "FAULT"}
  PROVE  LET s == StopRequested(r)
         IN  /\ s.state \in {"IDLE", "STOPPING"} /\ ~s.request /\ s.cycles = 0
             /\ s.failure = r.failure
<1> DEFINE b == [r EXCEPT !.request = FALSE]
<1>1. Shaped(b) /\ ~b.request /\ b.failure = r.failure /\ b.state = r.state
  BY DEF Shaped, Fields
<1> HIDE DEF b
<1> DEFINE i == Enter(b, "IDLE")
           t == Enter(b, "STOPPING")
<1>2. /\ Shaped(i) /\ i.state = "IDLE" /\ ~i.request /\ i.failure = r.failure /\ i.cycles = 0
      /\ Shaped(t) /\ t.state = "STOPPING" /\ ~t.request /\ t.failure = r.failure /\ t.cycles = 0
  BY <1>1, EnterParts
<1> HIDE DEF i, t
<1>3. LET j == [i EXCEPT !.active = FALSE]
      IN  j.state = "IDLE" /\ ~j.request /\ j.failure = r.failure /\ j.cycles = 0
  BY <1>2 DEF Shaped, Fields
<1>4. LET j == [t EXCEPT !.stopGood = 0]
      IN  j.state = "STOPPING" /\ ~j.request /\ j.failure = r.failure /\ j.cycles = 0
  BY <1>2 DEF Shaped, Fields
<1>5. StopBranch(r) \in {"toIdle", "toStopping"}
  BY DEF StopBranch, Running
<1> QED
  BY <1>3, <1>4, <1>5 DEF StopRequested, StoreStop, b, i, t

Fine(r, s, in) == Timely(r, s) /\ Lost(r, s, in) /\ (~HfiEnable => Watched(r, s, in))

LEMMA FaultFine ==
  ASSUME NEW r, NEW a, Same(r, a), NEW in, NEW f, f # "LOCK_LOST"
  PROVE  Fine(r, EnterFault(a, f), in)
<1>1. LET e == EnterFault(a, f)
      IN  e.state = "FAULT" /\ ~e.request /\ e.failure \in {f, r.failure}
  BY FaultParts DEF Same
<1> QED
  BY <1>1 DEF Fine, Timely, Lost, Watched, HfiStates, LockStates

LEMMA MoveFine ==
  ASSUME NEW r, NEW s, NEW in, s.request => s.total = r.total, s.failure = r.failure,
         s.state \notin {"RUN", "IQ_HOLD", "STOPPING"}, HfiEnable \/ s.state \notin HfiStates
  PROVE  Fine(r, s, in)
BY DEF Fine, Timely, Lost, Watched, LockStates

LEMMA StopFine ==
  ASSUME NEW r, NEW a, Same(r, a), r.state \notin {"IDLE", "FAULT", "STOPPING"}, NEW in
  PROVE  Fine(r, StopRequested(a), in)
<1> DEFINE s == StopRequested(a)
<1>1. s.state \in {"IDLE", "STOPPING"} /\ ~s.request /\ s.cycles = 0 /\ s.failure = r.failure
  BY StopParts DEF Same
<1> HIDE DEF s
<1>2. Timely(r, s)
  BY <1>1, LimitsPositive DEF Timely
<1>3. Watched(r, s, in) /\ Lost(r, s, in)
  BY <1>1 DEF Watched, Lost, HfiStates, LockStates
<1> QED
  BY <1>2, <1>3 DEF Fine, s

LEMMA EndFine ==
  ASSUME NEW r, NEW a, Same(r, a), NEW in
  PROVE  /\ Fine(r, [Enter(a, "IDLE") EXCEPT !.active = FALSE, !.request = FALSE], in)
         /\ Fine(r, [Enter(a, "IDLE") EXCEPT !.request = FALSE], in)
<1> DEFINE e == Enter(a, "IDLE")
           s == [e EXCEPT !.active = FALSE, !.request = FALSE]
           t == [e EXCEPT !.request = FALSE]
<1>1. Shaped(e) /\ e.state = "IDLE" /\ e.failure = r.failure
  BY EnterParts DEF Same
<1> HIDE DEF e
<1>2. s.state = "IDLE" /\ ~s.request /\ s.failure = r.failure /\ t.state = "IDLE" /\ ~t.request
        /\ t.failure = r.failure
  BY <1>1 DEF Shaped, Fields
<1> HIDE DEF s, t
<1>3. "IDLE" \notin HfiStates
  BY DEF HfiStates
<1> QED
  BY <1>2, <1>3, MoveFine DEF e, s, t

(* -- The states of the sequencer --------------------------------------------- *)

LEMMA ActiveSame ==
  ASSUME NEW r, Shaped(r)
  PROVE  Same(r, r) /\ Same(r, [r EXCEPT !.active = TRUE])
BY DEF Same, Shaped, Fields

\* A move to another state of the start, but to one that runs on the observer.
LEMMA EnterFine ==
  ASSUME NEW r, NEW a, Same(r, a), NEW in, NEW s,
         s \notin {"RUN", "IQ_HOLD", "STOPPING"}, HfiEnable \/ s \notin HfiStates
  PROVE  Fine(r, Enter(a, s), in)
BY EnterParts, MoveFine DEF Same

LEMMA IdleFine ==
  ASSUME NEW r, Shaped(r), r.state = "IDLE", NEW in
  PROVE  Fine(r, Idle(r, in), in)
<1> DEFINE e == Enter(r, "ALIGN")
           s == [e EXCEPT !.hfiNew = FALSE, !.hfiGood = 0, !.hfiBad = 0]
<1>1. Shaped(e) /\ e.state = "ALIGN" /\ e.total = r.total /\ e.failure = r.failure
  BY EnterParts
<1> HIDE DEF e
<1>2. s.state = "ALIGN" /\ s.total = r.total /\ s.failure = r.failure
  BY <1>1 DEF Shaped, Fields
<1> HIDE DEF s
<1>3. Fine(r, s, in) /\ Fine(r, r, in)
  BY <1>2, MoveFine DEF HfiStates
<1>4. Fine(r, EnterFault(r, "PARAM_INVALID"), in)
  BY FaultFine, ActiveSame
<1> QED
  BY <1>3, <1>4 DEF Idle, e, s

LEMMA AlignFine ==
  ASSUME NEW r, Shaped(r), r.state = "ALIGN", NEW in
  PROVE  Fine(r, Align(r, in), in)
<1> DEFINE a == [r EXCEPT !.active = TRUE]
<1>1. Same(r, a)
  BY ActiveSame
<1> HIDE DEF a
<1>2. Fine(r, a, in)
  BY <1>1, MoveFine DEF Same, HfiStates
<1>3. Fine(r, Enter(a, "OPEN_LOOP_RAMP"), in) /\ (HfiEnable => Fine(r, Enter(a, "HFI_ACQUIRE"), in))
  BY <1>1, EnterFine DEF HfiStates
<1>4. Fine(r, EnterFault(a, "HFI_UNAVAILABLE"), in)
  BY <1>1, FaultFine
<1>5. Fine(r, [Enter(a, "IDLE") EXCEPT !.active = FALSE, !.request = FALSE], in)
  BY <1>1, EndFine
<1> QED
  BY <1>2, <1>3, <1>4, <1>5 DEF Align, a

LEMMA OpenLoopRampFine ==
  ASSUME NEW r, Shaped(r), r.state = "OPEN_LOOP_RAMP", NEW in
  PROVE  Fine(r, OpenLoopRamp(r, in), in)
<1> DEFINE a == [r EXCEPT !.active = TRUE]
<1>1. Same(r, a) /\ Same(r, r)
  BY ActiveSame
<1> HIDE DEF a
<1>2. Fine(r, a, in)
  BY <1>1, MoveFine DEF Same, HfiStates
<1>3. Fine(r, Enter(a, "WAIT_LOCK"), in)
  BY <1>1, EnterFine DEF HfiStates
<1>4. Fine(r, EnterFault(r, "RAMP_TIMEOUT"), in)
  BY <1>1, FaultFine
<1>5. Fine(r, StopRequested(a), in) /\ Fine(r, StopRequested(r), in)
  BY <1>1, StopFine
<1> QED
  BY <1>2, <1>3, <1>4, <1>5 DEF OpenLoopRamp, a

LEMMA WaitLockFine ==
  ASSUME NEW r, Shaped(r), r.state = "WAIT_LOCK", NEW in
  PROVE  Fine(r, WaitLock(r, in), in)
<1> DEFINE a == [r EXCEPT !.active = TRUE]
           b == [a EXCEPT !.lockGood = Count(@, LockGood(r, in) /\ in.agree, LockDwell)]
           e == Enter(b, "BLEND")
           c == [e EXCEPT !.fromHfi = FALSE]
<1>1. Same(r, a) /\ Same(r, r)
  BY ActiveSame
<1>2. Same(r, b)
  BY DEF Same, Shaped, Fields
<1> HIDE DEF a, b
<1>3. Shaped(e) /\ e.state = "BLEND" /\ e.total = r.total /\ e.failure = r.failure
  BY <1>2, EnterParts DEF Same
<1> HIDE DEF e
<1>4. c.state = "BLEND" /\ c.total = r.total /\ c.failure = r.failure
  BY <1>3 DEF Shaped, Fields
<1> HIDE DEF c
<1>5. Fine(r, a, in) /\ Fine(r, b, in) /\ Fine(r, c, in)
  BY <1>1, <1>2, <1>4, MoveFine DEF Same, HfiStates
<1>6. Fine(r, EnterFault(b, "LOCK_TIMEOUT"), in) /\ Fine(r, [Enter(r, "IDLE") EXCEPT !.request = FALSE], in)
  BY <1>1, <1>2, FaultFine, EndFine
<1> QED
  BY <1>5, <1>6 DEF WaitLock, a, b, c, e

LEMMA BlendFine ==
  ASSUME NEW r, Shaped(r), r.state = "BLEND", NEW in
  PROVE  Fine(r, Blend(r, in), in)
<1> DEFINE a == [r EXCEPT !.active = TRUE]
           n == IF r.fromHfi THEN "RUN" ELSE "IQ_HOLD"
           e == Enter(a, n)
           c == [e EXCEPT !.unlockBad = 0, !.hfiGood = 0]
<1>1. Same(r, a)
  BY ActiveSame
<1> HIDE DEF a
<1>2. Shaped(e) /\ e.state = n /\ e.total = r.total /\ e.failure = r.failure /\ e.cycles = 0
  BY <1>1, EnterParts DEF Same
<1>3. n \in LockStates
  BY DEF LockStates
<1> HIDE DEF e, n
<1>4. c.state = n /\ c.total = r.total /\ c.failure = r.failure /\ c.cycles = 0 /\ c.unlockBad = 0
  BY <1>2 DEF Shaped, Fields
<1> HIDE DEF c
<1>5. Fine(r, c, in)
  BY <1>3, <1>4, LimitsPositive DEF Fine, Timely, Lost, Watched, LockStates, HfiStates
<1>6. Fine(r, a, in)
  BY <1>1, MoveFine DEF Same, HfiStates
<1>7. Fine(r, EnterFault(a, "HFI_LOCK_LOST"), in) /\ Fine(r, EnterFault(a, "BLEND_FAILED"), in)
  BY <1>1, FaultFine
<1> QED
  BY <1>5, <1>6, <1>7 DEF Blend, a, c, e, n

\* The monitor of the states that run on the observer: it goes on with the count of
\* the periods without lock, goes back to HFI, or reports the lock lost.
LEMMA MonitorFine ==
  ASSUME NEW r, Typed(r), r.state \in LockStates, NEW in
  PROVE  LET m == CheckRunMonitors([r EXCEPT !.active = TRUE], in)
         IN  /\ Shaped(m)
             /\ m.state \in LockStates => Same(r, m) /\ m.unlockBad = Unlock(r, in)
             /\ m.state \notin LockStates => Fine(r, m, in)
<1> DEFINE b == [r EXCEPT !.active = TRUE]
           a == [b EXCEPT !.unlockBad = Unlock(b, in)]
           e == Enter(a, "HFI_REACQUIRE")
           h == [e EXCEPT !.hfiNew = FALSE, !.hfiGood = 0, !.hfiBad = 0, !.unlockBad = 0]
           f == EnterFault(a, "LOCK_LOST")
<1>1. Shaped(r) /\ Unlock(r, in) \in Nat /\ UnlockDwell \in Nat /\ Unlock(b, in) = Unlock(r, in)
  BY Limits, CountRange DEF Unlock, LockGood, Typed, Ranged, Counters, Shaped, Fields
<1>2. Same(r, a) /\ a.unlockBad = Unlock(r, in)
  BY <1>1 DEF Same, Shaped, Fields
<1> HIDE DEF a
<1>3. Shaped(e) /\ e.state = "HFI_REACQUIRE" /\ e.total = r.total /\ e.failure = r.failure
  BY <1>2, EnterParts DEF Same
<1> HIDE DEF e
<1>4. Shaped(h) /\ h.state = "HFI_REACQUIRE" /\ h.total = r.total /\ h.failure = r.failure
  BY <1>3 DEF Shaped, Fields
<1> HIDE DEF h
<1>5. HfiEnable => Fine(r, h, in)
  BY <1>4, MoveFine
<1>6. Shaped(f) /\ f.state = "FAULT" /\ ~f.request /\ f.failure \in {"LOCK_LOST", r.failure}
  BY <1>2, FaultParts DEF Same
<1> HIDE DEF f
<1>7. ~HfiEnable /\ Unlock(r, in) >= UnlockDwell => Fine(r, f, in)
  <2>1. Timely(r, f)
    BY <1>6 DEF Timely
  <2>2. ~HfiEnable /\ Unlock(r, in) >= UnlockDwell => Watched(r, f, in) /\ Lost(r, f, in)
    BY <1>6 DEF Watched, Lost, LockStates, HfiStates
  <2> QED
    BY <2>1, <2>2 DEF Fine
<1>8. CheckRunMonitors(b, in) = IF a.unlockBad < UnlockDwell THEN a ELSE IF HfiEnable THEN h ELSE f
  BY DEF CheckRunMonitors, Reacquire, a, e, h, f
<1>9. CASE a.unlockBad < UnlockDwell
  BY <1>2, <1>8, <1>9 DEF Same, LockStates
<1>10. CASE ~(a.unlockBad < UnlockDwell)
  <2>1. Unlock(r, in) >= UnlockDwell
    BY <1>1, <1>2, <1>10
  <2>2. h.state \notin LockStates /\ f.state \notin LockStates
    BY <1>4, <1>6 DEF LockStates
  <2> QED
    BY <1>4, <1>5, <1>6, <1>7, <1>8, <1>10, <2>1, <2>2
<1> QED
  BY <1>9, <1>10

LEMMA IqHoldFine ==
  ASSUME NEW r, Typed(r), r.state = "IQ_HOLD", NEW in
  PROVE  Fine(r, IqHoldStep(r, in), in)
<1> DEFINE m == CheckRunMonitors([r EXCEPT !.active = TRUE], in)
           e == Enter(m, "RUN")
<1>1. /\ Shaped(m)
      /\ m.state \in LockStates => Same(r, m) /\ m.unlockBad = Unlock(r, in)
      /\ m.state \notin LockStates => Fine(r, m, in)
  BY MonitorFine DEF LockStates
<1> HIDE DEF m
<1>2. /\ e.state = "RUN" /\ e.cycles = 0 /\ e.total = m.total /\ e.failure = m.failure
      /\ e.unlockBad = m.unlockBad
  BY <1>1, EnterParts
<1> HIDE DEF e
<1>3. CASE m.state \in LockStates
  <2>1. Fine(r, m, in)
    BY <1>1, <1>3 DEF Fine, Timely, Lost, Watched, Same, LockStates, HfiStates
  <2>2. Fine(r, e, in)
    BY <1>1, <1>2, <1>3, LimitsPositive DEF Fine, Timely, Lost, Watched, Same, LockStates, HfiStates
  <2> QED
    BY <2>1, <2>2 DEF IqHoldStep, m, e
<1>4. CASE m.state \notin LockStates
  <2>1. m.state # "IQ_HOLD"
    BY <1>4 DEF LockStates
  <2> QED
    BY <1>1, <1>4, <2>1 DEF IqHoldStep, m
<1> QED
  BY <1>3, <1>4

LEMMA RunFine ==
  ASSUME NEW r, Typed(r), r.state = "RUN", NEW in
  PROVE  Fine(r, Run(r, in), in)
<1> DEFINE m == CheckRunMonitors([r EXCEPT !.active = TRUE], in)
           e == Enter(m, "HFI_REACQUIRE")
           h == [e EXCEPT !.hfiNew = FALSE, !.hfiGood = 0, !.hfiBad = 0, !.unlockBad = 0]
<1>1. /\ Shaped(m)
      /\ m.state \in LockStates => Same(r, m) /\ m.unlockBad = Unlock(r, in)
      /\ m.state \notin LockStates => Fine(r, m, in)
  BY MonitorFine DEF LockStates
<1> HIDE DEF m
<1>2. Shaped(e) /\ e.state = "HFI_REACQUIRE" /\ e.total = m.total /\ e.failure = m.failure
  BY <1>1, EnterParts
<1> HIDE DEF e
<1>3. h.state = "HFI_REACQUIRE" /\ h.total = m.total /\ h.failure = m.failure
  BY <1>2 DEF Shaped, Fields
<1> HIDE DEF h
<1>4. HfiEnable /\ m.state = "RUN" => Fine(r, h, in)
  BY <1>1, <1>3, MoveFine DEF Same, LockStates
<1>5. Fine(r, StopRequested(r), in)
  BY StopFine, ActiveSame DEF Typed, Ranged
<1>6. r.cycles < RunTest /\ m.state \in LockStates => Fine(r, m, in)
  BY <1>1 DEF Fine, Timely, Lost, Watched, Same, LockStates, HfiStates
<1>7. r.cycles >= RunTest \/ r.cycles < RunTest
  BY LimitsPositive, ConfigOK DEF Typed, Ranged, Counters, Cycles
<1>8. Run(r, in) = IF r.cycles >= RunTest THEN StopRequested(r)
                   ELSE IF m.state = "RUN" /\ HfiEnable /\ in.speed = "slow" THEN h ELSE m
  BY DEF Run, Reacquire, m, e, h
<1> QED
  BY <1>1, <1>4, <1>5, <1>6, <1>7, <1>8

LEMMA StoppingFine ==
  ASSUME NEW r, Typed(r), r.state = "STOPPING", NEW in
  PROVE  Fine(r, Stopping(r, in), in)
<1> DEFINE a == [r EXCEPT !.active = TRUE, !.stopGood = Count(@, in.settled, StopDwell)]
<1>1. Same(r, a) /\ a.request = r.request
  BY DEF Same, Typed, Ranged, Shaped, Fields
<1> HIDE DEF a
<1>2. r.cycles < StopTimeout => Fine(r, a, in)
  BY <1>1 DEF Fine, Timely, Lost, Watched, Same, LockStates, HfiStates
<1>3. Fine(r, Enter(a, "IDLE"), in)
  BY <1>1, EnterFine DEF HfiStates
<1>4. Fine(r, EnterFault(a, "STOP_TIMEOUT"), in)
  BY <1>1, FaultFine
<1>5. r.cycles >= StopTimeout \/ r.cycles < StopTimeout
  BY LimitsPositive, ConfigOK DEF Typed, Ranged, Counters, Cycles
<1> QED
  BY <1>2, <1>3, <1>4, <1>5 DEF Stopping, a

LEMMA HfiAcquireFine ==
  ASSUME HfiEnable, NEW r, Shaped(r), r.state = "HFI_ACQUIRE", NEW in
  PROVE  Fine(r, HfiAcquire(r, in), in)
<1> DEFINE a == [r EXCEPT !.active = TRUE, !.hfiGood = Count(@, HfiGood(r, in), HfiDwell)]
           e == Enter(a, "HFI_RUN")
           c == [e EXCEPT !.lockGood = 0, !.hfiBad = 0]
<1>1. Same(r, a) /\ Same(r, r)
  BY DEF Same, Shaped, Fields
<1> HIDE DEF a
<1>2. Shaped(e) /\ e.state = "HFI_RUN" /\ e.total = r.total /\ e.failure = r.failure
  BY <1>1, EnterParts DEF Same
<1> HIDE DEF e
<1>3. c.state = "HFI_RUN" /\ c.total = r.total /\ c.failure = r.failure
  BY <1>2 DEF Shaped, Fields
<1> HIDE DEF c
<1>4. Fine(r, a, in) /\ Fine(r, c, in) /\ Fine(r, Enter(a, "OPEN_LOOP_RAMP"), in)
  BY <1>1, <1>3, MoveFine, EnterFine DEF Same
<1>5. Fine(r, EnterFault(r, "HFI_LOCK_LOST"), in) /\ Fine(r, EnterFault(a, "HFI_LOCK_TIMEOUT"), in)
  BY <1>1, FaultFine
<1> QED
  BY <1>4, <1>5 DEF HfiAcquire, a, c, e

LEMMA HfiRunFine ==
  ASSUME HfiEnable, NEW r, Shaped(r), r.state = "HFI_RUN", NEW in
  PROVE  Fine(r, HfiRun(r, in), in)
<1> DEFINE a == [r EXCEPT !.active = TRUE, !.hfiBad = Count(@, ~HfiGood(r, in), UnlockDwell)]
           b == [a EXCEPT !.lockGood = Count(@, in.speed = "fast" /\ LockGood(r, in) /\ in.agree, LockDwell)]
           e == Enter(b, "BLEND")
           c == [e EXCEPT !.fromHfi = TRUE]
<1>1. Same(r, a)
  BY DEF Same, Shaped, Fields
<1>2. Same(r, b)
  BY <1>1 DEF Same, Shaped, Fields
<1> HIDE DEF a, b
<1>3. Shaped(e) /\ e.state = "BLEND" /\ e.total = r.total /\ e.failure = r.failure
  BY <1>2, EnterParts DEF Same
<1> HIDE DEF e
<1>4. c.state = "BLEND" /\ c.total = r.total /\ c.failure = r.failure
  BY <1>3 DEF Shaped, Fields
<1> HIDE DEF c
<1>5. Fine(r, b, in) /\ Fine(r, c, in) /\ Fine(r, EnterFault(a, "HFI_LOCK_LOST"), in)
  BY <1>1, <1>2, <1>4, MoveFine, FaultFine DEF Same
<1> QED
  BY <1>5 DEF HfiRun, a, b, c, e

LEMMA HfiReacquireFine ==
  ASSUME HfiEnable, NEW r, Shaped(r), r.state = "HFI_REACQUIRE", NEW in
  PROVE  Fine(r, HfiReacquire(r, in), in)
<1> DEFINE a == [r EXCEPT !.active = TRUE]
           b == [a EXCEPT !.hfiGood = Count(@, HfiGood(r, in) /\ in.agree, HfiDwell), !.unlockBad = Unlock(r, in)]
           e == Enter(a, "RUN")
           c == [e EXCEPT !.unlockBad = 0]
<1>1. Same(r, a)
  BY ActiveSame
<1>2. Same(r, b)
  BY DEF Same, Shaped, Fields
<1> HIDE DEF a, b
<1>3. Shaped(e) /\ e.state = "RUN" /\ e.total = r.total /\ e.cycles = 0 /\ e.failure = r.failure
  BY <1>1, EnterParts DEF Same
<1> HIDE DEF e
<1>4. c.state = "RUN" /\ c.total = r.total /\ c.cycles = 0 /\ c.failure = r.failure
  BY <1>3 DEF Shaped, Fields
<1> HIDE DEF c
<1>5. Fine(r, c, in)
  BY <1>4, LimitsPositive DEF Fine, Timely, Lost
<1>6. Fine(r, b, in) /\ Fine(r, Enter(b, "BLEND_TO_HFI"), in) /\ Fine(r, EnterFault(b, "HFI_LOCK_TIMEOUT"), in)
  BY <1>2, MoveFine, EnterFine, FaultFine DEF Same
<1> QED
  BY <1>5, <1>6 DEF HfiReacquire, a, b, c, e

LEMMA BlendToHfiFine ==
  ASSUME HfiEnable, NEW r, Shaped(r), r.state = "BLEND_TO_HFI", NEW in
  PROVE  Fine(r, BlendToHfi(r, in), in)
<1> DEFINE a == [r EXCEPT !.active = TRUE]
           d == Enter(r, "HFI_REACQUIRE")
           b == [d EXCEPT !.hfiGood = 0]
           e == Enter(a, "HFI_RUN")
           c == [e EXCEPT !.hfiBad = 0, !.lockGood = 0]
           f == Enter(a, "RUN")
<1>1. Same(r, a) /\ Same(r, r)
  BY ActiveSame
<1> HIDE DEF a
<1>2. /\ Shaped(d) /\ d.state = "HFI_REACQUIRE" /\ d.total = r.total /\ d.failure = r.failure
      /\ Shaped(e) /\ e.state = "HFI_RUN" /\ e.total = r.total /\ e.failure = r.failure
      /\ f.state = "RUN" /\ f.total = r.total /\ f.cycles = 0 /\ f.failure = r.failure
  BY <1>1, EnterParts DEF Same
<1> HIDE DEF d, e, f
<1>3. /\ b.state = "HFI_REACQUIRE" /\ b.total = r.total /\ b.failure = r.failure
      /\ c.state = "HFI_RUN" /\ c.total = r.total /\ c.failure = r.failure
  BY <1>2 DEF Shaped, Fields
<1> HIDE DEF b, c
<1>4. Fine(r, f, in)
  BY <1>2, LimitsPositive DEF Fine, Timely, Lost
<1>5. Fine(r, a, in) /\ Fine(r, b, in) /\ Fine(r, c, in)
  BY <1>1, <1>3, MoveFine DEF Same
<1> QED
  BY <1>4, <1>5 DEF BlendToHfi, a, b, c, d, e, f

LEMMA HandleFine ==
  ASSUME NEW r, Typed(r), r.state \in States, HfiEnable \/ r.state \notin HfiStates, NEW in
  PROVE  Fine(r, Handle(r, in), in)
<1>1. Shaped(r)
  BY DEF Typed, Ranged
<1>2. CASE r.state = "IDLE"           BY <1>1, <1>2, IdleFine DEF Handle
<1>3. CASE r.state = "ALIGN"          BY <1>1, <1>3, AlignFine DEF Handle
<1>4. CASE r.state = "HFI_ACQUIRE"    BY <1>1, <1>4, HfiAcquireFine DEF Handle, HfiStates
<1>5. CASE r.state = "HFI_RUN"        BY <1>1, <1>5, HfiRunFine DEF Handle, HfiStates
<1>6. CASE r.state = "OPEN_LOOP_RAMP" BY <1>1, <1>6, OpenLoopRampFine DEF Handle
<1>7. CASE r.state = "WAIT_LOCK"      BY <1>1, <1>7, WaitLockFine DEF Handle
<1>8. CASE r.state = "BLEND"          BY <1>1, <1>8, BlendFine DEF Handle
<1>9. CASE r.state = "IQ_HOLD"        BY <1>9, IqHoldFine DEF Handle
<1>10. CASE r.state = "RUN"           BY <1>10, RunFine DEF Handle
<1>11. CASE r.state = "HFI_REACQUIRE" BY <1>1, <1>11, HfiReacquireFine DEF Handle, HfiStates
<1>12. CASE r.state = "BLEND_TO_HFI"  BY <1>1, <1>12, BlendToHfiFine DEF Handle, HfiStates
<1>13. CASE r.state = "STOPPING"      BY <1>13, StoppingFine DEF Handle
<1>14. CASE r.state = "FAULT"
  BY <1>14, MoveFine DEF Handle, HfiStates
<1> QED
  BY <1>2, <1>3, <1>4, <1>5, <1>6, <1>7, <1>8, <1>9, <1>10, <1>11, <1>12, <1>13, <1>14
     DEF States, HfiStates, ClosedStates

(* -- The period counted, and the step ----------------------------------------- *)

\* What counts the period: every state its own cycles, a start its total as well unless
\* it is in RUN.  Or the step fails on its way to the switch.
Counted(r, p) ==
  /\ p.state = r.state /\ p.failure = r.failure /\ p.request = r.request
  /\ p.unlockBad = r.unlockBad
  /\ p.cycles = IF r.cycles < CycleCap THEN r.cycles + 1 ELSE r.cycles
  /\ p.total = IF TotalCounts(r) THEN r.total + 1 ELSE r.total
Failed(r, p) == p.state = "FAULT" /\ ~p.request /\ (p.failure = "LOCK_LOST" => r.failure = "LOCK_LOST")

LEMMA PrologueCounts ==
  ASSUME NEW r, Typed(r), NEW in
  PROVE  Counted(r, Prologue(r, in)) \/ Failed(r, Prologue(r, in))
<1> DEFINE p == [r EXCEPT !.active = FALSE, !.cycles = IF @ < CycleCap THEN @ + 1 ELSE @,
                          !.hfiNew = @ \/ in.hfiFault, !.total = IF TotalCounts(r) THEN @ + 1 ELSE @]
           q == IF TotalCounts(r) /\ p.total >= TotalTimeout THEN EnterFault(p, "START_TIMEOUT") ELSE p
<1>1. Shaped(p) /\ Counted(r, p)
  BY DEF Typed, Ranged, Shaped, Fields, Counted
<1> HIDE DEF p
<1>2. \A f : f # "LOCK_LOST" => Failed(r, EnterFault(p, f)) /\ ~Running(EnterFault(p, f))
  BY <1>1, FaultParts DEF Failed, Counted, Running
<1>3. q = p \/ (Failed(r, q) /\ ~Running(q))
  BY <1>2
<1>4. Failed(r, EnterFault(p, "OBSERVER_NUMERIC"))
  BY <1>2
<1> HIDE DEF q
<1> QED
  BY <1>1, <1>3, <1>4 DEF Prologue, p, q

\* The period of r counted and its state handled.
Stepped(r, s, in) ==
  /\ s.request => r.request
  /\ s.request => s.total = IF TotalCounts(r) THEN r.total + 1 ELSE r.total
  /\ s.state = "RUN" => s.cycles < RunTest /\ (r.state = "RUN" => s.cycles = r.cycles + 1)
  /\ s.state = "STOPPING" => s.cycles < StopTimeout /\ (r.state = "STOPPING" => s.cycles = r.cycles + 1)
  /\ Lost(r, s, in)
  /\ ~HfiEnable => Watched(r, s, in)

\* The start is over, and the lock was not found lost.
Ended(r, s) ==
  s.state \in {"IDLE", "FAULT"} /\ ~s.request /\ (s.failure = "LOCK_LOST" => r.failure = "LOCK_LOST")

LEMMA EndedStepped ==
  ASSUME NEW r, NEW s, Ended(r, s), NEW in
  PROVE  Stepped(r, s, in)
BY DEF Ended, Stepped, Lost, Watched, LockStates, HfiStates

LEMMA CountedStepped ==
  ASSUME NEW r, Typed(r), NEW p, Counted(r, p), NEW in, NEW s, Fine(p, s, in), s.request => p.request
  PROVE  Stepped(r, s, in)
<1>1. /\ p.state = r.state /\ p.request = r.request /\ p.failure = r.failure
      /\ p.total = IF TotalCounts(r) THEN r.total + 1 ELSE r.total
  BY DEF Counted
<1>2. (p.cycles < RunTest \/ p.cycles < StopTimeout) => p.cycles = r.cycles + 1
  <2>1. RunTest < CycleCap /\ StopTimeout < CycleCap /\ RunTest \in Nat /\ StopTimeout \in Nat /\ CycleCap \in Nat
    BY ConfigOK DEF Cycles
  <2>2. r.cycles \in Nat /\ p.cycles = IF r.cycles < CycleCap THEN r.cycles + 1 ELSE r.cycles
    BY <2>1 DEF Counted, Typed, Ranged, Counters
  <2> QED
    BY <2>1, <2>2
<1>3. s.request => r.request /\ s.total = IF TotalCounts(r) THEN r.total + 1 ELSE r.total
  BY <1>1 DEF Fine, Timely
<1>4. s.state = "RUN" => s.cycles < RunTest /\ (r.state = "RUN" => s.cycles = r.cycles + 1)
  BY <1>1, <1>2 DEF Fine, Timely
<1>5. s.state = "STOPPING" => s.cycles < StopTimeout /\ (r.state = "STOPPING" => s.cycles = r.cycles + 1)
  BY <1>1, <1>2 DEF Fine, Timely
<1>6. Unlock(p, in) = Unlock(r, in)
  BY DEF Unlock, LockGood, Counted
<1>7. Lost(r, s, in) /\ (~HfiEnable => Watched(r, s, in))
  BY <1>1, <1>6 DEF Fine, Lost, Watched
<1> QED
  BY <1>3, <1>4, <1>5, <1>7 DEF Stepped

LEMMA StepStepped ==
  ASSUME NEW r, Typed(r), Sound(r), HfiEnable \/ r.state \notin HfiStates, NEW in
  PROVE  Stepped(r, Step(r, in), in)
<1> DEFINE p == Prologue(r, in)
           h == Handle(p, in)
<1>1. Typed(p) /\ Sound(p) /\ (Counted(r, p) \/ Failed(r, p))
  BY PrologueTyped, PrologueLeads, PrologueCounts DEF Leads
<1> HIDE DEF p
<1>2. CASE Failed(r, p)
  <2>1. h = p
    BY <1>2 DEF Failed, Handle
  <2>2. Probe(p, in) = p
    BY <1>1, <1>2 DEF Failed, Sound, Probe
  <2>3. Ended(r, p)
    BY <1>2 DEF Failed, Ended
  <2> QED
    BY <2>1, <2>2, <2>3, EndedStepped DEF Step, p, h
<1>3. CASE Counted(r, p)
  <2>1. Fine(p, h, in) /\ Leads(p, h) /\ Sound(h)
    BY <1>1, <1>3, HandleFine, HandleLeads DEF Counted, Sound, Leads
  <2> HIDE DEF h
  <2>2. Stepped(r, h, in)
    BY <1>1, <1>3, <2>1, CountedStepped DEF Leads
  <2> DEFINE e == Enter(h, "IDLE")
             i == [e EXCEPT !.active = FALSE, !.request = FALSE]
             f == EnterFault(h, "CURRENT_INPUT")
  <2>3. Shaped(h) /\ Shaped(e) /\ e.state = "IDLE" /\ e.failure = h.failure
    BY <2>1, EnterParts DEF Sound
  <2> HIDE DEF e
  <2>4. i.state = "IDLE" /\ ~i.request /\ i.failure = h.failure
    BY <2>3 DEF Shaped, Fields
  <2> HIDE DEF i
  <2>5. f.state = "FAULT" /\ ~f.request /\ f.failure \in {"CURRENT_INPUT", h.failure}
    BY <2>3, FaultParts
  <2> HIDE DEF f
  <2>6. h.active => h.failure = r.failure
    BY <1>3, <2>1 DEF Leads, Sound, Counted
  <2>7. h.active => Stepped(r, i, in) /\ Stepped(r, f, in)
    BY <2>4, <2>5, <2>6, EndedStepped DEF Ended
  <2>8. Probe(h, in) \in {h, f} \/ (h.active /\ Probe(h, in) = i)
    BY DEF Probe, e, i, f
  <2>9. Probe(h, in) = f => h.active \/ Probe(h, in) = h
    BY DEF Probe
  <2> QED
    BY <2>2, <2>7, <2>8, <2>9 DEF Step, p, h
<1> QED
  BY <1>1, <1>2, <1>3

(* -- The time invariant -------------------------------------------------------- *)

TimeInv ==
  /\ runtime.state = "RUN" => runtime.cycles < RunTest
  /\ StopBounded
  /\ ~HfiEnable => runtime.state \notin HfiStates /\ (runtime.state \in LockStates => runtime.unlockBad <= badRun)

BInv == IInv /\ TInv /\ TimeInv

\* One PWM period: the sequencer steps, with the lock counted by badRun too, or the start
\* is over.
LEMMA PwmStepped ==
  ASSUME BInv, PwmIsr
  PROVE  \/ Ended(runtime, runtime')
         \/ \E in : /\ Stepped(runtime, runtime', in)
                    /\ badRun' = Count(badRun, runtime.state \in LockStates /\ ~in.lock, UnlockDwell)
<1>1. PICK lease \in BOOLEAN, currentOk \in BOOLEAN, in \in Samples(runtime.state) :
       LET guarded == PwmGuard(runtime, lease /\ regul /\ ~err)
           r     == IF regul THEN Step(guarded, in) ELSE DriveLost(guarded)
           owns  == regul /\ r.active
           trips == owns /\ ~currentOk
       IN  /\ runtime' = IF trips THEN EnterFault(r, "CURRENT") ELSE r
           /\ badRun' = Count(badRun, guarded.state \in {"IQ_HOLD", "RUN"} /\ ~in.lock, UnlockDwell)
  BY DEF PwmIsr
<1> DEFINE guarded == PwmGuard(runtime, lease /\ regul /\ ~err)
           r     == IF regul THEN Step(guarded, in) ELSE DriveLost(guarded)
<1>2. /\ Sound(runtime) /\ Shaped(runtime) /\ Typed(runtime)
      /\ HfiEnable \/ runtime.state \notin HfiStates
  BY DEF BInv, IInv, TInv, Sound, TimeInv
<1>3. /\ Leads(runtime, r) /\ (~regul => Quiet(r))
  BY PwmLeads DEF BInv, IInv
<1>4. r.active => r.failure = runtime.failure /\ Shaped(r)
  BY <1>3 DEF Leads, Sound
<1>5. guarded # runtime => Ended(runtime, guarded) /\ guarded.state = "FAULT" /\ guarded.failure # None
  BY <1>2, FaultParts DEF PwmGuard, Ended, None
<1>6. Sound(guarded)
  BY <1>2, GuardLeads DEF Leads
<1> HIDE DEF guarded
<1>7. CASE regul /\ guarded = runtime
  <2>1. Stepped(runtime, r, in)
    BY <1>2, <1>7, StepStepped
  <2> HIDE DEF r
  <2>2. r.active => Ended(runtime, EnterFault(r, "CURRENT"))
    BY <1>4, FaultParts DEF Ended
  <2> QED
    BY <1>1, <1>7, <2>1, <2>2 DEF guarded, r, LockStates
<1>8. CASE regul /\ guarded # runtime
  <2>1. Leads(guarded, r)
    BY <1>6, <1>8, StepLeads
  <2> HIDE DEF r
  <2>2. Ended(runtime, r) /\ ~r.active
    BY <1>5, <1>8, <2>1 DEF Leads, Sound, Ended
  <2> QED
    BY <1>1, <2>2 DEF guarded, r
<1>9. CASE ~regul
  <2>1. r.state \in {"IDLE", "FAULT"} /\ ~r.request
    BY <1>3, <1>9 DEF Quiet, Running
  <2>2. r.failure = "LOCK_LOST" => runtime.failure = "LOCK_LOST"
    BY <1>5, <1>6, <1>9, FaultParts DEF DriveLost, Ended, Sound
  <2> HIDE DEF r
  <2>3. runtime' = r
    BY <1>1, <1>9 DEF guarded, r
  <2> QED
    BY <2>1, <2>2, <2>3 DEF Ended
<1> QED
  BY <1>7, <1>8, <1>9

\* A longer spell without lock in one count is a longer one in the other.
LEMMA CountMono ==
  ASSUME NEW limit \in Nat, NEW m \in 0 .. limit, NEW n \in 0 .. limit, m <= n, NEW c
  PROVE  Count(m, c, limit) <= Count(n, c, limit) /\ 0 <= Count(n, c, limit)
BY DEF Count

LEMMA PwmTimeInv ==
  ASSUME BInv, PwmIsr
  PROVE  TimeInv'
<1>1. CASE Ended(runtime, runtime')
  BY <1>1 DEF Ended, TimeInv, StopBounded, HfiStates, LockStates
<1>2. ASSUME NEW in, Stepped(runtime, runtime', in),
             badRun' = Count(badRun, runtime.state \in LockStates /\ ~in.lock, UnlockDwell)
      PROVE  TimeInv'
  <2>1. runtime'.state = "RUN" => runtime'.cycles < RunTest
    BY <1>2 DEF Stepped
  <2>2. StopBounded'
    BY <1>2 DEF Stepped, StopBounded
  <2>3. ~HfiEnable => runtime'.state \notin HfiStates
    BY <1>2 DEF Stepped, Watched
  <2>4. UnlockDwell \in Nat /\ badRun \in 0 .. UnlockDwell /\ runtime.unlockBad \in 0 .. UnlockDwell
    BY Limits DEF BInv, TInv, TypeOK, Typed, Ranged, Counters
  <2>5. ASSUME ~HfiEnable, runtime'.state \in LockStates, runtime.state \in LockStates
        PROVE  runtime'.unlockBad <= badRun'
    <3>1. runtime'.unlockBad = Count(runtime.unlockBad, ~in.lock, UnlockDwell)
      BY <1>2, <2>5 DEF Stepped, Watched, Unlock, LockGood
    <3>2. badRun' = Count(badRun, ~in.lock, UnlockDwell)
      BY <1>2, <2>5 DEF Count
    <3>3. runtime.unlockBad <= badRun
      BY <2>5 DEF BInv, TimeInv
    <3> QED
      BY <2>4, <3>1, <3>2, <3>3, CountMono
  <2>6. ASSUME ~HfiEnable, runtime'.state \in LockStates, runtime.state \notin LockStates
        PROVE  runtime'.unlockBad <= badRun'
    <3>1. runtime'.unlockBad = 0
      BY <1>2, <2>6 DEF Stepped, Watched
    <3> QED
      BY <1>2, <2>4, <3>1, CountMono
  <2> QED
    BY <2>1, <2>2, <2>3, <2>5, <2>6 DEF TimeInv
<1> QED
  BY <1>1, <1>2, PwmStepped

\* What the 1 ms interrupt and the drive leave of the times: nothing moves, or the
\* sequencer is idle or failed, or it stops from the start of its time.
LEMMA OtherTimes ==
  ASSUME BInv, [Next]_vars, ~PwmIsr
  PROVE  \/ /\ runtime'.state = runtime.state /\ runtime'.cycles = runtime.cycles
            /\ runtime'.total = runtime.total /\ runtime'.unlockBad = runtime.unlockBad
            /\ badRun' = badRun /\ (runtime'.request => runtime.request)
         \/ runtime'.state \in {"IDLE", "FAULT"} /\ (runtime'.request => ~runtime.request)
         \/ runtime'.state = "STOPPING" /\ runtime'.cycles = 0 /\ ~runtime'.request /\ StopStore
<1>1. Sound(runtime) /\ Shaped(runtime)
  BY DEF BInv, IInv, Sound
<1>2. CASE RequestStart
  BY <1>2 DEF RequestStart, InitRuntime
<1>3. CASE StopTest
  <2>1. runtime' = runtime \/ runtime' = [runtime EXCEPT !.request = FALSE]
    BY <1>3 DEF StopTest
  <2> QED
    BY <1>1, <1>3, <2>1 DEF StopTest, Shaped, Fields
<1>4. CASE StopStore
  <2>1. ~runtime.request /\ badRun' = badRun
    BY <1>4 DEF StopStore, BInv, IInv, Settled
  <2> DEFINE i == Enter(runtime, "IDLE")
             j == [i EXCEPT !.active = FALSE]
             t == Enter(runtime, "STOPPING")
             u == [t EXCEPT !.stopGood = 0]
  <2>2. /\ Shaped(i) /\ i.state = "IDLE" /\ ~i.request
        /\ Shaped(t) /\ t.state = "STOPPING" /\ t.cycles = 0 /\ ~t.request
    BY <1>1, <2>1, EnterParts
  <2> HIDE DEF i, t
  <2>3. j.state = "IDLE" /\ ~j.request /\ u.state = "STOPPING" /\ u.cycles = 0 /\ ~u.request
    BY <2>2 DEF Shaped, Fields
  <2>4. runtime' \in {runtime, j, u}
    BY <1>4 DEF StopStore, StoreStop, i, t
  <2> HIDE DEF j, u
  <2> QED
    BY <1>4, <2>1, <2>3, <2>4
<1>5. CASE ClearFault
  <2>1. runtime.state = "FAULT" => runtime'.state = "IDLE" /\ ~runtime'.request
    BY <1>1, <1>5 DEF ClearFault, Enter, Shaped, Fields
  <2>2. runtime.state # "FAULT" => runtime' = [runtime EXCEPT !.failure = None]
    BY <1>5 DEF ClearFault
  <2>3. badRun' = badRun
    BY <1>5 DEF ClearFault
  <2> QED
    BY <1>1, <2>1, <2>2, <2>3 DEF Shaped, Fields
<1>6. CASE Configure
  BY <1>6 DEF Configure, InitRuntime
<1>7. CASE Revoke
  BY <1>1, <1>7, FaultParts DEF Revoke
<1>8. CASE DriveFault \/ DriveOff \/ DriveOn \/ FaultReset \/ UpdateTarget
  BY <1>8 DEF DriveFault, DriveOff, DriveOn, FaultReset, UpdateTarget
<1>9. CASE UNCHANGED vars
  BY <1>9 DEF vars
<1> QED
  BY <1>2, <1>3, <1>4, <1>5, <1>6, <1>7, <1>8, <1>9 DEF Next

LEMMA StepBInv == BInv /\ [Next]_vars => BInv'
<1> SUFFICES ASSUME BInv, [Next]_vars PROVE TimeInv'
  BY StepIInv, StepTInv DEF BInv
<1>1. CASE PwmIsr
  BY <1>1, PwmTimeInv
<1>2. CASE ~PwmIsr
  BY <1>2, OtherTimes, LimitsPositive DEF BInv, TimeInv, StopBounded, HfiStates, LockStates
<1> QED
  BY <1>1, <1>2

LEMMA InitBInv == Init => BInv
<1> SUFFICES ASSUME Init PROVE BInv
  OBVIOUS
<1>1. TInv
  BY InitTyped, InitSound, TypedRuntime, Zeros DEF Init, TInv, TypeOK, Sound
<1>2. TimeInv
  BY DEF Init, InitRuntime, TimeInv, StopBounded, HfiStates, LockStates
<1> QED
  BY <1>1, <1>2, InitIInv DEF BInv

(* -- The results ---------------------------------------------------------------- *)

\* LOCK_LOST is recorded by a PWM period alone.
LEMMA OtherFailure ==
  ASSUME BInv, [Next]_vars, ~PwmIsr, runtime'.failure = "LOCK_LOST"
  PROVE  runtime.failure = "LOCK_LOST"
<1>1. Shaped(runtime)
  BY DEF BInv, IInv, Sound
<1>2. CASE RequestStart \/ ClearFault \/ Configure
  BY <1>1, <1>2 DEF RequestStart, ClearFault, Configure, InitRuntime, Enter, Shaped, Fields, None
<1>3. CASE StopTest \/ StopStore
  BY <1>1, <1>3 DEF StopTest, StopStore, StoreStop, Enter, Shaped, Fields
<1>4. CASE Revoke
  BY <1>1, <1>4, FaultParts DEF Revoke
<1>5. CASE DriveFault \/ DriveOff \/ DriveOn \/ FaultReset \/ UpdateTarget
  BY <1>5 DEF DriveFault, DriveOff, DriveOn, FaultReset, UpdateTarget
<1>6. CASE UNCHANGED vars
  BY <1>6 DEF vars
<1> QED
  BY <1>2, <1>3, <1>4, <1>5, <1>6 DEF Next

LEMMA PwmLost ==
  ASSUME BInv, PwmIsr, runtime'.failure = "LOCK_LOST", runtime.failure # "LOCK_LOST"
  PROVE  badRun' >= UnlockDwell
<1>1. PICK in : /\ Stepped(runtime, runtime', in)
                /\ badRun' = Count(badRun, runtime.state \in LockStates /\ ~in.lock, UnlockDwell)
  BY PwmStepped DEF Ended
<1>2. ~HfiEnable /\ runtime.state \in LockStates /\ Unlock(runtime, in) >= UnlockDwell
  BY <1>1 DEF Stepped, Lost
<1>3. UnlockDwell \in Nat /\ badRun \in 0 .. UnlockDwell /\ runtime.unlockBad \in 0 .. UnlockDwell
        /\ runtime.unlockBad <= badRun
  BY <1>2, Limits DEF BInv, TInv, TypeOK, Typed, Ranged, Counters, TimeInv
<1>4. badRun' = Count(badRun, ~in.lock, UnlockDwell)
  BY <1>1, <1>2 DEF Count
<1>5. Count(runtime.unlockBad, ~in.lock, UnlockDwell) >= UnlockDwell
  BY <1>2 DEF Unlock, LockGood
<1>6. Count(runtime.unlockBad, ~in.lock, UnlockDwell) <= Count(badRun, ~in.lock, UnlockDwell)
  BY <1>3, CountMono
<1>7. Count(runtime.unlockBad, ~in.lock, UnlockDwell) \in Nat /\ Count(badRun, ~in.lock, UnlockDwell) \in Nat
  BY <1>3, CountRange
<1> QED
  BY <1>3, <1>4, <1>5, <1>6, <1>7

\* The lock is reported lost only after a whole dwell of periods in a row without it, for
\* every configuration and every dwell: the counter of the code never adds up two spells.
THEOREM LockLostAfterDwell == Spec => LostAfterDwell
<1>1. BInv /\ [Next]_vars =>
        [runtime'.failure = "LOCK_LOST" /\ runtime.failure # "LOCK_LOST" => badRun' >= UnlockDwell]_vars
  BY PwmLost, OtherFailure
<1> QED
  BY <1>1, InitBInv, StepBInv, PTL DEF Spec, LostAfterDwell

\* FAULT is left with the failure erased, or by the store of a stop, and then with the
\* regulators off.
FaultLeft ==
  [][ runtime.state = "FAULT" /\ runtime'.state # "FAULT"
      => (StopStore /\ ~regul) \/ runtime'.failure = None ]_vars

LEMMA StepFaultLeft ==
  CInv /\ [Next]_vars =>
    [ runtime.state = "FAULT" /\ runtime'.state # "FAULT"
      => (StopStore /\ ~regul) \/ runtime'.failure = None ]_vars
<1> SUFFICES ASSUME CInv, Next, runtime.state = "FAULT", runtime'.state # "FAULT"
             PROVE  (StopStore /\ ~regul) \/ runtime'.failure = None
  OBVIOUS
<1>1. Sound(runtime) /\ Shaped(runtime)
  BY DEF CInv, IInv, Sound
<1>2. CASE PwmIsr
  <2>1. PICK lease \in BOOLEAN, currentOk \in BOOLEAN, in \in Samples(runtime.state) :
         LET guarded == PwmGuard(runtime, lease /\ regul /\ ~err)
             r     == IF regul THEN Step(guarded, in) ELSE DriveLost(guarded)
         IN  runtime' \in {EnterFault(r, "CURRENT"), r}
    BY <1>2 DEF PwmIsr
  <2> QED
    BY <1>1, <2>1, PwmLeads DEF Leads
<1>3. CASE RequestStart \/ Configure
  BY <1>3 DEF RequestStart, Configure
<1>4. CASE StopTest
  BY <1>1, <1>4 DEF StopTest, Shaped, Fields
<1>5. CASE StopStore
  BY <1>5 DEF StopStore, CInv, StoreInv
<1>6. CASE ClearFault
  <2> DEFINE b == [Enter(runtime, "IDLE") EXCEPT !.request = FALSE]
  <2>1. DOMAIN b = Fields
    BY <1>1 DEF Enter, Shaped
  <2> HIDE DEF b
  <2>2. runtime' = [b EXCEPT !.failure = None]
    BY <1>6 DEF ClearFault, b
  <2> QED
    BY <2>1, <2>2 DEF Fields
<1>7. CASE Revoke
  BY <1>7 DEF Revoke, Guarded
<1>8. CASE DriveFault \/ DriveOff \/ DriveOn \/ FaultReset \/ UpdateTarget
  BY <1>8 DEF DriveFault, DriveOff, DriveOn, FaultReset, UpdateTarget
<1> QED
  BY <1>2, <1>3, <1>4, <1>5, <1>6, <1>7, <1>8 DEF Next

\* FAULT is left by the clear command, or with the regulators off by the store of a stop that
\* tested the state before: the race of the violated run is the only other way out, for every
\* configuration and wherever the stop is cut.
THEOREM FaultIsLeft == Spec => FaultLeft
BY InitCInv, StepCInv, StepFaultLeft, PTL DEF Spec, FaultLeft

\* One period of the total is worth more than a whole visit of RUN.
LEMMA RankDrops ==
  ASSUME NEW n \in Nat, n > 0, NEW k \in Nat, NEW x \in 0 .. k, NEW y \in 0 .. k
  PROVE  (n - 1) * (k + 1) + y < n * (k + 1) + x
<1>1. (n - 1) * (k + 1) = n * (k + 1) - (k + 1)
  OBVIOUS
<1>2. n * (k + 1) \in Int /\ (n - 1) * (k + 1) \in Int
  OBVIOUS
<1> QED
  BY <1>1, <1>2

LEMMA RankBounds ==
  ASSUME NEW t \in Nat, NEW n \in 1 .. t, NEW k \in Nat, NEW x \in 0 .. k
  PROVE  n * (k + 1) + x \in 1 .. t * (k + 1) + k
<1>1. t * (k + 1) = n * (k + 1) + (t - n) * (k + 1)
  OBVIOUS
<1>2. (t - n) * (k + 1) \in Nat /\ n * (k + 1) \in Nat /\ t * (k + 1) \in Nat
  OBVIOUS
<1>3. n * (k + 1) = (n - 1) * (k + 1) + (k + 1) /\ (n - 1) * (k + 1) \in Nat
  OBVIOUS
<1> QED
  BY <1>1, <1>2, <1>3

LEMMA RankParts ==
  ASSUME BInv, runtime.request
  PROVE  /\ TotalTimeout - runtime.total \in 1 .. TotalTimeout /\ RunLeft(runtime) \in 0 .. RunTest
         /\ runtime.state = "RUN" => RunLeft(runtime) > 0 /\ runtime.cycles \in Nat
<1>1. runtime.total < TotalTimeout /\ runtime.total \in Nat /\ runtime.cycles \in Nat
  BY LimitsPositive, ConfigOK DEF BInv, TInv, Typed, Ranged, Counters, Cycles
<1> QED
  BY <1>1, LimitsPositive DEF RunLeft, BInv, TimeInv

LEMMA PwmRank ==
  ASSUME BInv, PwmIsr, runtime.request, runtime'.request
  PROVE  StartRank(runtime') < StartRank(runtime)
<1>1. PICK in : Stepped(runtime, runtime', in)
  BY PwmStepped DEF Ended
<1>2. BInv'
  BY StepBInv DEF Next
<1>3. RunLeft(runtime') \in 0 .. RunTest
  <2>1. runtime'.cycles \in 0 .. CycleCap /\ (runtime'.state = "RUN" => runtime'.cycles < RunTest)
    BY <1>2 DEF BInv, TInv, Typed, Ranged, Counters, TimeInv
  <2>2. CycleCap \in Nat
    BY ConfigOK DEF Cycles
  <2> QED
    BY <2>1, <2>2, LimitsPositive DEF RunLeft
<1>4. /\ TotalTimeout - runtime.total \in 1 .. TotalTimeout /\ RunLeft(runtime) \in 0 .. RunTest
      /\ runtime.state = "RUN" => RunLeft(runtime) > 0 /\ runtime.cycles \in Nat
      /\ runtime.total \in Nat /\ TotalTimeout \in Nat /\ RunTest \in Nat
  BY RankParts, LimitsPositive, ConfigOK DEF BInv, TInv, Typed, Ranged, Counters, Cycles
<1>5. CASE TotalCounts(runtime)
  <2>1. TotalTimeout - runtime'.total = (TotalTimeout - runtime.total) - 1
    BY <1>1, <1>4, <1>5 DEF Stepped
  <2> QED
    BY <1>3, <1>4, <2>1, RankDrops DEF StartRank
<1>6. CASE ~TotalCounts(runtime)
  <2>1. runtime.state = "RUN"
    BY <1>6 DEF TotalCounts, BInv, IInv, Sound
  <2>2. runtime'.total = runtime.total
    BY <1>1, <1>6 DEF Stepped
  <2>3. runtime'.state = "RUN" => runtime'.cycles = runtime.cycles + 1
    BY <1>1, <2>1 DEF Stepped
  <2>4. RunLeft(runtime') < RunLeft(runtime)
    BY <1>4, <2>1, <2>3 DEF RunLeft
  <2>5. (TotalTimeout - runtime.total) * (RunTest + 1) \in Int
    BY <1>4
  <2> QED
    BY <1>3, <1>4, <2>2, <2>4, <2>5 DEF StartRank
<1> QED
  BY <1>5, <1>6

LEMMA StepStartClock ==
  BInv /\ [Next]_vars =>
    [runtime.request /\ runtime'.request =>
       /\ StartRank(runtime') <= StartRank(runtime)
       /\ PwmIsr => StartRank(runtime') < StartRank(runtime)]_vars
<1> SUFFICES ASSUME BInv, Next, runtime.request, runtime'.request
             PROVE  /\ StartRank(runtime') <= StartRank(runtime)
                    /\ PwmIsr => StartRank(runtime') < StartRank(runtime)
  OBVIOUS
<1>1. BInv'
  BY StepBInv
<1>2. StartRank(runtime) \in Int
  BY RankParts, LimitsPositive DEF StartRank
<1>3. CASE PwmIsr
  <2>1. StartRank(runtime') < StartRank(runtime)
    BY <1>3, PwmRank
  <2>2. StartRank(runtime') \in Int
    <3>1. /\ TotalTimeout - runtime'.total \in Int /\ RunLeft(runtime') \in Int
      BY <1>1, LimitsPositive, ConfigOK DEF BInv, TInv, Typed, Ranged, Counters, Cycles, RunLeft
    <3> QED
      BY <3>1, LimitsPositive DEF StartRank
  <2> QED
    BY <1>2, <2>1, <2>2
<1>4. CASE ~PwmIsr
  <2>1. StartRank(runtime') = StartRank(runtime)
    BY <1>4, OtherTimes DEF StartRank, RunLeft
  <2> QED
    BY <1>2, <1>4, <2>1
<1> QED
  BY <1>3, <1>4

\* A requested start has a finite number of PWM periods left, for every configuration, with
\* and without HFI and also when a stop is preempted: the total timeout and run_test_cycles
\* bound it together.
THEOREM StartIsBounded == Spec => []StartBounded
<1>1. BInv => StartBounded
  BY RankParts, RankBounds, LimitsPositive DEF StartBounded, StartRank
<1> QED
  BY <1>1, InitBInv, StepBInv, PTL DEF Spec

\* Every PWM period of a requested start uses up some of its periods, and no step of another
\* actor gives any back: however often the sequencer changes between HFI and the observer,
\* it cannot gain time.
THEOREM StartClockRuns == Spec => StartClock
BY InitBInv, StepBInv, StepStartClock, PTL DEF Spec, StartClock

LEMMA StepStopClock ==
  BInv /\ [Next]_vars =>
    [runtime.state = "STOPPING" /\ runtime'.state = "STOPPING" /\ ~StopStore =>
       /\ runtime'.cycles >= runtime.cycles
       /\ PwmIsr => runtime'.cycles = runtime.cycles + 1]_vars
<1> SUFFICES ASSUME BInv, Next, runtime.state = "STOPPING", runtime'.state = "STOPPING", ~StopStore
             PROVE  /\ runtime'.cycles >= runtime.cycles
                    /\ PwmIsr => runtime'.cycles = runtime.cycles + 1
  OBVIOUS
<1>1. runtime.cycles \in Nat
  BY ConfigOK DEF BInv, TInv, Typed, Ranged, Counters, Cycles
<1>2. CASE PwmIsr
  <2>1. runtime'.cycles = runtime.cycles + 1
    BY <1>2, PwmStepped DEF Ended, Stepped
  <2> QED
    BY <1>1, <2>1
<1>3. CASE ~PwmIsr
  <2>1. runtime'.cycles = runtime.cycles
    BY <1>3, OtherTimes
  <2> QED
    BY <1>1, <1>3, <2>1
<1> QED
  BY <1>2, <1>3

\* STOPPING never lasts stop_timeout_cycles periods.
THEOREM StopIsBounded == Spec => []StopBounded
<1>1. BInv => StopBounded
  BY DEF BInv, TimeInv
<1> QED
  BY <1>1, InitBInv, StepBInv, PTL DEF Spec

\* Every PWM period spent in STOPPING counts towards that limit, and only the store of
\* another stop request sets it back.
THEOREM StopClockRuns == Spec => StopClock
BY InitBInv, StepBInv, StepStopClock, PTL DEF Spec, StopClock
=============================================================================
