------------------------ MODULE SensorlessStartupProofs ------------------------
(***************************************************************************)
(* Proofs about SensorlessStartup for every configuration.  With and       *)
(* without preemption of a stop request: a failed or outlived start never  *)
(* drives, a fault closes the regulators, the first failure is kept, the   *)
(* sequencer implements the startup contract, and, without HFI, a debug    *)
(* mode stays in open loop.                                                *)
(***************************************************************************)
EXTENDS SensorlessStartup, TLAPS

(* -- What one call of the sequencer may do ---------------------------------- *)

Fields == {"state", "request", "cycles", "total", "lockGood", "hfiGood", "hfiBad", "unlockBad",
           "stopGood", "fromHfi", "hfiNew", "active", "failure"}
Shaped(r) == DOMAIN r = Fields

\* A runtime the sequencer may be left in: FAULT has withdrawn the request and the
\* outputs, STOPPING the request.
Sound(r) ==
  /\ Shaped(r) /\ r.state \in States
  /\ r.state \in {"FAULT", "STOPPING"} => ~r.request
  /\ r.state = "FAULT" => ~r.active

\* s is r in the same start.
Kept(r, s) == Shaped(s) /\ s.failure = r.failure /\ s.request = r.request

\* A call may not leave FAULT, replace a failure, record one without entering FAULT, ask
\* for a start, or fall back to IDLE with the start still asked for.
Leads(r, s) ==
  /\ Sound(s)
  /\ r.state = "FAULT" => s.state = "FAULT"
  /\ s.failure = r.failure \/ (r.failure = None /\ s.state = "FAULT")
  /\ s.request => r.request
  /\ s.request /\ s.state = "IDLE" => r.state = "IDLE"

Inner == States \ {"FAULT", "IDLE", "STOPPING"}

\* Entering FAULT keeps the first failure and withdraws the start.
LEMMA FaultLeads ==
  ASSUME NEW r, NEW a, Kept(r, a), NEW f
  PROVE  Leads(r, EnterFault(a, f)) /\ EnterFault(a, f).state = "FAULT"
BY DEF Leads, Kept, Sound, EnterFault, Enter, FailureFirst, Shaped, Fields, States

\* A move between the states of a start.
LEMMA KeptLeads ==
  ASSUME NEW r, NEW s, r.state # "FAULT", Kept(r, s), s.state \in Inner
  PROVE  Leads(r, s)
BY DEF Leads, Kept, Sound, Inner

LEMMA EnterKept ==
  ASSUME NEW r, NEW a, Kept(r, a), NEW s
  PROVE  Kept(r, Enter(a, s)) /\ Enter(a, s).state = s
BY DEF Kept, Shaped, Enter, Fields

LEMMA LeadsTwice ==
  ASSUME NEW r, NEW s, NEW t, Leads(r, s), Leads(s, t)
  PROVE  Leads(r, t)
BY DEF Leads

\* The end of a test in IDLE, and a stop, with or without its store.
LEMMA EndLeads ==
  ASSUME NEW r, NEW a, Kept(r, a), r.state # "FAULT"
  PROVE  /\ Leads(r, [Enter(a, "IDLE") EXCEPT !.active = FALSE, !.request = FALSE])
         /\ Leads(r, [Enter(a, "IDLE") EXCEPT !.request = FALSE])
BY DEF Leads, Kept, Sound, Enter, Shaped, Fields, States

LEMMA StopLeads ==
  ASSUME NEW r, NEW a, Kept(r, a), a.state = r.state, r.state \in Inner
  PROVE  Leads(r, StopRequested(a))
<1> DEFINE b == [a EXCEPT !.request = FALSE]
<1>1. Shaped(b) /\ ~b.request /\ b.failure = r.failure /\ b.state = r.state
  BY DEF Kept, Shaped, Fields
<1> HIDE DEF b
<1>2. Leads(r, b)
  BY <1>1 DEF Leads, Sound, Inner
<1>3. Leads(r, [Enter(b, "IDLE") EXCEPT !.active = FALSE])
  BY <1>1 DEF Leads, Sound, Enter, Shaped, Fields, Inner, States, ClosedStates
<1>4. Leads(r, [Enter(b, "STOPPING") EXCEPT !.stopGood = 0])
  BY <1>1 DEF Leads, Sound, Enter, Shaped, Fields, Inner, States, ClosedStates
<1> QED
  BY <1>2, <1>3, <1>4 DEF StopRequested, StoreStop, b

(* -- The states of the sequencer --------------------------------------------- *)

LEMMA IdleLeads ==
  ASSUME NEW r, Shaped(r), r.state = "IDLE", NEW in
  PROVE  Leads(r, Idle(r, in))
<1>1. Leads(r, EnterFault(r, "PARAM_INVALID"))
  BY FaultLeads DEF Kept
<1>2. Leads(r, [Enter(r, "ALIGN") EXCEPT !.hfiNew = FALSE, !.hfiGood = 0, !.hfiBad = 0])
  BY DEF Leads, Sound, Enter, Shaped, Fields, States
<1>3. Leads(r, r)
  BY DEF Leads, Sound, States
<1> QED
  BY <1>1, <1>2, <1>3 DEF Idle

LEMMA AlignLeads ==
  ASSUME NEW r, Shaped(r), r.state = "ALIGN", NEW in
  PROVE  Leads(r, Align(r, in))
<1> DEFINE a == [r EXCEPT !.active = TRUE]
<1>1. Kept(r, a) /\ a.state = "ALIGN"
  BY DEF Kept, Shaped, Fields
<1> HIDE DEF a
<1>2. Leads(r, a) /\ Leads(r, Enter(a, "HFI_ACQUIRE")) /\ Leads(r, Enter(a, "OPEN_LOOP_RAMP"))
  BY <1>1, KeptLeads, EnterKept DEF Inner, States, HfiStates
<1>3. Leads(r, EnterFault(a, "HFI_UNAVAILABLE"))
  BY <1>1, FaultLeads
<1>4. Leads(r, [Enter(a, "IDLE") EXCEPT !.active = FALSE, !.request = FALSE])
  BY <1>1, EndLeads
<1> QED
  BY <1>2, <1>3, <1>4 DEF Align, a

LEMMA HfiAcquireLeads ==
  ASSUME NEW r, Shaped(r), r.state = "HFI_ACQUIRE", NEW in
  PROVE  Leads(r, HfiAcquire(r, in))
<1> DEFINE a == [r EXCEPT !.active = TRUE, !.hfiGood = Count(@, HfiGood(r, in), HfiDwell)]
           b == [Enter(a, "HFI_RUN") EXCEPT !.lockGood = 0, !.hfiBad = 0]
<1>1. Kept(r, r) /\ Kept(r, a) /\ a.state = "HFI_ACQUIRE"
  BY DEF Kept, Shaped, Fields
<1> HIDE DEF a
<1>2. Kept(r, b) /\ b.state = "HFI_RUN"
  BY <1>1 DEF Kept, Enter, Shaped, Fields
<1> HIDE DEF b
<1>3. Leads(r, a) /\ Leads(r, b) /\ Leads(r, Enter(a, "OPEN_LOOP_RAMP"))
  BY <1>1, <1>2, KeptLeads, EnterKept DEF Inner, States, HfiStates
<1>4. Leads(r, EnterFault(r, "HFI_LOCK_LOST")) /\ Leads(r, EnterFault(a, "HFI_LOCK_TIMEOUT"))
  BY <1>1, FaultLeads
<1> QED
  BY <1>3, <1>4 DEF HfiAcquire, a, b

LEMMA HfiRunLeads ==
  ASSUME NEW r, Shaped(r), r.state = "HFI_RUN", NEW in
  PROVE  Leads(r, HfiRun(r, in))
<1> DEFINE a == [r EXCEPT !.active = TRUE, !.hfiBad = Count(@, ~HfiGood(r, in), UnlockDwell)]
           b == [a EXCEPT !.lockGood = Count(@, in.speed = "fast" /\ LockGood(r, in) /\ in.agree, LockDwell)]
           c == [Enter(b, "BLEND") EXCEPT !.fromHfi = TRUE]
<1>1. Kept(r, a) /\ a.state = "HFI_RUN"
  BY DEF Kept, Shaped, Fields
<1>2. Kept(r, b) /\ b.state = "HFI_RUN"
  BY <1>1 DEF Kept, Shaped, Fields
<1> HIDE DEF a, b
<1>3. Kept(r, c) /\ c.state = "BLEND"
  BY <1>2 DEF Kept, Enter, Shaped, Fields
<1> HIDE DEF c
<1>4. Leads(r, b) /\ Leads(r, c) /\ Leads(r, EnterFault(a, "HFI_LOCK_LOST"))
  BY <1>1, <1>2, <1>3, FaultLeads, KeptLeads DEF Inner, States, HfiStates, ClosedStates
<1> QED
  BY <1>4 DEF HfiRun, a, b, c

LEMMA OpenLoopRampLeads ==
  ASSUME NEW r, Shaped(r), r.state = "OPEN_LOOP_RAMP", NEW in
  PROVE  Leads(r, OpenLoopRamp(r, in))
<1> DEFINE a == [r EXCEPT !.active = TRUE]
<1>1. Kept(r, r) /\ Kept(r, a) /\ a.state = "OPEN_LOOP_RAMP" /\ r.state \in Inner
  BY DEF Kept, Shaped, Fields, Inner, States
<1> HIDE DEF a
<1>2. Leads(r, a) /\ Leads(r, Enter(a, "WAIT_LOCK")) /\ Leads(r, EnterFault(r, "RAMP_TIMEOUT"))
  BY <1>1, KeptLeads, EnterKept, FaultLeads DEF Inner, States
<1>3. Leads(r, StopRequested(a)) /\ Leads(r, StopRequested(r))
  BY <1>1, StopLeads
<1> QED
  BY <1>2, <1>3 DEF OpenLoopRamp, a

LEMMA WaitLockLeads ==
  ASSUME NEW r, Shaped(r), r.state = "WAIT_LOCK", NEW in
  PROVE  Leads(r, WaitLock(r, in))
<1> DEFINE a == [r EXCEPT !.active = TRUE]
           b == [a EXCEPT !.lockGood = Count(@, LockGood(r, in) /\ in.agree, LockDwell)]
           c == [Enter(b, "BLEND") EXCEPT !.fromHfi = FALSE]
<1>1. Kept(r, r) /\ Kept(r, a) /\ a.state = "WAIT_LOCK"
  BY DEF Kept, Shaped, Fields
<1>2. Kept(r, b) /\ b.state = "WAIT_LOCK"
  BY <1>1 DEF Kept, Shaped, Fields
<1> HIDE DEF a, b
<1>3. Kept(r, c) /\ c.state = "BLEND"
  BY <1>2 DEF Kept, Enter, Shaped, Fields
<1> HIDE DEF c
<1>4. Leads(r, a) /\ Leads(r, b) /\ Leads(r, c) /\ Leads(r, EnterFault(b, "LOCK_TIMEOUT"))
  BY <1>1, <1>2, <1>3, FaultLeads, KeptLeads DEF Inner, States, ClosedStates
<1>5. Leads(r, [Enter(r, "IDLE") EXCEPT !.request = FALSE])
  BY <1>1, EndLeads
<1> QED
  BY <1>4, <1>5 DEF WaitLock, a, b, c

LEMMA BlendLeads ==
  ASSUME NEW r, Shaped(r), r.state = "BLEND", NEW in
  PROVE  Leads(r, Blend(r, in))
<1> DEFINE a == [r EXCEPT !.active = TRUE]
           b == [Enter(a, IF r.fromHfi THEN "RUN" ELSE "IQ_HOLD") EXCEPT !.unlockBad = 0, !.hfiGood = 0]
<1>1. Kept(r, a) /\ a.state = "BLEND"
  BY DEF Kept, Shaped, Fields
<1> HIDE DEF a
<1>2. Kept(r, b) /\ b.state \in {"RUN", "IQ_HOLD"}
  BY <1>1 DEF Kept, Enter, Shaped, Fields
<1> HIDE DEF b
<1>3. Leads(r, a) /\ Leads(r, b)
  BY <1>1, <1>2, KeptLeads DEF Inner, States, ClosedStates
<1>4. Leads(r, EnterFault(a, "HFI_LOCK_LOST")) /\ Leads(r, EnterFault(a, "BLEND_FAILED"))
  BY <1>1, FaultLeads
<1> QED
  BY <1>3, <1>4 DEF Blend, a, b

\* Back to HFI, and the lock monitor of the two states that run on the observer.
LEMMA ReacquireKept ==
  ASSUME NEW r, NEW a, Kept(r, a)
  PROVE  Kept(r, Reacquire(a)) /\ Reacquire(a).state = "HFI_REACQUIRE"
BY DEF Reacquire, Kept, Enter, Shaped, Fields

LEMMA MonitorKept ==
  ASSUME NEW r, Shaped(r), r.state \in {"IQ_HOLD", "RUN"}, NEW in
  PROVE  LET m == CheckRunMonitors([r EXCEPT !.active = TRUE], in)
         IN  /\ Leads(r, m)
             /\ m.state \in {"IQ_HOLD", "RUN"} => m.state = r.state /\ Kept(r, m)
<1> DEFINE b == [r EXCEPT !.active = TRUE]
           a == [b EXCEPT !.unlockBad = Unlock(b, in)]
<1>1. Kept(r, a) /\ a.state = r.state
  BY DEF Kept, Shaped, Fields
<1> HIDE DEF a
<1>2. Leads(r, a) /\ Leads(r, Reacquire(a)) /\ Leads(r, EnterFault(a, "LOCK_LOST"))
  BY <1>1, ReacquireKept, FaultLeads, KeptLeads DEF Inner, States, HfiStates, ClosedStates
<1> QED
  BY <1>1, <1>2, ReacquireKept, FaultLeads DEF CheckRunMonitors, a

LEMMA IqHoldLeads ==
  ASSUME NEW r, Shaped(r), r.state = "IQ_HOLD", NEW in
  PROVE  Leads(r, IqHoldStep(r, in))
<1> DEFINE m == CheckRunMonitors([r EXCEPT !.active = TRUE], in)
<1>1. Leads(r, m) /\ (m.state = "IQ_HOLD" => Kept(r, m))
  BY MonitorKept
<1> HIDE DEF m
<1>2. m.state = "IQ_HOLD" => Leads(r, Enter(m, "RUN"))
  BY <1>1, EnterKept, KeptLeads DEF Inner, States, ClosedStates
<1> QED
  BY <1>1, <1>2 DEF IqHoldStep, m

LEMMA RunLeads ==
  ASSUME NEW r, Shaped(r), r.state = "RUN", NEW in
  PROVE  Leads(r, Run(r, in))
<1> DEFINE m == CheckRunMonitors([r EXCEPT !.active = TRUE], in)
<1>1. Leads(r, m) /\ (m.state = "RUN" => Kept(r, m))
  BY MonitorKept
<1> HIDE DEF m
<1>2. m.state = "RUN" => Leads(r, Reacquire(m))
  BY <1>1, ReacquireKept, KeptLeads DEF Inner, States, HfiStates, ClosedStates
<1>3. Leads(r, StopRequested(r))
  BY StopLeads DEF Kept, Inner, States, ClosedStates
<1> QED
  BY <1>1, <1>2, <1>3 DEF Run, m

LEMMA HfiReacquireLeads ==
  ASSUME NEW r, Shaped(r), r.state = "HFI_REACQUIRE", NEW in
  PROVE  Leads(r, HfiReacquire(r, in))
<1> DEFINE a == [r EXCEPT !.active = TRUE]
           b == [a EXCEPT !.hfiGood = Count(@, HfiGood(r, in) /\ in.agree, HfiDwell), !.unlockBad = Unlock(r, in)]
           c == [Enter(a, "RUN") EXCEPT !.unlockBad = 0]
<1>1. Kept(r, a)
  BY DEF Kept, Shaped, Fields
<1>2. Kept(r, b) /\ b.state = "HFI_REACQUIRE"
  BY DEF Kept, Shaped, Fields
<1> HIDE DEF a, b
<1>3. Kept(r, c) /\ c.state = "RUN"
  BY <1>1 DEF Kept, Enter, Shaped, Fields
<1> HIDE DEF c
<1>4. Leads(r, b) /\ Leads(r, c) /\ Leads(r, Enter(b, "BLEND_TO_HFI"))
  BY <1>2, <1>3, EnterKept, KeptLeads DEF Inner, States, HfiStates, ClosedStates
<1>5. Leads(r, EnterFault(b, "HFI_LOCK_TIMEOUT"))
  BY <1>2, FaultLeads
<1> QED
  BY <1>4, <1>5 DEF HfiReacquire, a, b, c

LEMMA BlendToHfiLeads ==
  ASSUME NEW r, Shaped(r), r.state = "BLEND_TO_HFI", NEW in
  PROVE  Leads(r, BlendToHfi(r, in))
<1> DEFINE a == [r EXCEPT !.active = TRUE]
           b == [Enter(r, "HFI_REACQUIRE") EXCEPT !.hfiGood = 0]
           c == [Enter(a, "HFI_RUN") EXCEPT !.hfiBad = 0, !.lockGood = 0]
<1>1. Kept(r, a) /\ a.state = "BLEND_TO_HFI"
  BY DEF Kept, Shaped, Fields
<1>2. Kept(r, b) /\ b.state = "HFI_REACQUIRE"
  BY DEF Kept, Enter, Shaped, Fields
<1> HIDE DEF a, b
<1>3. Kept(r, c) /\ c.state = "HFI_RUN"
  BY <1>1 DEF Kept, Enter, Shaped, Fields
<1> HIDE DEF c
<1>4. Leads(r, a) /\ Leads(r, b) /\ Leads(r, c) /\ Leads(r, Enter(a, "RUN"))
  BY <1>1, <1>2, <1>3, EnterKept, KeptLeads DEF Inner, States, HfiStates, ClosedStates
<1> QED
  BY <1>4 DEF BlendToHfi, a, b, c

LEMMA StoppingLeads ==
  ASSUME NEW r, Sound(r), r.state = "STOPPING", NEW in
  PROVE  Leads(r, Stopping(r, in))
<1> DEFINE a == [r EXCEPT !.active = TRUE, !.stopGood = Count(@, in.settled, StopDwell)]
<1>1. Kept(r, a) /\ a.state = "STOPPING" /\ ~a.request
  BY DEF Kept, Sound, Shaped, Fields
<1> HIDE DEF a
<1>2. Leads(r, a)
  BY <1>1 DEF Leads, Kept, Sound, States, ClosedStates
<1>3. Leads(r, Enter(a, "IDLE"))
  BY <1>1 DEF Leads, Kept, Sound, Enter, Shaped, Fields, States
<1>4. Leads(r, EnterFault(a, "STOP_TIMEOUT"))
  BY <1>1, FaultLeads
<1> QED
  BY <1>2, <1>3, <1>4 DEF Stopping, a

\* What the step does before and after its switch.
LEMMA PrologueLeads ==
  ASSUME NEW r, Sound(r), NEW in
  PROVE  Leads(r, Prologue(r, in))
<1> DEFINE p == [r EXCEPT !.active = FALSE, !.cycles = IF @ < CycleCap THEN @ + 1 ELSE @,
                          !.hfiNew = @ \/ in.hfiFault, !.total = IF TotalCounts(r) THEN @ + 1 ELSE @]
           q == IF TotalCounts(r) /\ p.total >= TotalTimeout THEN EnterFault(p, "START_TIMEOUT") ELSE p
<1>1. Kept(r, p) /\ p.state = r.state /\ ~p.active
  BY DEF Kept, Sound, Shaped, Fields
<1> HIDE DEF p
<1>2. Leads(r, p)
  BY <1>1 DEF Leads, Kept, Sound
<1>3. Leads(r, EnterFault(p, "START_TIMEOUT")) /\ EnterFault(p, "START_TIMEOUT").state = "FAULT"
  BY <1>1, FaultLeads
<1>4. Leads(r, EnterFault(p, "OBSERVER_NUMERIC"))
  BY <1>1, FaultLeads
<1>5. Leads(r, q) /\ (Running(q) => q = p)
  BY <1>2, <1>3 DEF Running
<1> HIDE DEF q
<1> QED
  BY <1>4, <1>5 DEF Prologue, p, q

LEMMA HandleLeads ==
  ASSUME NEW r, Sound(r), NEW in
  PROVE  Leads(r, Handle(r, in))
<1>1. Shaped(r)
  BY DEF Sound
<1>2. CASE r.state = "IDLE"           BY <1>1, <1>2, IdleLeads DEF Handle
<1>3. CASE r.state = "ALIGN"          BY <1>1, <1>3, AlignLeads DEF Handle
<1>4. CASE r.state = "HFI_ACQUIRE"    BY <1>1, <1>4, HfiAcquireLeads DEF Handle
<1>5. CASE r.state = "HFI_RUN"        BY <1>1, <1>5, HfiRunLeads DEF Handle
<1>6. CASE r.state = "OPEN_LOOP_RAMP" BY <1>1, <1>6, OpenLoopRampLeads DEF Handle
<1>7. CASE r.state = "WAIT_LOCK"      BY <1>1, <1>7, WaitLockLeads DEF Handle
<1>8. CASE r.state = "BLEND"          BY <1>1, <1>8, BlendLeads DEF Handle
<1>9. CASE r.state = "IQ_HOLD"        BY <1>1, <1>9, IqHoldLeads DEF Handle
<1>10. CASE r.state = "RUN"           BY <1>1, <1>10, RunLeads DEF Handle
<1>11. CASE r.state = "HFI_REACQUIRE" BY <1>1, <1>11, HfiReacquireLeads DEF Handle
<1>12. CASE r.state = "BLEND_TO_HFI"  BY <1>1, <1>12, BlendToHfiLeads DEF Handle
<1>13. CASE r.state = "STOPPING"      BY <1>13, StoppingLeads DEF Handle
<1>14. CASE r.state = "FAULT"
  BY <1>14 DEF Handle, Leads
<1> QED
  BY <1>2, <1>3, <1>4, <1>5, <1>6, <1>7, <1>8, <1>9, <1>10, <1>11, <1>12, <1>13, <1>14
     DEF Sound, States, HfiStates, ClosedStates


LEMMA ProbeLeads ==
  ASSUME NEW r, Sound(r), NEW in
  PROVE  Leads(r, Probe(r, in))
<1>1. Leads(r, r)
  BY DEF Leads
<1>2. Kept(r, r)
  BY DEF Kept, Sound
<1>3. Leads(r, EnterFault(r, "CURRENT_INPUT"))
  BY <1>2, FaultLeads
<1>4. r.active => Leads(r, [Enter(r, "IDLE") EXCEPT !.active = FALSE, !.request = FALSE])
  BY <1>2, EndLeads DEF Sound
<1> QED
  BY <1>1, <1>3, <1>4 DEF Probe

LEMMA StepLeads ==
  ASSUME NEW r, Sound(r), NEW in
  PROVE  Leads(r, Step(r, in))
<1> DEFINE p == Prologue(r, in)
           h == Handle(p, in)
<1>1. Leads(r, p)
  BY PrologueLeads
<1>2. Sound(p) => Leads(p, h)
  BY HandleLeads
<1>3. Sound(h) => Leads(h, Probe(h, in))
  BY ProbeLeads
<1> HIDE DEF p, h
<1>4. Sound(p) /\ Leads(p, h) /\ Sound(h) /\ Leads(h, Probe(h, in))
  BY <1>1, <1>2, <1>3 DEF Leads
<1>5. Leads(p, Probe(h, in))
  BY <1>4, LeadsTwice
<1> QED
  BY <1>1, <1>5, LeadsTwice DEF Step, p, h

LEMMA GuardLeads ==
  ASSUME NEW r, Sound(r), NEW allowed
  PROVE  Leads(r, PwmGuard(r, allowed)) /\ Leads(r, DriveLost(r))
<1>1. Leads(r, r) /\ Kept(r, r)
  BY DEF Leads, Kept, Sound
<1> QED
  BY <1>1, FaultLeads DEF PwmGuard, DriveLost

(* -- A step with nothing to do ------------------------------------------------ *)

\* Nothing runs and nothing is asked for.
Quiet(r) == ~Running(r) /\ ~r.request

\* A quiet sequencer stays quiet and without outputs.
LEMMA QuietStep ==
  ASSUME NEW r, Sound(r), Quiet(r), NEW in
  PROVE  Quiet(Step(r, in)) /\ Step(r, in).state = r.state /\ ~Step(r, in).active
<1> DEFINE p == [r EXCEPT !.active = FALSE, !.cycles = IF @ < CycleCap THEN @ + 1 ELSE @,
                          !.hfiNew = @ \/ in.hfiFault, !.total = IF TotalCounts(r) THEN @ + 1 ELSE @]
<1>1. ~p.active /\ ~p.request /\ p.state = r.state
  BY DEF Quiet, Sound, Shaped, Fields
<1> HIDE DEF p
<1>2. ~TotalCounts(r) /\ r.state \in {"IDLE", "FAULT"}
  BY DEF Quiet, TotalCounts, Running
<1>3. Prologue(r, in) = p
  BY <1>1, <1>2 DEF Prologue, Running, p
<1>4. Handle(p, in) = p
  BY <1>1, <1>2 DEF Handle, Idle
<1>5. Step(r, in) = p
  BY <1>1, <1>3, <1>4 DEF Step, Probe
<1> QED
  BY <1>1, <1>2, <1>5 DEF Quiet, Running

\* A start begins in ALIGN, or fails, and drives nothing in its first period.
LEMMA IdleStep ==
  ASSUME NEW r, Sound(r), r.state = "IDLE", NEW in
  PROVE  Step(r, in).state \in {"IDLE", "ALIGN", "FAULT"} /\ ~Step(r, in).active
<1> DEFINE p == [r EXCEPT !.active = FALSE, !.cycles = IF @ < CycleCap THEN @ + 1 ELSE @,
                          !.hfiNew = @ \/ in.hfiFault, !.total = IF TotalCounts(r) THEN @ + 1 ELSE @]
           b == [Enter(p, "ALIGN") EXCEPT !.hfiNew = FALSE, !.hfiGood = 0, !.hfiBad = 0]
<1>1. ~p.active /\ p.state = "IDLE" /\ Kept(r, p)
  BY DEF Kept, Sound, Shaped, Fields
<1> HIDE DEF p
<1>2. ~b.active /\ b.state = "ALIGN"
  BY <1>1 DEF Enter, Kept, Shaped, Fields
<1> HIDE DEF b
<1>3. \A f : EnterFault(p, f).state = "FAULT" /\ ~EnterFault(p, f).active
  BY <1>1, FaultLeads DEF Leads, Sound
<1>4. Prologue(r, in) = p \/ Prologue(r, in) = EnterFault(p, "START_TIMEOUT")
  BY <1>1, <1>3 DEF Prologue, Running, p
<1>5. Handle(Prologue(r, in), in) \in {p, b, EnterFault(p, "PARAM_INVALID"), EnterFault(p, "START_TIMEOUT")}
  BY <1>1, <1>3, <1>4 DEF Handle, Idle, b
<1>6. Step(r, in) = Handle(Prologue(r, in), in)
  BY <1>1, <1>2, <1>3, <1>5 DEF Step, Probe
<1> QED
  BY <1>1, <1>2, <1>3, <1>5, <1>6

(* -- The drive ---------------------------------------------------------------- *)

\* The start has outlived the drive, or has failed.
Over == stale \/ runtime.failure # None

\* Such a start is quiet once a PWM period has passed and while the regulators are on,
\* and no store of STOPPING is then under way.  A store under way belongs to a start
\* that is no longer asked for.
Settled ==
  /\ ~regul \/ hookSent => stale
  /\ (due \/ regul) /\ Over => Quiet(runtime)
  /\ pc = "toStopping" /\ Over => ~regul
  /\ pc # "idle" => ~runtime.request

IInv == Sound(runtime) /\ Settled /\ NoStaleStart /\ FaultSilent /\ FaultCutsDrive

LEMMA InitSound == Sound(InitRuntime) /\ InitRuntime.failure = None /\ Quiet(InitRuntime)
BY DEF Sound, InitRuntime, Shaped, Fields, States, Quiet, Running

LEMMA InitIInv == Init => IInv
BY InitSound DEF Init, IInv, Settled, Over, NoStaleStart, FaultSilent, FaultCutsDrive, InitRuntime

\* What one PWM period makes of the sequencer: the guard, then the step, or the trip of a
\* start without regulators, and last the verdict of the current loop.
LEMMA PwmLeads ==
  ASSUME Sound(runtime), NEW in, NEW lease
  PROVE  LET guarded == PwmGuard(runtime, lease /\ regul /\ ~err)
             r       == IF regul THEN Step(guarded, in) ELSE DriveLost(guarded)
         IN  /\ Leads(runtime, r) /\ Leads(runtime, EnterFault(r, "CURRENT"))
             /\ EnterFault(r, "CURRENT").state = "FAULT"
             /\ Quiet(runtime) => Quiet(r) /\ r.state = runtime.state /\ (regul => ~r.active)
             /\ ~regul => Quiet(r)
             /\ runtime.state = "IDLE" => r.state \in {"IDLE", "ALIGN", "FAULT"} /\ (regul => ~r.active)
<1> DEFINE guarded == PwmGuard(runtime, lease /\ regul /\ ~err)
           r       == IF regul THEN Step(guarded, in) ELSE DriveLost(guarded)
<1>1. Leads(runtime, guarded) /\ Sound(guarded)
  BY GuardLeads DEF Leads
<1>2. Quiet(runtime) => guarded = runtime
  BY DEF Quiet, Running, PwmGuard, Guarded
<1>3. ~regul => Quiet(DriveLost(guarded))
  <2>1. Kept(runtime, runtime)
    BY DEF Kept, Sound
  <2>2. ~regul => Quiet(guarded)
    BY <2>1, FaultLeads DEF PwmGuard, Guarded, Quiet, Running, Sound, Leads
  <2> QED
    BY <2>2 DEF DriveLost, Quiet
<1> HIDE DEF guarded
<1>4. Leads(runtime, r)
  BY <1>1, StepLeads, GuardLeads, LeadsTwice
<1>5. Quiet(runtime) => Quiet(r) /\ r.state = runtime.state /\ (regul => ~r.active)
  BY <1>1, <1>2, <1>3, QuietStep DEF DriveLost, Quiet
<1>9. runtime.state = "IDLE" => r.state \in {"IDLE", "ALIGN", "FAULT"} /\ (regul => ~r.active)
  <2>1. ~regul => r.state \in {"IDLE", "FAULT"}
    BY <1>3 DEF Quiet, Running
  <2>2. runtime.state = "IDLE" => guarded.state \in {"IDLE", "FAULT"}
    <3>1. Kept(runtime, runtime)
      BY DEF Kept, Sound
    <3> QED
      BY <3>1, FaultLeads DEF PwmGuard, guarded
  <2>3. guarded.state = "IDLE" /\ regul => r.state \in {"IDLE", "ALIGN", "FAULT"} /\ ~r.active
    BY <1>1, IdleStep
  <2>4. guarded.state = "FAULT" /\ regul => r.state = "FAULT" /\ ~r.active
    BY <1>1, StepLeads DEF Leads, Sound
  <2> QED
    BY <2>1, <2>2, <2>3, <2>4
<1>6. ~regul => Quiet(r)
  BY <1>3
<1> HIDE DEF r
<1>7. Leads(r, EnterFault(r, "CURRENT")) /\ EnterFault(r, "CURRENT").state = "FAULT"
  BY <1>4, FaultLeads DEF Leads, Kept, Sound
<1>8. Leads(runtime, EnterFault(r, "CURRENT"))
  BY <1>4, <1>7, LeadsTwice
<1> QED
  BY <1>4, <1>5, <1>6, <1>7, <1>8, <1>9 DEF guarded, r

LEMMA PwmIsrIInv == IInv /\ PwmIsr => IInv'
<1> SUFFICES ASSUME IInv, PwmIsr PROVE IInv'
  OBVIOUS
<1>1. PICK lease \in BOOLEAN, currentOk \in BOOLEAN, in \in Samples(runtime.state) :
       LET guarded == PwmGuard(runtime, lease /\ regul /\ ~err)
           r     == IF regul THEN Step(guarded, in) ELSE DriveLost(guarded)
           owns  == regul /\ r.active
           trips == owns /\ ~currentOk
           hooks == trips \/ (regul /\ Hook(r))
       IN  /\ runtime' = IF trips THEN EnterFault(r, "CURRENT") ELSE r
           /\ owned' = (owns /\ ~trips)
           /\ err' = (err \/ hooks) /\ regul' = (regul /\ ~hooks)
           /\ hookSent' = (hookSent \/ hooks)
           /\ stale' = (stale \/ ~regul')
  BY DEF PwmIsr
<1> DEFINE guarded == PwmGuard(runtime, lease /\ regul /\ ~err)
           r     == IF regul THEN Step(guarded, in) ELSE DriveLost(guarded)
           owns  == regul /\ r.active
           trips == owns /\ ~currentOk
           hooks == trips \/ (regul /\ Hook(r))
<1>2. /\ Leads(runtime, r) /\ Leads(runtime, EnterFault(r, "CURRENT"))
      /\ EnterFault(r, "CURRENT").state = "FAULT"
      /\ Quiet(runtime) => Quiet(r) /\ (regul => ~r.active)
      /\ ~regul => Quiet(r)
  BY PwmLeads DEF IInv
<1>3. /\ runtime' = IF trips THEN EnterFault(r, "CURRENT") ELSE r
      /\ (owned' = (owns /\ ~trips)) /\ (regul' = (regul /\ ~hooks))
      /\ (hookSent' = (hookSent \/ hooks)) /\ (stale' = (stale \/ ~regul'))
  BY <1>1
<1> HIDE DEF r
<1>4. Leads(runtime, runtime') /\ Sound(runtime')
  BY <1>2, <1>3 DEF Leads
<1>5. hooks => runtime'.state = "FAULT" /\ ~runtime'.active
  BY <1>2, <1>3, <1>4 DEF Hook, Sound
<1>6. runtime'.state = "FAULT" => Quiet(runtime)'
  BY <1>4 DEF Sound, Quiet, Running
<1>7. ~regul => Quiet(runtime)'
  BY <1>2, <1>3
<1>8. regul /\ Over => Quiet(runtime)' /\ ~owned'
  BY <1>2, <1>3 DEF IInv, Settled
<1>9. Over' => Over \/ runtime'.state = "FAULT" \/ ~regul
  BY <1>3, <1>4, <1>5 DEF Over, Leads
<1>10. Over' => Quiet(runtime)' /\ ~owned'
  <2>1. runtime'.state = "FAULT" => ~owned'
    BY <1>3, <1>4 DEF Sound, Leads
  <2>2. ~regul => ~owned'
    BY <1>3
  <2> QED
    BY <1>6, <1>7, <1>8, <1>9, <2>1, <2>2
<1>11. ~regul' \/ hookSent' => stale'
  BY <1>3 DEF IInv, Settled
<1>12. runtime'.state = "FAULT" /\ regul' => stale'
  BY <1>3 DEF Hook, IInv, Settled
<1>13. (pc' = "toStopping" /\ Over' => ~regul') /\ (pc' # "idle" => ~runtime'.request)
  <2>1. pc' = pc
    BY DEF PwmIsr
  <2>2. Over \/ runtime'.state = "FAULT" \/ ~regul => Over \/ ~regul'
    BY <1>3, <1>12 DEF Over, Hook, IInv, Settled
  <2> QED
    BY <1>3, <1>4, <1>9, <2>1, <2>2 DEF IInv, Settled, Leads
<1> QED
  BY <1>4, <1>10, <1>11, <1>12, <1>13
     DEF IInv, Settled, Over, NoStaleStart, FaultSilent, FaultCutsDrive

\* A stop request: its tests, and its store.
LEMMA StopIInv == IInv /\ (StopTest \/ StopStore) => IInv'
<1> SUFFICES ASSUME IInv PROVE StopTest \/ StopStore => IInv'
  OBVIOUS
<1>1. ASSUME StopTest PROVE IInv'
  <2>1. Sound(runtime)' /\ runtime'.failure = runtime.failure /\ runtime'.state = runtime.state
          /\ (runtime'.request => runtime.request)
    BY <1>1 DEF StopTest, IInv, Sound, Shaped, Fields
  <2>2. (pc' = "toStopping" => Running(runtime)) /\ (pc' # "idle" => ~runtime'.request)
    BY <1>1 DEF StopTest, StopBranch, IInv, Sound, Shaped, Fields
  <2> QED
    BY <1>1, <2>1, <2>2 DEF StopTest, driveVars, IInv, Settled, Over, Quiet, Running,
                            NoStaleStart, FaultSilent, FaultCutsDrive
<1>2. ASSUME StopStore PROVE IInv'
  <2> DEFINE i == [Enter(runtime, "IDLE") EXCEPT !.active = FALSE]
             s == [Enter(runtime, "STOPPING") EXCEPT !.stopGood = 0]
  <2>1. Shaped(i) /\ i.state = "IDLE" /\ i.request = runtime.request /\ i.failure = runtime.failure
    BY DEF IInv, Sound, Enter, Shaped, Fields
  <2>2. Shaped(s) /\ s.state = "STOPPING" /\ s.request = runtime.request /\ s.failure = runtime.failure
    BY DEF IInv, Sound, Enter, Shaped, Fields
  <2> HIDE DEF i, s
  <2>3. /\ due' = FALSE /\ pc' = "idle" /\ ~runtime.request
        /\ UNCHANGED <<owned, hookSent, regul, err, stale>>
    BY <1>2 DEF StopStore, driveVars, IInv, Settled
  <2>6. runtime' \in {runtime, i} \/ (runtime' = s /\ pc = "toStopping")
    BY <1>2 DEF StopStore, StoreStop, i, s
  <2>4. Sound(runtime)' /\ runtime'.failure = runtime.failure /\ ~runtime'.request
    BY <2>1, <2>2, <2>3, <2>6 DEF IInv, Sound, States, ClosedStates
  <2>5. regul' /\ Over' => Quiet(runtime)'
    BY <2>1, <2>3, <2>4, <2>6 DEF IInv, Settled, Over, Quiet, Running
  <2> QED
    BY <2>3, <2>4, <2>5 DEF IInv, Settled, NoStaleStart, FaultSilent, FaultCutsDrive
<1> QED
  BY <1>1, <1>2

\* The other requests of the 1 ms interrupt.
LEMMA RequestIInv ==
  IInv /\ (RequestStart \/ ClearFault \/ Configure \/ Revoke) => IInv'
<1> SUFFICES ASSUME IInv PROVE RequestStart \/ ClearFault \/ Configure \/ Revoke => IInv'
  OBVIOUS
<1>1. ASSUME RequestStart PROVE IInv'
  <2> DEFINE n == [InitRuntime EXCEPT !.request = TRUE]
  <2>1. Sound(n) /\ n.failure = None /\ n.state = "IDLE"
    BY DEF InitRuntime, Sound, Shaped, Fields, States
  <2> HIDE DEF n
  <2>2. runtime' = n /\ ~stale' /\ ~hookSent' /\ ~due' /\ regul' /\ pc' = "idle"
    BY <1>1 DEF RequestStart, n
  <2> QED
    BY <2>1, <2>2 DEF IInv, Settled, Over, NoStaleStart, FaultSilent, FaultCutsDrive
<1>2. ASSUME ClearFault PROVE IInv'
  <2> DEFINE b == IF runtime.state = "FAULT" THEN [Enter(runtime, "IDLE") EXCEPT !.request = FALSE]
                  ELSE runtime
             c == [b EXCEPT !.failure = None]
  <2>1. Sound(b) /\ (Quiet(runtime) => Quiet(b)) /\ (b.request => runtime.request)
    BY DEF IInv, Sound, Enter, Shaped, Fields, States, Quiet, Running
  <2> HIDE DEF b
  <2>2. Sound(c) /\ c.failure = None /\ (Quiet(b) => Quiet(c)) /\ (c.request => b.request)
    BY <2>1 DEF Sound, Shaped, Fields, Quiet, Running
  <2> HIDE DEF c
  <2>3. runtime' = c /\ UNCHANGED <<owned, regul, pc, due, stale>> /\ ~hookSent' /\ ~regul
    BY <1>2 DEF ClearFault, driveVars, b, c
  <2> QED
    BY <2>1, <2>2, <2>3 DEF IInv, Settled, Over, NoStaleStart, FaultSilent, FaultCutsDrive
<1>3. ASSUME Configure PROVE IInv'
  <2> DEFINE n == [InitRuntime EXCEPT !.failure = runtime.failure]
  <2>1. Sound(n) /\ n.failure = runtime.failure /\ Quiet(n) /\ n.state = "IDLE"
    BY DEF InitRuntime, Sound, Shaped, Fields, States, Quiet, Running
  <2> HIDE DEF n
  <2>2. runtime' = n /\ UNCHANGED <<owned, hookSent, regul, pc, due, stale>>
    BY <1>3 DEF Configure, driveVars, n
  <2> QED
    BY <2>1, <2>2 DEF IInv, Settled, Over, Quiet, Running, NoStaleStart, FaultSilent, FaultCutsDrive
<1>4. ASSUME Revoke PROVE IInv'
  <2> DEFINE f == EnterFault(runtime, "EXTERNAL")
  <2>1. Leads(runtime, f) /\ f.state = "FAULT"
    BY FaultLeads DEF IInv, Sound, Kept
  <2> HIDE DEF f
  <2>2. runtime' = f /\ UNCHANGED <<owned, hookSent, regul, pc, stale>> /\ ~due'
          /\ pc = "idle" /\ (regul => ~Over)
    BY <1>4 DEF Revoke, driveVars, f, IInv, Settled, Guarded, Quiet, Running
  <2>3. Sound(runtime)' /\ Quiet(runtime)'
    BY <2>1, <2>2 DEF Leads, Sound, Quiet, Running
  <2> QED
    BY <2>2, <2>3 DEF IInv, Settled, Over, NoStaleStart, FaultSilent, FaultCutsDrive
<1> QED
  BY <1>1, <1>2, <1>3, <1>4

LEMMA StepIInv == IInv /\ [Next]_vars => IInv'
<1> SUFFICES ASSUME IInv, [Next]_vars PROVE IInv'
  OBVIOUS
<1>1. CASE PwmIsr
  BY <1>1, PwmIsrIInv
<1>2. CASE StopTest \/ StopStore
  BY <1>2, StopIInv
<1>3. CASE RequestStart \/ ClearFault \/ Configure \/ Revoke
  BY <1>3, RequestIInv
<1>4. CASE DriveFault \/ DriveOff
  BY <1>4 DEF DriveFault, DriveOff, IInv, Settled, Over, NoStaleStart, FaultSilent, FaultCutsDrive
<1>5. CASE DriveOn
  BY <1>5 DEF DriveOn, IInv, Settled, Over, NoStaleStart, FaultSilent, FaultCutsDrive
<1>6. CASE FaultReset \/ UpdateTarget
  BY <1>6 DEF FaultReset, UpdateTarget, driveVars, IInv, Settled, Over, NoStaleStart, FaultSilent,
             FaultCutsDrive
<1>7. CASE UNCHANGED vars
  BY <1>7 DEF vars, IInv, Settled, Over, NoStaleStart, FaultSilent, FaultCutsDrive
<1> QED
  BY <1>1, <1>2, <1>3, <1>4, <1>5, <1>6, <1>7 DEF Next

\* A start that outlived a drive disable never drives, in every configuration.
THEOREM StaleStartsNeverDrive == Spec => []NoStaleStart
<1>1. IInv => NoStaleStart
  BY DEF IInv
<1> QED
  BY <1>1, InitIInv, StepIInv, PTL DEF Spec

\* A sequencer in FAULT has closed the regulators by the end of the PWM period.
THEOREM FaultsCutTheDrive == Spec => []FaultCutsDrive
<1>1. IInv => FaultCutsDrive
  BY DEF IInv
<1> QED
  BY <1>1, InitIInv, StepIInv, PTL DEF Spec

\* A recorded failure leaves no outputs, whatever a cut stop request stores over the state.
THEOREM FaultsAreSilent == Spec => []FaultSilent
<1>1. IInv => FaultSilent
  BY DEF IInv
<1> QED
  BY <1>1, InitIInv, StepIInv, PTL DEF Spec

\* No step replaces a recorded failure by another one.
LEMMA StepFailure ==
  IInv /\ [Next]_vars => [runtime.failure # None => runtime'.failure \in {runtime.failure, None}]_vars
<1> SUFFICES ASSUME IInv, Next PROVE runtime.failure # None => runtime'.failure \in {runtime.failure, None}
  OBVIOUS
<1>1. CASE PwmIsr
  <2>1. PICK lease \in BOOLEAN, currentOk \in BOOLEAN, in \in Samples(runtime.state) :
         LET guarded == PwmGuard(runtime, lease /\ regul /\ ~err)
             r     == IF regul THEN Step(guarded, in) ELSE DriveLost(guarded)
         IN  runtime' \in {EnterFault(r, "CURRENT"), r}
    BY <1>1 DEF PwmIsr
  <2> QED
    BY <2>1, PwmLeads DEF IInv, Leads
<1>2. CASE StopTest \/ StopStore
  BY <1>2 DEF StopTest, StopStore, StoreStop, Enter, IInv, Sound, Shaped, Fields
<1>3. CASE RequestStart \/ ClearFault \/ Configure
  BY <1>3 DEF RequestStart, ClearFault, Configure, InitRuntime, Enter, IInv, Sound, Shaped, Fields
<1>4. CASE Revoke
  BY <1>4, FaultLeads DEF Revoke, IInv, Sound, Kept, Leads
<1>5. CASE DriveFault \/ DriveOff \/ DriveOn \/ FaultReset \/ UpdateTarget
  BY <1>5 DEF DriveFault, DriveOff, DriveOn, FaultReset, UpdateTarget
<1> QED
  BY <1>1, <1>2, <1>3, <1>4, <1>5 DEF Next

\* The first failure of a start is what is reported until a new start or a clear.
THEOREM FirstFailureIsKept == Spec => FirstFailureKept
BY InitIInv, StepIInv, StepFailure, PTL DEF Spec, FirstFailureKept

(* -- Debug modes without HFI ---------------------------------------------------- *)

\* The states a debug mode may reach.
OpenStates ==
  {"IDLE", "ALIGN", "FAULT"} \cup (IF mode # "ALIGN" THEN {"OPEN_LOOP_RAMP"} ELSE {})
    \cup (IF mode \in {"IF", "D_AXIS"} THEN {"WAIT_LOCK"} ELSE {})

OpenInv ==
  /\ mode \in Modes
  /\ mode # "FULL" => runtime.state \in OpenStates
  /\ pc = "toStopping" => mode = "FULL"

LEMMA FaultState ==
  ASSUME NEW r, Shaped(r), NEW f
  PROVE  EnterFault(r, f).state = "FAULT"
BY FaultLeads DEF Kept

LEMMA OpenHandle ==
  ASSUME HfiEnable = FALSE, mode # "FULL", mode \in Modes, NEW r, Sound(r), r.state \in OpenStates, NEW in
  PROVE  Handle(r, in).state \in OpenStates
<1>1. Shaped(r)
  BY DEF Sound
<1>2. CASE r.state = "IDLE"
  <2>1. Idle(r, in).state \in {"IDLE", "FAULT", "ALIGN"}
    BY <1>1, <1>2, FaultState DEF Idle, Enter, Shaped, Fields
  <2> QED
    BY <1>2, <2>1 DEF Handle, OpenStates
<1>3. CASE r.state = "ALIGN"
  <2> DEFINE a == [r EXCEPT !.active = TRUE]
  <2>1. Shaped(a) /\ a.state = "ALIGN"
    BY <1>1, <1>3 DEF Shaped, Fields
  <2> HIDE DEF a
  <2>2. Enter(a, "OPEN_LOOP_RAMP").state = "OPEN_LOOP_RAMP" /\ EnterFault(a, "HFI_UNAVAILABLE").state = "FAULT"
          /\ [Enter(a, "IDLE") EXCEPT !.active = FALSE, !.request = FALSE].state = "IDLE"
    BY <2>1, FaultState DEF Enter, Shaped, Fields
  <2>3. Align(r, in).state \in {"ALIGN", "IDLE", "FAULT"} \/ (mode # "ALIGN" /\ Align(r, in).state = "OPEN_LOOP_RAMP")
    BY <2>1, <2>2 DEF Align, a
  <2> QED
    BY <1>3, <2>3 DEF Handle, OpenStates
<1>4. CASE r.state = "OPEN_LOOP_RAMP"
  <2> DEFINE a == [r EXCEPT !.active = TRUE]
  <2>1. Shaped(a) /\ a.state = "OPEN_LOOP_RAMP"
    BY <1>1, <1>4 DEF Shaped, Fields
  <2> HIDE DEF a
  <2>2. \A x : Shaped(x) /\ x.state = "OPEN_LOOP_RAMP" => StopRequested(x).state = "IDLE"
    BY DEF StopRequested, StopBranch, StoreStop, Enter, Shaped, Fields
  <2>3. Enter(a, "WAIT_LOCK").state = "WAIT_LOCK" /\ EnterFault(r, "RAMP_TIMEOUT").state = "FAULT"
    BY <1>1, <2>1, FaultState DEF Enter, Shaped, Fields
  <2>4. mode \in {"IF", "D_AXIS", "SCAN", "TRAVEL", "PROBE"}
    BY <1>4, ConfigOK DEF OpenStates
  <2>5. OpenLoopRamp(r, in).state \in {"OPEN_LOOP_RAMP", "IDLE", "FAULT"}
          \/ (mode \in {"IF", "D_AXIS"} /\ OpenLoopRamp(r, in).state = "WAIT_LOCK")
    BY <1>1, <1>4, <2>1, <2>2, <2>3, <2>4 DEF OpenLoopRamp, a
  <2> QED
    BY <1>4, <2>4, <2>5 DEF Handle, OpenStates
<1>5. CASE r.state = "WAIT_LOCK"
  <2> DEFINE a == [r EXCEPT !.active = TRUE]
  <2>1. a.state = "WAIT_LOCK" /\ [Enter(r, "IDLE") EXCEPT !.request = FALSE].state = "IDLE"
    BY <1>1, <1>5 DEF Enter, Shaped, Fields
  <2> HIDE DEF a
  <2>2. mode \in {"IF", "D_AXIS"}
    BY <1>5 DEF OpenStates
  <2>3. WaitLock(r, in).state \in {"WAIT_LOCK", "IDLE"}
    BY <2>1, <2>2 DEF WaitLock, HoldsSpeed, a
  <2> QED
    BY <1>5, <2>2, <2>3 DEF Handle, OpenStates
<1>6. CASE r.state = "FAULT"
  BY <1>6 DEF Handle, OpenStates
<1> QED
  BY <1>2, <1>3, <1>4, <1>5, <1>6 DEF OpenStates

LEMMA OpenStep ==
  ASSUME HfiEnable = FALSE, mode # "FULL", mode \in Modes, NEW r, Sound(r), r.state \in OpenStates, NEW in
  PROVE  Step(r, in).state \in OpenStates
<1> DEFINE p == Prologue(r, in)
           h == Handle(p, in)
<1>1. Sound(p)
  BY PrologueLeads DEF Leads
<1>2. p.state \in {r.state, "FAULT"}
  <2> DEFINE b == [r EXCEPT !.active = FALSE, !.cycles = IF @ < CycleCap THEN @ + 1 ELSE @,
                            !.hfiNew = @ \/ in.hfiFault, !.total = IF TotalCounts(r) THEN @ + 1 ELSE @]
  <2>1. Shaped(b) /\ b.state = r.state
    BY DEF Sound, Shaped, Fields
  <2> HIDE DEF b
  <2>2. EnterFault(b, "START_TIMEOUT").state = "FAULT" /\ EnterFault(b, "OBSERVER_NUMERIC").state = "FAULT"
    BY <2>1, FaultState
  <2> QED
    BY <2>1, <2>2 DEF Prologue, Running, b
<1>3. p.state \in OpenStates
  BY <1>2 DEF OpenStates
<1> HIDE DEF p
<1>4. h.state \in OpenStates /\ Sound(h)
  BY <1>1, <1>3, OpenHandle, HandleLeads DEF Leads
<1> HIDE DEF h
<1>5. Probe(h, in).state \in {h.state, "FAULT", "IDLE"}
  BY <1>4, FaultState DEF Probe, Enter, Sound, Shaped, Fields
<1> QED
  BY <1>4, <1>5 DEF Step, OpenStates, p, h

LEMMA PwmOpen ==
  ASSUME HfiEnable = FALSE, IInv, OpenInv, PwmIsr, mode # "FULL"
  PROVE  runtime'.state \in OpenStates
<1>1. PICK lease \in BOOLEAN, currentOk \in BOOLEAN, in \in Samples(runtime.state) :
       LET guarded == PwmGuard(runtime, lease /\ regul /\ ~err)
           r     == IF regul THEN Step(guarded, in) ELSE DriveLost(guarded)
       IN  runtime' \in {EnterFault(r, "CURRENT"), r}
  BY DEF PwmIsr
<1> DEFINE guarded == PwmGuard(runtime, lease /\ regul /\ ~err)
           r     == IF regul THEN Step(guarded, in) ELSE DriveLost(guarded)
<1>2. Sound(guarded) /\ guarded.state \in OpenStates
  BY GuardLeads, FaultState DEF IInv, OpenInv, PwmGuard, Leads, Sound, OpenStates
<1> HIDE DEF guarded
<1>3. r.state \in OpenStates
  BY <1>2, OpenStep, FaultState DEF OpenInv, DriveLost, Sound, OpenStates
<1>4. EnterFault(r, "CURRENT").state = "FAULT"
  BY PwmLeads DEF IInv, guarded
<1> HIDE DEF r
<1> QED
  BY <1>1, <1>3, <1>4 DEF guarded, r, OpenStates

LEMMA StepOpen ==
  ASSUME HfiEnable = FALSE
  PROVE  IInv /\ OpenInv /\ [Next]_vars => OpenInv'
<1> SUFFICES ASSUME IInv, OpenInv, [Next]_vars PROVE OpenInv'
  OBVIOUS
<1>1. CASE PwmIsr
  <2>1. UNCHANGED <<mode, pc>>
    BY <1>1 DEF PwmIsr
  <2> QED
    BY <1>1, <2>1, PwmOpen DEF OpenInv, OpenStates
<1>2. CASE RequestStart \/ ClearFault \/ Revoke
  <2>1. UNCHANGED <<mode, pc>> /\ runtime'.state \in {runtime.state, "IDLE", "FAULT"}
    BY <1>2, FaultState DEF RequestStart, ClearFault, Revoke, driveVars, InitRuntime, Enter, IInv, Sound,
                            Shaped, Fields
  <2> QED
    BY <2>1 DEF OpenInv, OpenStates
<1>3. CASE Configure
  <2>1. mode' \in Modes /\ runtime'.state = "IDLE" /\ pc = "idle" /\ pc' = "idle"
    BY <1>3 DEF Configure, InitRuntime
  <2> QED
    BY <2>1 DEF OpenInv, OpenStates
<1>4. CASE StopTest
  <2>1. mode' = mode /\ runtime'.state = runtime.state /\ (pc' = "toStopping" => mode = "FULL" \/ pc = "toStopping")
    BY <1>4 DEF StopTest, StopBranch, Running, IInv, Sound, Shaped, Fields
  <2> QED
    BY <2>1 DEF OpenInv, OpenStates
<1>5. CASE StopStore
  <2>1. mode' = mode /\ pc' = "idle" /\ (pc # "toStopping" => runtime'.state \in {runtime.state, "IDLE"})
    BY <1>5 DEF StopStore, StoreStop, Enter, IInv, Sound, Shaped, Fields
  <2> QED
    BY <2>1 DEF OpenInv, OpenStates
<1>6. CASE DriveFault \/ DriveOff \/ DriveOn \/ FaultReset \/ UpdateTarget
  BY <1>6 DEF DriveFault, DriveOff, DriveOn, FaultReset, UpdateTarget, OpenInv, OpenStates
<1>7. CASE UNCHANGED vars
  BY <1>7 DEF vars, OpenInv, OpenStates
<1> QED
  BY <1>1, <1>2, <1>3, <1>4, <1>5, <1>6, <1>7 DEF Next

\* Without HFI a debug mode never lets the observer own the angle.
THEOREM TestsStayOpen ==
  ASSUME HfiEnable = FALSE
  PROVE  Spec => []OpenLoopOnly
<1>1. Init => OpenInv
  BY DEF Init, OpenInv, OpenStates, InitRuntime
<1>2. OpenInv => OpenLoopOnly
  BY ConfigOK DEF OpenInv, OpenStates, OpenLoopOnly, ClosedStates
<1> QED
  BY <1>1, <1>2, InitIInv, StepIInv, StepOpen, PTL DEF Spec

(* -- The contract -------------------------------------------------------------- *)

\* The tests of a stop find no FAULT; one entered before the store has cut the drive,
\* which does not come back until the store is made.
StoreInv == pc # "idle" /\ runtime.state = "FAULT" => ~regul

\* A period that enters FAULT over a cut stop reports it, and so closes the regulators.
LEMMA PwmStoreInv == IInv /\ StoreInv /\ PwmIsr => StoreInv'
<1> SUFFICES ASSUME IInv, StoreInv, PwmIsr, pc # "idle", runtime'.state = "FAULT"
             PROVE  ~regul'
  BY DEF StoreInv, PwmIsr
<1>1. PICK lease \in BOOLEAN, currentOk \in BOOLEAN, in \in Samples(runtime.state) :
       LET guarded == PwmGuard(runtime, lease /\ regul /\ ~err)
           r     == IF regul THEN Step(guarded, in) ELSE DriveLost(guarded)
           owns  == regul /\ r.active
           trips == owns /\ ~currentOk
           hooks == trips \/ (regul /\ Hook(r))
       IN  /\ runtime' = IF trips THEN EnterFault(r, "CURRENT") ELSE r
           /\ regul' = (regul /\ ~hooks)
  BY DEF PwmIsr
<1> DEFINE guarded == PwmGuard(runtime, lease /\ regul /\ ~err)
           r     == IF regul THEN Step(guarded, in) ELSE DriveLost(guarded)
           trips == (regul /\ r.active) /\ ~currentOk
<1>2. Quiet(runtime) => r.state = runtime.state
  BY PwmLeads DEF IInv
<1>3. /\ runtime' = IF trips THEN EnterFault(r, "CURRENT") ELSE r
      /\ (regul' = (regul /\ ~(trips \/ (regul /\ Hook(r)))))
  BY <1>1
<1> HIDE DEF r
<1>4. CASE regul /\ Quiet(runtime)
  BY <1>2, <1>3, <1>4 DEF StoreInv
<1>5. CASE regul /\ ~Quiet(runtime)
  <2>1. ~hookSent
    BY <1>5 DEF IInv, Settled, Over
  <2> QED
    BY <1>3, <1>5, <2>1 DEF Hook
<1>6. CASE ~regul
  BY <1>3, <1>6
<1> QED
  BY <1>4, <1>5, <1>6

LEMMA StepStoreInv == IInv /\ StoreInv /\ [Next]_vars => StoreInv'
<1> SUFFICES ASSUME IInv, StoreInv, [Next]_vars PROVE StoreInv'
  OBVIOUS
<1>1. CASE PwmIsr
  BY <1>1, PwmStoreInv
<1>2. CASE DriveFault
  BY <1>2 DEF DriveFault, StoreInv
<1>3. CASE StopTest
  BY <1>3 DEF StopTest, StopBranch, StoreInv, Running, IInv, Sound, Shaped, Fields
<1>4. CASE StopStore
  BY <1>4 DEF StopStore, StoreInv
<1>5. CASE RequestStart \/ UpdateTarget \/ ClearFault \/ Configure \/ Revoke
  BY <1>5 DEF RequestStart, UpdateTarget, ClearFault, Configure, Revoke, StoreInv
<1>6. CASE DriveOn \/ DriveOff \/ FaultReset
  BY <1>6 DEF DriveOn, DriveOff, FaultReset, StoreInv
<1>7. CASE UNCHANGED vars
  BY <1>7 DEF vars, StoreInv
<1> QED
  BY <1>1, <1>2, <1>3, <1>4, <1>5, <1>6, <1>7 DEF Next

PcInv == pc \in {"idle", "toIdle", "toStopping"}
CInv == IInv /\ StoreInv /\ PcInv /\ regul \in BOOLEAN

LEMMA InitCInv == Init => CInv
BY InitIInv DEF Init, CInv, StoreInv, PcInv

LEMMA StepCInv == CInv /\ [Next]_vars => CInv'
<1> SUFFICES ASSUME CInv, [Next]_vars PROVE CInv'
  OBVIOUS
<1>1. regul' \in BOOLEAN
  BY DEF CInv, Next, vars, PwmIsr, DriveFault, RequestStart, UpdateTarget, StopTest, StopStore, ClearFault,
         Configure, Revoke, DriveOn, DriveOff, FaultReset, driveVars
<1>2. PcInv'
  BY DEF CInv, PcInv, Next, vars, PwmIsr, DriveFault, RequestStart, UpdateTarget, StopTest, StopBranch, StopStore,
         ClearFault, Configure, Revoke, DriveOn, DriveOff, FaultReset
<1> QED
  BY <1>1, <1>2, StepIInv, StepStoreInv DEF CInv

\* The phase of the contract, as the refinement maps it.
Phase(r) ==
  CASE r.state = "FAULT" -> "fault"
    [] r.state = "IDLE"  -> IF r.request THEN "armed" ELSE "off"
    [] OTHER             -> "driving"

\* A step of the contract that is not a stop's, over the mapped phase.
Covered(p, q) ==
  \/ q = p /\ (regul' \in {regul, FALSE} \/ pc = "idle")
  \/ p = "off" /\ regul /\ pc = "idle" /\ q = "armed" /\ regul' = regul
  \/ p = "armed" /\ regul /\ pc = "idle" /\ q = "driving" /\ regul' = regul
  \/ p \in {"armed", "driving"} /\ q = "off" /\ regul' = regul
  \/ p \in {"armed", "driving"} /\ q = "fault" /\ regul' \in {regul, FALSE}
  \/ p = "fault" /\ ~regul /\ pc = "idle" /\ q = "off" /\ regul' = regul

LEMMA CoveredStep ==
  ASSUME CInv, CInv', pc' = pc, Covered(Phase(runtime), Phase(runtime)')
  PROVE  [Contract!Next]_Contract!vars
<1>1. regul \in BOOLEAN /\ regul' \in BOOLEAN /\ (pc # "idle" /\ Phase(runtime)' = "fault" => ~regul')
  BY DEF CInv, StoreInv, Phase
<1> QED
  BY <1>1 DEF Covered, Phase, Contract!Next, Contract!Drive, Contract!Arm, Contract!Begin, Contract!End,
              Contract!Fail, Contract!Clear, Contract!vars

\* One PWM period is at most one step of the contract.
LEMMA PwmCovered ==
  ASSUME CInv, PwmIsr
  PROVE  Covered(Phase(runtime), Phase(runtime)')
<1>1. PICK lease \in BOOLEAN, currentOk \in BOOLEAN, in \in Samples(runtime.state) :
       LET guarded == PwmGuard(runtime, lease /\ regul /\ ~err)
           r     == IF regul THEN Step(guarded, in) ELSE DriveLost(guarded)
           owns  == regul /\ r.active
           trips == owns /\ ~currentOk
           hooks == trips \/ (regul /\ Hook(r))
       IN  /\ runtime' = IF trips THEN EnterFault(r, "CURRENT") ELSE r
           /\ regul' = (regul /\ ~hooks)
  BY DEF PwmIsr
<1> DEFINE guarded == PwmGuard(runtime, lease /\ regul /\ ~err)
           r     == IF regul THEN Step(guarded, in) ELSE DriveLost(guarded)
           trips == (regul /\ r.active) /\ ~currentOk
           hooks == trips \/ (regul /\ Hook(r))
<1>2. /\ Leads(runtime, r) /\ Leads(runtime, EnterFault(r, "CURRENT"))
      /\ EnterFault(r, "CURRENT").state = "FAULT"
      /\ Quiet(runtime) => Quiet(r) /\ r.state = runtime.state /\ (regul => ~r.active)
      /\ ~regul => Quiet(r)
      /\ runtime.state = "IDLE" => r.state \in {"IDLE", "ALIGN", "FAULT"} /\ (regul => ~r.active)
  BY PwmLeads DEF CInv, IInv
<1>3. runtime' = (IF trips THEN EnterFault(r, "CURRENT") ELSE r) /\ regul' = (regul /\ ~hooks)
  BY <1>1
<1> HIDE DEF r
<1>4. Leads(runtime, runtime') /\ regul' \in {regul, FALSE}
  BY <1>2, <1>3 DEF CInv
<1>5. runtime'.state # "FAULT" => runtime' = r /\ regul' = regul
  BY <1>2, <1>3 DEF Hook, CInv
<1>6. CASE runtime.state = "FAULT"
  BY <1>4, <1>6 DEF Leads, Covered, Phase
<1>7. CASE runtime.state = "IDLE" /\ ~runtime.request
  <2>1. runtime'.state = "IDLE" /\ ~runtime'.request
    BY <1>2, <1>3, <1>4, <1>7 DEF Quiet, Running, Leads
  <2> QED
    BY <1>4, <1>7, <2>1 DEF Covered, Phase
<1>8. CASE runtime.state = "IDLE" /\ runtime.request
  <2>1. runtime'.state \in {"IDLE", "ALIGN", "FAULT"}
    BY <1>2, <1>3, <1>8
  <2>2. runtime'.state = "ALIGN" => regul
    BY <1>2, <1>5 DEF Quiet, Running
  <2>3. pc = "idle"
    BY <1>8 DEF CInv, IInv, Settled
  <2> QED
    BY <1>4, <1>5, <1>8, <2>1, <2>2, <2>3 DEF Covered, Phase
<1>9. CASE runtime.state \notin {"IDLE", "FAULT"}
  <2>1. runtime'.state = "IDLE" => ~runtime'.request
    BY <1>4, <1>9 DEF Leads
  <2> QED
    BY <1>4, <1>5, <1>9, <2>1 DEF Covered, Phase
<1> QED
  BY <1>6, <1>7, <1>8, <1>9

LEMMA RequestCovered ==
  ASSUME CInv, RequestStart \/ ClearFault \/ Configure \/ Revoke
  PROVE  pc' = pc /\ Covered(Phase(runtime), Phase(runtime)')
<1>0. pc = "idle" /\ pc' = pc
  BY DEF RequestStart, ClearFault, Configure, Revoke
<1>1. CASE RequestStart
  <2>1. runtime'.state = "IDLE" /\ runtime'.request /\ runtime.state = "IDLE" /\ ~runtime.request
          /\ regul /\ regul' = regul
    BY <1>1 DEF RequestStart, InitRuntime
  <2> QED
    BY <1>0, <2>1 DEF Covered, Phase
<1>2. CASE ClearFault
  <2>1. ~regul /\ regul' = regul
    BY <1>2 DEF ClearFault, driveVars
  <2>2. runtime.state = "FAULT" => runtime'.state = "IDLE" /\ ~runtime'.request
    BY <1>2 DEF ClearFault, Enter, CInv, IInv, Sound, Shaped, Fields
  <2>3. runtime.state # "FAULT" => runtime'.state = runtime.state /\ runtime'.request = runtime.request
    BY <1>2 DEF ClearFault, CInv, IInv, Sound, Shaped, Fields
  <2> QED
    BY <1>0, <2>1, <2>2, <2>3 DEF Covered, Phase
<1>3. CASE Configure
  <2>1. runtime'.state = "IDLE" /\ ~runtime'.request /\ runtime.state = "IDLE" /\ regul' = regul
    BY <1>3 DEF Configure, InitRuntime, driveVars
  <2> QED
    BY <1>0, <2>1 DEF Covered, Phase
<1>4. CASE Revoke
  <2>1. runtime'.state = "FAULT" /\ regul' = regul /\ Guarded(runtime)
    BY <1>4, FaultLeads DEF Revoke, driveVars, CInv, IInv, Sound, Kept
  <2> QED
    BY <1>0, <2>1 DEF Covered, Phase, Guarded
<1> QED
  BY <1>0, <1>1, <1>2, <1>3, <1>4

\* The two halves of a stop request.
LEMMA StopTestContract == CInv /\ StopTest => [Contract!Next]_Contract!vars
<1> SUFFICES ASSUME CInv, StopTest PROVE [Contract!Next]_Contract!vars
  OBVIOUS
<1>1. /\ regul' = regul /\ pc = "idle" /\ runtime'.state = runtime.state
      /\ pc' # "idle" => runtime.state # "FAULT" /\ ~runtime'.request
      /\ runtime' = runtime \/ ~runtime'.request
  BY DEF StopTest, StopBranch, Running, driveVars, CInv, IInv, Sound, Shaped, Fields
<1>2. CASE pc' # "idle"
  <2>1. Phase(runtime) # "fault" /\ Phase(runtime)' = (IF Phase(runtime) = "armed" THEN "off" ELSE Phase(runtime))
    BY <1>1, <1>2 DEF Phase
  <2>2. Contract!Stop
    BY <1>1, <1>2, <2>1 DEF Contract!Stop, Phase
  <2> QED
    BY <2>2 DEF Contract!Next
<1>3. CASE pc' = "idle"
  <2>1. Phase(runtime)' = Phase(runtime) \/ (Phase(runtime) = "armed" /\ Phase(runtime)' = "off")
    BY <1>1 DEF Phase
  <2>2. [Contract!End]_Contract!vars
    BY <1>1, <1>3, <2>1 DEF Contract!End, Contract!vars, Phase
  <2> QED
    BY <2>2 DEF Contract!Next
<1> QED
  BY <1>2, <1>3

LEMMA StopStoreContract == CInv /\ StopStore => [Contract!Next]_Contract!vars
<1> SUFFICES ASSUME CInv, StopStore PROVE [Contract!Next]_Contract!vars
  OBVIOUS
<1>1. /\ regul' = regul /\ ~runtime.request /\ pc # "idle" /\ pc' = "idle"
      /\ runtime.state = "FAULT" => ~regul
  BY DEF StopStore, driveVars, CInv, StoreInv, IInv, Settled
<1>2. pc = "toIdle" => runtime'.state = "IDLE" /\ ~runtime'.request
  BY <1>1 DEF StopStore, StoreStop, Enter, CInv, IInv, Sound, Shaped, Fields
<1>3. pc = "toStopping" => runtime'.state = "STOPPING"
  BY DEF StopStore, StoreStop, Enter, CInv, IInv, Sound, Shaped, Fields
<1>4. pc \in {"toIdle", "toStopping"}
  BY <1>1 DEF CInv, PcInv
<1>5. Phase(runtime)' \in {"off", "driving"} /\ (Phase(runtime) = "fault" => ~regul)
  BY <1>1, <1>2, <1>3, <1>4 DEF Phase
<1>6. Contract!Store
  BY <1>1, <1>5 DEF Contract!Store, Phase
<1> QED
  BY <1>6 DEF Contract!Next

LEMMA StepContract == CInv /\ [Next]_vars => [Contract!Next]_Contract!vars
<1> SUFFICES ASSUME CInv, [Next]_vars PROVE [Contract!Next]_Contract!vars
  OBVIOUS
<1>0. CInv'
  BY StepCInv
<1>1. CASE PwmIsr
  <2>1. pc' = pc
    BY <1>1 DEF PwmIsr
  <2> QED
    BY <1>0, <1>1, <2>1, PwmCovered, CoveredStep
<1>2. CASE RequestStart \/ ClearFault \/ Configure \/ Revoke
  BY <1>0, <1>2, RequestCovered, CoveredStep
<1>3. CASE StopTest \/ StopStore
  BY <1>3, StopTestContract, StopStoreContract
<1>4. CASE DriveFault \/ DriveOff \/ DriveOn \/ FaultReset \/ UpdateTarget
  <2>1. pc' = pc /\ runtime' = runtime /\ (regul' \in {regul, FALSE} \/ pc = "idle")
    BY <1>4 DEF DriveFault, DriveOff, DriveOn, FaultReset, UpdateTarget, driveVars
  <2> QED
    BY <1>0, <2>1, CoveredStep DEF Covered, Phase
<1>5. CASE UNCHANGED vars
  BY <1>5 DEF vars, Contract!vars
<1> QED
  BY <1>1, <1>2, <1>3, <1>4, <1>5 DEF Next

\* The sequencer and the regulators keep the contract wherever a stop request is cut, in
\* every debug mode, with and without HFI: a fault is left with the drive off, by a clear
\* or by the store of a stop tested before it.
THEOREM KeepsContract == Spec => ContractSpec
<1>1. Init => Contract!Init
  BY DEF Init, InitRuntime, Contract!Init
<1> QED
  BY <1>1, InitCInv, StepCInv, StepContract, PTL DEF Spec, ContractSpec, Contract!Spec
=============================================================================
