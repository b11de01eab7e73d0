------------------------- MODULE FaultProtectProofs ------------------------
(***************************************************************************)
(* Proofs about FaultProtect for every set of codes, every ring size and   *)
(* every preemption: type correctness, the last record, the passes of the  *)
(* reset and the warning bit; and that status, code, display and record    *)
(* agree, that a non-resettable error stays and that the latch implements  *)
(* FaultLatch as long as none of three named races is lost.                *)
(***************************************************************************)
EXTENDS FaultProtect, TLAPS

\* Errors and warnings differ in their level.
LEMMA DisjointCodes == \A f \in Errors : f \notin Warnings
<1> SUFFICES ASSUME NEW f \in Errors, f \in Warnings PROVE FALSE
  OBVIOUS
<1>1. f.level \in {1, 2}
  BY CodesOK
<1>2. f.level \in {3}
  BY CodesOK
<1> QED
  BY <1>1, <1>2

\* A call of the interface, in any branch, keeps the latch and the records typed.
LEMMA InterfaceType ==
  ASSUME TypeOK, NEW f \in Faults, NEW s \in NORMAL1 .. WARNERR, Interface(f, s)
  PROVE  /\ faultStatus' \in NORMAL1 .. WARNERR
         /\ errCode' \in Errors \cup {NoFault} /\ warnFlg' \subseteq Warnings
         /\ faultDisp' \in 0 .. 255
         /\ eepFlg' \in {0, 1} /\ infoPtr' \in 0 .. InfoMax - 1
         /\ info' \in [0 .. InfoMax - 1 -> Errors \cup {NoFault}]
         /\ hard' \subseteq Errors
<1> USE SizesOK DEF TypeOK, NORMAL1, WARN, ERR, WARNERR
<1>1. ASSUME f \in Errors, Latch(f)
      PROVE  /\ errCode' \in Errors \cup {NoFault} /\ warnFlg' \subseteq Warnings
             /\ faultDisp' \in 0 .. 255
             /\ eepFlg' \in {0, 1} /\ infoPtr' \in 0 .. InfoMax - 1
             /\ info' \in [0 .. InfoMax - 1 -> Errors \cup {NoFault}]
             /\ hard' \subseteq Errors
  <2>1. f.disp \in 0 .. 255
    BY <1>1, CodesOK
  <2>2. NextSlot \in 0 .. InfoMax - 1
    BY DEF NextSlot
  <2> QED
    BY <1>1, <2>1, <2>2 DEF Latch, Record
<1>2. CASE f \in Warnings
  <2>1. f.disp \in 0 .. 255
    BY <1>2, CodesOK
  <2>2. f \notin Errors
    BY <1>2, DisjointCodes
  <2>3. /\ faultStatus' \in {WARN, WARNERR} /\ faultDisp' \in {f.disp, faultDisp}
        /\ warnFlg' = warnFlg \cup {f}
        /\ UNCHANGED <<errCode, hard, eepFlg, infoPtr, info>>
    BY <1>2, <2>2 DEF Interface, recVars
  <2>4. faultStatus' \in NORMAL1 .. WARNERR
    BY <2>3
  <2>5. faultDisp \in 0 .. 255
    OBVIOUS
  <2>6. faultDisp' \in 0 .. 255
    BY <2>1, <2>3, <2>5, Zenon
  <2>7. warnFlg' \subseteq Warnings
    BY <1>2, <2>3
  <2> QED
    BY <2>3, <2>4, <2>6, <2>7
<1>3. CASE f \in Errors
  <2>1. f \notin Warnings
    BY <1>3, DisjointCodes
  <2>2. \/ Latch(f) /\ faultStatus' \in {ERR, WARNERR, faultStatus}
        \/ UNCHANGED <<latchVars, recVars, hard>>
    BY <1>3, <2>1 DEF Interface
  <2>3. CASE Latch(f) /\ faultStatus' \in {ERR, WARNERR, faultStatus}
    <3>1. faultStatus' \in NORMAL1 .. WARNERR
      BY <2>3
    <3> QED
      BY <1>1, <1>3, <2>3, <3>1
  <2>4. CASE UNCHANGED <<latchVars, recVars, hard>>
    BY <2>4 DEF latchVars, recVars
  <2> QED
    BY <2>2, <2>3, <2>4
<1> QED
  BY <1>2, <1>3 DEF Faults

\* The value to be decremented has its warning bit: nobody else writes it.
DecInv == pc["tick"] = "dec" => seen["tick"] \in {WARN, WARNERR}

\* Every step keeps every variable in its range, with any preemption.
LEMMA TypeStep ==
  ASSUME TypeOK, DecInv, [Next]_vars
  PROVE  TypeOK' /\ DecInv'
<1> USE SizesOK
    DEF latchVars, recVars, doVars, ctxVars, Contexts, NORMAL1, WARN, ERR, WARNERR, DecInv
<1>1. ASSUME NEW c \in Contexts, NEW f, RaiseBegin(c, f)
      PROVE TypeOK' /\ DecInv'
  <2>1. f \in Faults
    BY <1>1, CodesOK DEF RaiseBegin, Faults
  <2> QED
    BY <1>1, <2>1 DEF TypeOK, RaiseBegin
<1>2. ASSUME NEW c \in Contexts, RaiseEnd(c)
      PROVE TypeOK' /\ DecInv'
  <2>1. CASE cur[c] \in Faults
    <3>1. Interface(cur[c], seen[c]) /\ seen[c] \in NORMAL1 .. WARNERR
      BY <1>2 DEF TypeOK, RaiseEnd
    <3>2. /\ pc' \in [Contexts -> {"idle", "raise", "rst", "dec", "check", "clear", "code"}]
          /\ cur' \in [Contexts -> Faults \cup {NoFault}]
          /\ seen' \in [Contexts -> NORMAL1 .. WARNERR]
          /\ DecInv'
      BY <1>2 DEF TypeOK, RaiseEnd
    <3> QED
      BY <1>2, <2>1, <3>1, <3>2, InterfaceType DEF TypeOK, RaiseEnd
  <2>2. CASE cur[c] = NoFault
    BY <1>2, <2>2, CodesOK DEF RaiseEnd, Interface, Faults
  <2> QED
    BY <2>1, <2>2 DEF TypeOK
<1>3. ASSUME NEW w \in Warnings, WarnInterfaceClr(w)
      PROVE TypeOK' /\ DecInv'
  BY <1>3 DEF TypeOK, WarnInterfaceClr, ClearDisp
<1>4. CASE EepSave
  BY <1>4 DEF TypeOK, EepSave
<1>5. CASE Schedule
  BY <1>5 DEF TypeOK, Schedule, GoTick
<1>6. CASE RstEntry
  BY <1>6 DEF TypeOK, RstEntry, GoTick, Recoverable
<1>7. CASE WarnRecover
  BY <1>7 DEF TypeOK, WarnRecover, GoTick
<1>8. ASSUME NEW e \in {0, 1}, RstCheck(e)
      PROVE TypeOK' /\ DecInv'
  BY <1>8 DEF TypeOK, RstCheck, Refuse, GoTick
<1>9. CASE RstStatus
  BY <1>9 DEF TypeOK, RstStatus, GoTick
<1>10. CASE RstCode
  BY <1>10 DEF TypeOK, RstCode, GoTick
<1>11. CASE PwmRaise
  <2>1. PICK f \in PwmErrors : Interface(f, faultStatus)
    BY <1>11 DEF PwmRaise
  <2>2. f \in Faults
    BY <2>1, CodesOK DEF Faults
  <2> QED
    BY <1>11, <2>1, <2>2, InterfaceType DEF TypeOK, PwmRaise
<1>12. CASE RequestReset
  BY <1>12 DEF TypeOK, RequestReset
<1>13. CASE UNCHANGED vars
  BY <1>13 DEF TypeOK, vars
<1> QED
  BY <1>1, <1>2, <1>3, <1>4, <1>5, <1>6, <1>7, <1>8, <1>9, <1>10, <1>11, <1>12, <1>13
  DEF Next, Judge, FaultRst, MainRaise

\* Status, code, display, ring pointer and reset request stay in their ranges
\* however the PWM interrupt, the tick and the main loop preempt one another.
THEOREM TypeCorrect == Spec => []TypeOK
<1>1. Init => TypeOK /\ DecInv
  BY SizesOK DEF Init, TypeOK, DecInv, Contexts, NORMAL1, WARN, ERR, WARNERR
<1>2. TypeOK /\ DecInv /\ [Next]_vars => (TypeOK /\ DecInv)'
  BY TypeStep
<1> QED
  BY <1>1, <1>2, PTL DEF Spec

(* -- The races of the latch ------------------------------------------------ *)

\* A preemption does no harm as such.  It does where a call takes the branch of an error bit
\* that has changed since its switch read the status, where the decrement stores over one,
\* and where a granted reset ends over an error it did not test.
TornCall(c) == RaiseEnd(c) /\ ~(HasError(seen[c]) <=> HasError(faultStatus))
TornRecovery == WarnRecover /\ ~(HasError(seen["tick"]) <=> HasError(faultStatus))
TornReset ==
  /\ HasError(faultStatus)
  /\ (RstStatus /\ errCode # NoFault /\ errCode.reset = 0) \/ RstCode
Torn == (\E c \in Contexts : TornCall(c)) \/ TornRecovery \/ TornReset

\* Status, code, display and record agree but between the two steps of a reset.
SeqInv ==
  /\ HasError(faultStatus) => errCode # NoFault
  /\ errCode # NoFault => HasError(faultStatus) \/ pc["tick"] = "code"
  /\ HasError(faultStatus) => faultDisp = errCode.disp /\ info[infoPtr] = errCode
Inv == TypeOK /\ DecInv /\ SeqInv

\* The abstract latch, and a step of the code over it.
top == IF HasError(faultStatus) THEN errCode ELSE NoFault
LatchStep == UNCHANGED top \/ Abstract!Next

\* A call that takes the branch of the present error bit latches its fault over none or a
\* lower one, or leaves the error as it is.
LEMMA InterfaceLatches ==
  ASSUME TypeOK, NEW f \in Faults, NEW s \in NORMAL1 .. WARNERR, Interface(f, s),
         HasError(s) <=> HasError(faultStatus)
  PROVE  \/ /\ UNCHANGED <<errCode, recVars, hard>> /\ (HasError(faultStatus') <=> HasError(faultStatus))
            /\ HasError(faultStatus) => faultDisp' = faultDisp
         \/ /\ f \in Errors /\ Latch(f) /\ HasError(faultStatus')
            /\ ~HasError(faultStatus) \/ (errCode # NoFault /\ Outranks(f, errCode))
<1> USE DEF NORMAL1, WARN, ERR, WARNERR, HasError
<1>1. CASE f \in Warnings
  <2>1. f \notin Errors
    BY <1>1, DisjointCodes
  <2> QED
    BY <1>1, <2>1 DEF Interface, recVars
<1>2. CASE f \in Errors
  <2>1. f \notin Warnings
    BY <1>2, DisjointCodes
  <2> QED
    BY <1>2, <2>1 DEF Interface, latchVars, TypeOK
<1> QED
  BY <1>1, <1>2 DEF Faults

LEMMA LatchNames ==
  ASSUME TypeOK, NEW f \in Errors, Latch(f)
  PROVE  errCode' = f /\ f # NoFault /\ faultDisp' = f.disp /\ info'[infoPtr'] = f
<1>1. NextSlot \in 0 .. InfoMax - 1
  BY SizesOK DEF NextSlot, TypeOK
<1> QED
  BY <1>1, CodesOK DEF Latch, Record, TypeOK, Faults

LEMMA InterfaceSeq ==
  ASSUME Inv, NEW f \in Faults, NEW s \in NORMAL1 .. WARNERR, Interface(f, s),
         HasError(s) <=> HasError(faultStatus), UNCHANGED pc["tick"] \/ pc["tick"] # "code"
  PROVE  SeqInv'
<1>1. CASE /\ UNCHANGED <<errCode, recVars, hard>> /\ (HasError(faultStatus') <=> HasError(faultStatus))
           /\ HasError(faultStatus) => faultDisp' = faultDisp
  BY <1>1 DEF Inv, SeqInv, recVars
<1>2. CASE f \in Errors /\ Latch(f) /\ HasError(faultStatus')
  BY <1>2, LatchNames DEF Inv, SeqInv
<1> QED
  BY <1>1, <1>2, InterfaceLatches DEF Inv

\* Such a call is a step of the abstract latch, whatever state the races have left.
LEMMA InterfaceLatch ==
  ASSUME TypeOK, NEW f \in Faults, NEW s \in NORMAL1 .. WARNERR, Interface(f, s),
         HasError(s) <=> HasError(faultStatus)
  PROVE  LatchStep
<1>1. CASE UNCHANGED errCode /\ (HasError(faultStatus') <=> HasError(faultStatus))
  BY <1>1 DEF LatchStep, top
<1>2. CASE /\ f \in Errors /\ Latch(f) /\ HasError(faultStatus')
           /\ ~HasError(faultStatus) \/ (errCode # NoFault /\ Outranks(f, errCode))
  <2>1. Abstract!Raise(f)
    BY <1>2, LatchNames DEF Abstract!Raise, Abstract!Outranks, Outranks
  <2> QED
    BY <1>2, <2>1 DEF LatchStep, Abstract!Next
<1> QED
  BY <1>1, <1>2, InterfaceLatches

\* Every step but a torn one is a step of the abstract latch, without any invariant but the
\* ranges, and keeps what agrees.
LEMMA SeqStep ==
  ASSUME TypeOK, DecInv, [Next]_vars, ~Torn
  PROVE  LatchStep /\ (SeqInv => SeqInv')
<1> USE DEF NORMAL1, WARN, ERR, WARNERR, HasError
<1>0. "tick" \in DOMAIN pc
  BY DEF TypeOK, Contexts
<1>1. ASSUME NEW c \in Contexts, NEW f, RaiseBegin(c, f)
      PROVE LatchStep /\ (SeqInv => SeqInv')
  BY <1>0, <1>1 DEF RaiseBegin, SeqInv, TypeOK, LatchStep, top, latchVars, recVars, Contexts
<1>2. ASSUME NEW c \in Contexts, RaiseEnd(c)
      PROVE LatchStep /\ (SeqInv => SeqInv')
  <2>1. /\ Interface(cur[c], seen[c]) /\ seen[c] \in NORMAL1 .. WARNERR
        /\ cur[c] \in Faults \cup {NoFault}
    BY <1>2 DEF RaiseEnd, TypeOK
  <2>2. cur[c] \in Faults
    BY <2>1, CodesOK DEF Interface, Faults
  <2>3. HasError(seen[c]) <=> HasError(faultStatus)
    BY <1>2 DEF Torn, TornCall
  <2>4. UNCHANGED pc["tick"] \/ pc["tick"] # "code"
    BY <1>0, <1>2 DEF RaiseEnd, TypeOK, Contexts
  <2> QED
    BY <2>1, <2>2, <2>3, <2>4, InterfaceLatch, InterfaceSeq DEF Inv
<1>3. ASSUME NEW w \in Warnings, WarnInterfaceClr(w)
      PROVE LatchStep /\ (SeqInv => SeqInv')
  <2>1. ASSUME SeqInv, HasError(faultStatus) PROVE faultDisp # w.disp
    <3>1. errCode \in Errors /\ faultDisp = errCode.disp
      BY <2>1 DEF SeqInv, TypeOK
    <3>2. errCode.disp \in 1 .. 127
      BY <3>1, CodesOK
    <3>3. w.disp \in 128 .. 255
      BY CodesOK
    <3> QED
      BY <3>1, <3>2, <3>3
  <2> QED
    BY <1>3, <2>1 DEF WarnInterfaceClr, ClearDisp, SeqInv, LatchStep, top, recVars, ctxVars
<1>4. CASE EepSave
  BY <1>4 DEF EepSave, SeqInv, LatchStep, top, latchVars, ctxVars
<1>5. CASE Schedule \/ RstEntry
  BY <1>0, <1>5 DEF Schedule, RstEntry, GoTick, SeqInv, LatchStep, top, latchVars, recVars
<1>6. CASE WarnRecover
  <2>1. HasError(faultStatus') <=> HasError(faultStatus)
    BY <1>6 DEF WarnRecover, Torn, TornRecovery, DecInv
  <2> QED
    BY <1>0, <1>6, <2>1 DEF WarnRecover, GoTick, SeqInv, LatchStep, top, recVars
<1>7. ASSUME NEW e \in {0, 1}, RstCheck(e)
      PROVE LatchStep /\ (SeqInv => SeqInv')
  BY <1>0, <1>7 DEF RstCheck, Refuse, GoTick, SeqInv, LatchStep, top, latchVars, recVars
<1>8. CASE RstStatus
  <2>1. ~HasError(faultStatus')
    BY <1>8 DEF RstStatus
  <2>2. CASE HasError(faultStatus) /\ errCode # NoFault
    <3>1. errCode.reset = 1
      BY <1>8, <2>2, CodesOK DEF Torn, TornReset, TypeOK
    <3>2. Abstract!Reset
      BY <2>1, <2>2, <3>1 DEF Abstract!Reset
    <3>3. pc'["tick"] = "code"
      BY <1>0, <1>8 DEF RstStatus, GoTick
    <3> QED
      BY <2>1, <3>2, <3>3 DEF LatchStep, Abstract!Next, SeqInv
  <2>3. CASE ~(HasError(faultStatus) /\ errCode # NoFault)
    BY <1>0, <1>8, <2>1, <2>3 DEF RstStatus, GoTick, SeqInv, LatchStep, top, recVars
  <2> QED
    BY <2>2, <2>3
<1>9. CASE RstCode
  BY <1>0, <1>9 DEF RstCode, GoTick, SeqInv, LatchStep, top, recVars, Torn, TornReset
<1>10. CASE PwmRaise
  <2>1. PICK f \in PwmErrors : Interface(f, faultStatus)
    BY <1>10 DEF PwmRaise
  <2>2. f \in Faults /\ faultStatus \in NORMAL1 .. WARNERR
    BY <2>1, CodesOK DEF Faults, TypeOK
  <2>3. UNCHANGED pc["tick"]
    BY <1>10 DEF PwmRaise, ctxVars
  <2> QED
    BY <2>1, <2>2, <2>3, InterfaceLatch, InterfaceSeq DEF Inv
<1>11. CASE RequestReset
  BY <1>11 DEF RequestReset, SeqInv, LatchStep, top, latchVars, recVars, ctxVars
<1>12. CASE UNCHANGED vars
  BY <1>12 DEF vars, SeqInv, LatchStep, top, latchVars, recVars, ctxVars
<1> QED
  BY <1>1, <1>2, <1>3, <1>4, <1>5, <1>6, <1>7, <1>8, <1>9, <1>10, <1>11, <1>12
  DEF Next, Judge, FaultRst, MainRaise, Contexts

LEMMA InitInv == Init => Inv
BY SizesOK DEF Init, Inv, TypeOK, DecInv, SeqInv, Contexts, HasError,
   NORMAL1, WARN, ERR, WARNERR

(* -- A non-resettable error that nothing outranks ------------------------- *)

\* FAULT_BIT_PRIORITY is a strict order on the codes.
LEMMA RankOrder ==
  ASSUME NEW a \in Errors, NEW b \in Errors
  PROVE  /\ Outranks(a, b) => ~Outranks(b, a)
         /\ \A c \in Errors : Outranks(a, b) /\ Outranks(b, c) => Outranks(a, c)
<1>1. \A e \in Errors : e.level \in {1, 2} /\ e.disp \in Nat
  BY CodesOK
<1> QED
  BY <1>1 DEF Outranks

\* Such an error is latched, or one that ranks higher still, which cannot be reset either.
Topped(f) == errCode # NoFault /\ (errCode = f \/ Outranks(errCode, f))
HardInv ==
  \A f \in hard : f.reset = 0 /\ (Supreme(f) => Topped(f) /\ HasError(faultStatus))

\* A call may replace the latched error only by one that ranks higher.
LEMMA InterfaceHard ==
  ASSUME TypeOK, HardInv, NEW f \in Faults, NEW s \in NORMAL1 .. WARNERR, Interface(f, s),
         HasError(s) <=> HasError(faultStatus)
  PROVE  HardInv'
<1> USE DEF Topped
<1>1. CASE UNCHANGED <<errCode, hard>> /\ (HasError(faultStatus') <=> HasError(faultStatus))
  BY <1>1 DEF HardInv, Supreme
<1>2. CASE /\ f \in Errors /\ Latch(f) /\ HasError(faultStatus')
           /\ ~HasError(faultStatus) \/ (errCode # NoFault /\ Outranks(f, errCode))
  <2>1. errCode' = f /\ f # NoFault /\ hard' \subseteq hard \cup {f} /\ (f \in hard' => f \in hard \/ f.reset = 0)
    BY <1>2, LatchNames DEF Latch
  <2>2. ASSUME NEW h \in hard, Supreme(h) PROVE f = h \/ Outranks(f, h)
    <3>1. errCode # NoFault /\ (errCode = h \/ Outranks(errCode, h)) /\ HasError(faultStatus)
      BY <2>2 DEF HardInv
    <3>2. h \in Errors /\ errCode \in Errors
      BY <3>1 DEF TypeOK
    <3> QED
      BY <1>2, <3>1, <3>2, RankOrder
  <2>3. \A h \in hard' : h.reset = 0 /\ (Supreme(h) => f = h \/ Outranks(f, h))
    BY <2>1, <2>2 DEF HardInv
  <2> QED
    BY <1>2, <2>1, <2>3 DEF HardInv, Supreme
<1> QED
  BY <1>1, <1>2, InterfaceLatches

LEMMA HardStep ==
  ASSUME TypeOK, DecInv, HardInv, [Next]_vars, ~Torn
  PROVE  HardInv'
<1> USE DEF Topped
<1>1. ASSUME UNCHANGED <<errCode, hard>>, HasError(faultStatus) => HasError(faultStatus')
      PROVE  HardInv'
  BY <1>1 DEF HardInv, Supreme
<1>2. ASSUME NEW c \in Contexts, NEW f, RaiseBegin(c, f)
      PROVE HardInv'
  BY <1>1, <1>2 DEF RaiseBegin, latchVars
<1>3. ASSUME NEW c \in Contexts, RaiseEnd(c)
      PROVE HardInv'
  <2>1. /\ Interface(cur[c], seen[c]) /\ seen[c] \in NORMAL1 .. WARNERR
        /\ cur[c] \in Faults \cup {NoFault}
    BY <1>3 DEF RaiseEnd, TypeOK
  <2>2. cur[c] \in Faults
    BY <2>1, CodesOK DEF Interface, Faults
  <2>3. HasError(seen[c]) <=> HasError(faultStatus)
    BY <1>3 DEF Torn, TornCall
  <2> QED
    BY <2>1, <2>2, <2>3, InterfaceHard
<1>4. ASSUME NEW w \in Warnings, WarnInterfaceClr(w)
      PROVE HardInv'
  BY <1>1, <1>4 DEF WarnInterfaceClr
<1>5. CASE EepSave \/ Schedule \/ RstEntry \/ RequestReset
  BY <1>1, <1>5 DEF EepSave, Schedule, RstEntry, RequestReset, latchVars
<1>6. CASE WarnRecover
  BY <1>1, <1>6 DEF WarnRecover, Torn, TornRecovery, DecInv, HasError, NORMAL1, WARN, ERR, WARNERR
<1>7. ASSUME NEW e \in {0, 1}, RstCheck(e)
      PROVE HardInv'
  BY <1>1, <1>7 DEF RstCheck, latchVars
<1>8. CASE RstStatus \/ RstCode
  <2>1. ASSUME NEW f \in hard PROVE ~Supreme(f)
    <3> SUFFICES ASSUME Supreme(f) PROVE FALSE
      OBVIOUS
    <3>1. Topped(f) /\ HasError(faultStatus) /\ f.reset = 0 /\ f \in Errors /\ errCode \in Errors
      BY DEF HardInv, TypeOK
    <3>2. errCode.reset = 1
      BY <1>8, <3>1, CodesOK DEF Torn, TornReset
    <3>3. Outranks(f, errCode) /\ Outranks(errCode, f)
      BY <3>1, <3>2 DEF Supreme
    <3> QED
      BY <3>1, <3>3, RankOrder
  <2> QED
    BY <1>8, <2>1 DEF RstStatus, RstCode, HardInv, Supreme
<1>9. CASE PwmRaise
  <2>1. PICK f \in PwmErrors : Interface(f, faultStatus)
    BY <1>9 DEF PwmRaise
  <2>2. f \in Faults /\ faultStatus \in NORMAL1 .. WARNERR
    BY <2>1, CodesOK DEF Faults, TypeOK
  <2> QED
    BY <2>1, <2>2, InterfaceHard
<1>10. CASE UNCHANGED vars
  BY <1>1, <1>10 DEF vars, latchVars
<1> QED
  BY <1>2, <1>3, <1>4, <1>5, <1>6, <1>7, <1>8, <1>9, <1>10
  DEF Next, Judge, FaultRst, MainRaise, Contexts

\* A non-resettable error that no resettable code outranks survives every reset, for every set
\* of codes and every preemption, unless one of the three races is lost.
THEOREM SupremeIsFinal == Spec /\ [][~Torn]_vars => []SupremeStays
<1>1. Init => HardInv
  BY DEF Init, HardInv
<1>2. TypeOK /\ DecInv /\ [Next]_vars => (TypeOK /\ DecInv)'
  BY TypeStep
<1>3. TypeOK /\ DecInv /\ HardInv /\ [Next]_vars /\ [~Torn]_vars => HardInv'
  BY HardStep DEF HardInv, Topped, Supreme, vars, latchVars
<1>4. HardInv => SupremeStays
  BY DEF HardInv, SupremeStays
<1> QED
  BY InitInv, <1>1, <1>2, <1>3, <1>4, PTL DEF Spec, Inv

\* Between calls, status, code, display and the last record name the same error, for every
\* set of codes, every ring size and every preemption, unless one of the three races is lost.
THEOREM ErrorNamed == Spec /\ [][~Torn]_vars => []ErrorIsNamed
<1>1. Inv /\ [Next]_vars /\ [~Torn]_vars => Inv'
  BY TypeStep, SeqStep DEF Inv, SeqInv, vars, latchVars, recVars, ctxVars
<1>2. Inv => ErrorIsNamed
  BY DEF Inv, SeqInv, ErrorIsNamed, Quiet, Contexts
<1> QED
  BY InitInv, <1>1, <1>2, PTL DEF Spec

\* Under every preemption, a step of the code that is not a lost race is a step of FaultLatch
\* or none, also after races that were lost: an error is latched over none or over a
\* lower one, and only a resettable one goes.
THEOREM LatchStepwise == Spec => [][Torn \/ LatchStep]_vars
<1>1. TypeOK /\ DecInv /\ [Next]_vars => (TypeOK /\ DecInv)' /\ [Torn \/ LatchStep]_vars
  BY TypeStep, SeqStep
<1> QED
  BY InitInv, <1>1, PTL DEF Spec, Inv

\* So the latch implements FaultLatch until one of the three races is lost: it shows the
\* highest-ranking error since the last reset, and only resettable ones go.
THEOREM ImplementsLatch == Spec /\ [][~Torn]_vars => LatchSpec
<1>1. Init => Abstract!Init
  BY DEF Init, Abstract!Init, HasError, NORMAL1, ERR, WARNERR
<1>2. [Torn \/ LatchStep]_vars /\ [~Torn]_vars => [Abstract!Next]_top
  BY DEF LatchStep, top, vars, latchVars
<1> QED
  BY <1>1, <1>2, LatchStepwise, PTL DEF Spec, LatchSpec, Abstract!Spec, top

(* -- The record of the latched error ---------------------------------------- *)

\* Whatever preempts what, the slot the ring points at holds the latched error: a call
\* that writes the code writes the slot with it, and saving moves neither.
RecordNamesCode == errCode # NoFault => info[infoPtr] = errCode

LEMMA InterfaceRecord ==
  ASSUME TypeOK, RecordNamesCode, NEW f \in Faults, NEW s, Interface(f, s)
  PROVE  RecordNamesCode'
<1>1. CASE Latch(f)
  <2>1. NextSlot \in 0 .. InfoMax - 1
    BY SizesOK DEF NextSlot, TypeOK
  <2> QED
    BY <1>1, <2>1 DEF Latch, Record, TypeOK, RecordNamesCode
<1>2. CASE UNCHANGED <<errCode, infoPtr, info>>
  BY <1>2 DEF RecordNamesCode
<1> QED
  BY <1>1, <1>2 DEF Interface, latchVars, recVars

LEMMA RecordStep ==
  ASSUME TypeOK, RecordNamesCode, [Next]_vars
  PROVE  RecordNamesCode'
<1>1. ASSUME NEW c \in Contexts, RaiseEnd(c)
      PROVE RecordNamesCode'
  <2>1. Interface(cur[c], seen[c]) /\ cur[c] \in Faults \cup {NoFault}
    BY <1>1 DEF RaiseEnd, TypeOK
  <2>2. cur[c] \in Faults
    BY <2>1, CodesOK DEF Interface, Faults
  <2> QED
    BY <2>1, <2>2, InterfaceRecord
<1>2. CASE PwmRaise
  BY <1>2, CodesOK, InterfaceRecord DEF PwmRaise, Faults
<1>3. CASE RstCode
  BY <1>3 DEF RstCode, RecordNamesCode
<1>4. ASSUME UNCHANGED <<errCode, infoPtr, info>> PROVE RecordNamesCode'
  BY <1>4 DEF RecordNamesCode
<1>5. ASSUME NEW c \in Contexts, NEW f, RaiseBegin(c, f)
      PROVE RecordNamesCode'
  BY <1>4, <1>5 DEF RaiseBegin, latchVars, recVars
<1>6. ASSUME NEW w \in Warnings, WarnInterfaceClr(w)
      PROVE RecordNamesCode'
  BY <1>4, <1>6 DEF WarnInterfaceClr, recVars
<1>7. ASSUME NEW e \in {0, 1}, RstCheck(e)
      PROVE RecordNamesCode'
  BY <1>4, <1>7 DEF RstCheck, latchVars, recVars
<1>8. CASE EepSave \/ Schedule \/ RstEntry \/ WarnRecover \/ RstStatus \/ RequestReset \/ UNCHANGED vars
  BY <1>4, <1>8 DEF EepSave, Schedule, RstEntry, WarnRecover, RstStatus, RequestReset, vars, latchVars, recVars
<1> QED
  BY <1>1, <1>2, <1>3, <1>5, <1>6, <1>7, <1>8 DEF Next, Judge, FaultRst, MainRaise, Contexts

\* The last record is the latched error under every preemption of the judges, the main loop
\* and the reset, for every set of codes and every ring size.
THEOREM CodeIsRecorded == Spec => []RecordNamesCode
<1>1. Init => RecordNamesCode
  BY DEF Init, RecordNamesCode
<1> QED
  BY <1>1, TypeCorrect, RecordStep, PTL DEF Spec

(* -- The reset pass of a tick ------------------------------------------------ *)

\* How many steps FaultPrtt_FaultRst has left at most.
PassRank(p) ==
  CASE p = "rst" -> 5
    [] p = "dec" -> 4
    [] p = "check" -> 3
    [] p = "clear" -> 2
    [] p = "code" -> 1
    [] OTHER -> 0

\* A pass of FaultPrtt_FaultRst comes to its end in five steps that nothing else takes or
\* undoes, and by its test it has taken the request back: granted, refused or void.
PassAnswers ==
  [][ /\ FaultRst => PassRank(pc'["tick"]) < PassRank(pc["tick"])
      /\ PassRank(pc["tick"]) > 0 /\ ~FaultRst => UNCHANGED pc["tick"]
      /\ PassRank(pc["tick"]) > 2 /\ PassRank(pc'["tick"]) <= 2 => resetReq' = 0 ]_vars

LEMMA PassStep ==
  ASSUME TypeOK, [Next]_vars
  PROVE  /\ FaultRst => PassRank(pc'["tick"]) < PassRank(pc["tick"])
         /\ PassRank(pc["tick"]) > 0 /\ ~FaultRst => UNCHANGED pc["tick"]
         /\ PassRank(pc["tick"]) > 2 /\ PassRank(pc'["tick"]) <= 2 => resetReq' = 0
<1> USE DEF GoTick
<1> DEFINE Down == PassRank(pc'["tick"]) < PassRank(pc["tick"])
           Answered == PassRank(pc["tick"]) > 2 /\ PassRank(pc'["tick"]) <= 2 => resetReq' = 0
<1>0. "tick" \in DOMAIN pc
  BY DEF TypeOK, Contexts
<1>1. RstEntry => Down /\ Answered
  BY <1>0 DEF RstEntry, PassRank
<1>2. WarnRecover => Down /\ Answered
  BY <1>0 DEF WarnRecover, PassRank
<1>3. ASSUME NEW e \in {0, 1}, RstCheck(e)
      PROVE  Down /\ Answered
  BY <1>0, <1>3 DEF RstCheck, Refuse, PassRank, TypeOK
<1>4. RstStatus \/ RstCode => Down /\ Answered
  BY <1>0 DEF RstStatus, RstCode, PassRank
<1>5. FaultRst => Down /\ Answered
  BY <1>1, <1>2, <1>3, <1>4 DEF FaultRst
<1>6. ASSUME ~FaultRst, PassRank(pc["tick"]) > 0
      PROVE  UNCHANGED pc["tick"]
  <2>1. pc["tick"] \notin {"idle", "raise"}
    BY <1>6 DEF PassRank
  <2> QED
    BY <1>0, <1>6, <2>1 DEF Next, Judge, MainRaise, RaiseBegin, RaiseEnd, WarnInterfaceClr, EepSave, Schedule,
                            PwmRaise, RequestReset, vars, ctxVars
<1>7. ASSUME PassRank(pc["tick"]) > 2, UNCHANGED pc["tick"]
      PROVE  Answered
  BY <1>7 DEF PassRank
<1>8. PassRank(pc["tick"]) > 2 => PassRank(pc["tick"]) > 0
  BY DEF PassRank
<1> QED
  BY <1>5, <1>6, <1>7, <1>8

\* Each pass of the reset ends in time and answers the request, under every preemption.
THEOREM ResetPassAnswers == Spec => PassAnswers
<1>1. TypeOK /\ [Next]_vars =>
        [ /\ FaultRst => PassRank(pc'["tick"]) < PassRank(pc["tick"])
          /\ PassRank(pc["tick"]) > 0 /\ ~FaultRst => UNCHANGED pc["tick"]
          /\ PassRank(pc["tick"]) > 2 /\ PassRank(pc'["tick"]) <= 2 => resetReq' = 0 ]_vars
  BY PassStep
<1> QED
  BY <1>1, TypeCorrect, PTL DEF Spec, PassAnswers

(* -- The warning bit --------------------------------------------------------- *)

HasWarning(s) == s \in {WARN, WARNERR}

\* Once the entry of a pass has found every warning withdrawn, the bit is gone by its test,
\* whatever the PWM interrupt raises meanwhile.
PassRecovers ==
  warnFlg = {} /\ pc["tick"] \in {"check", "clear", "code"} => ~HasWarning(faultStatus)

\* Without a warning the bit comes back only with an error of the main loop whose call read
\* the status before the withdrawal; the next pass takes it away again.
NoLateWarning ==
  [][ warnFlg' = {} /\ HasWarning(faultStatus') /\ ~HasWarning(faultStatus)
      => RaiseEnd("main") /\ cur["main"] \in Errors /\ seen["main"] = WARN ]_vars

\* Only the PWM interrupt comes into a call of the tick, and its errors keep the bit.
WarnInv == pc["tick"] = "raise" /\ HasWarning(seen["tick"]) => HasWarning(faultStatus)

LEMMA InterfaceWarning ==
  ASSUME NEW f \in Faults, NEW s, Interface(f, s), warnFlg' = {} \/ f \in Errors
  PROVE  /\ f \in Errors /\ UNCHANGED warnFlg
         /\ \/ UNCHANGED faultStatus
            \/ s = NORMAL1 /\ faultStatus' = ERR
            \/ s = WARN /\ faultStatus' = WARNERR
<1>1. f \notin Warnings
  BY DisjointCodes DEF Interface
<1> QED
  BY <1>1 DEF Interface, Latch, latchVars, Faults, HasError, NORMAL1, WARN, ERR, WARNERR

LEMMA WarningStep ==
  ASSUME TypeOK, DecInv, WarnInv, PassRecovers, [Next]_vars
  PROVE  /\ PassRecovers' /\ WarnInv'
         /\ warnFlg' = {} /\ HasWarning(faultStatus') /\ ~HasWarning(faultStatus)
            => RaiseEnd("main") /\ cur["main"] \in Errors /\ seen["main"] = WARN
<1> USE DEF NORMAL1, WARN, ERR, WARNERR, HasWarning
<1>0. "tick" \in DOMAIN pc /\ "tick" \in DOMAIN seen
  BY DEF TypeOK, Contexts
<1> DEFINE Late == warnFlg' = {} /\ HasWarning(faultStatus') /\ ~HasWarning(faultStatus)
                   => RaiseEnd("main") /\ cur["main"] \in Errors /\ seen["main"] = WARN
<1>1. ASSUME NEW c \in Contexts, NEW f, RaiseBegin(c, f)
      PROVE  PassRecovers' /\ WarnInv' /\ Late
  BY <1>0, <1>1 DEF RaiseBegin, MayRun, PassRecovers, WarnInv, TypeOK, latchVars, Contexts
<1>2. ASSUME NEW c \in Contexts, RaiseEnd(c)
      PROVE  PassRecovers' /\ WarnInv' /\ Late
  <2>1. Interface(cur[c], seen[c]) /\ cur[c] \in Faults \cup {NoFault}
    BY <1>2 DEF RaiseEnd, TypeOK
  <2>2. cur[c] \in Faults
    BY <2>1, CodesOK DEF Interface, Faults
  <2>3. pc'["tick"] = "idle"
    BY <1>0, <1>2 DEF RaiseEnd, MayRun, TypeOK, Contexts
  <2>4. ASSUME warnFlg' = {}, HasWarning(faultStatus'), ~HasWarning(faultStatus)
        PROVE  c = "main" /\ cur[c] \in Errors /\ seen[c] = WARN
    <3>1. cur[c] \in Errors /\ seen[c] = WARN
      BY <2>1, <2>2, <2>4, InterfaceWarning
    <3>2. pc[c] = "raise"
      BY <1>2 DEF RaiseEnd
    <3> QED
      BY <2>4, <3>1, <3>2 DEF WarnInv, Contexts
  <2> QED
    BY <1>2, <2>3, <2>4 DEF PassRecovers, WarnInv
<1>3. ASSUME NEW w \in Warnings, WarnInterfaceClr(w)
      PROVE  PassRecovers' /\ WarnInv' /\ Late
  BY <1>3 DEF WarnInterfaceClr, ctxVars, PassRecovers, WarnInv
<1>4. CASE EepSave \/ RequestReset \/ UNCHANGED vars
  BY <1>4 DEF EepSave, RequestReset, vars, latchVars, ctxVars, PassRecovers, WarnInv
<1>5. CASE Schedule
  BY <1>0, <1>5 DEF Schedule, GoTick, latchVars, PassRecovers, WarnInv
<1>6. CASE RstEntry
  BY <1>0, <1>6 DEF RstEntry, GoTick, Recoverable, latchVars, PassRecovers, WarnInv, TypeOK
<1>7. CASE WarnRecover
  BY <1>0, <1>7 DEF WarnRecover, GoTick, DecInv, PassRecovers, WarnInv, TypeOK
<1>8. ASSUME NEW e \in {0, 1}, RstCheck(e)
      PROVE  PassRecovers' /\ WarnInv' /\ Late
  BY <1>0, <1>8 DEF RstCheck, Refuse, GoTick, latchVars, PassRecovers, WarnInv
<1>9. CASE RstStatus \/ RstCode
  BY <1>0, <1>9 DEF RstStatus, RstCode, GoTick, PassRecovers, WarnInv
<1>10. CASE PwmRaise
  <2>1. PICK f \in PwmErrors : Interface(f, faultStatus)
    BY <1>10 DEF PwmRaise
  <2>2. f \in Errors /\ f \in Faults
    BY <2>1, CodesOK DEF Faults
  <2>3. /\ UNCHANGED warnFlg
        /\ \/ UNCHANGED faultStatus
           \/ faultStatus = NORMAL1 /\ faultStatus' = ERR
           \/ faultStatus = WARN /\ faultStatus' = WARNERR
    BY <2>1, <2>2, InterfaceWarning
  <2>4. UNCHANGED <<pc, seen>>
    BY <1>10 DEF PwmRaise, ctxVars
  <2> QED
    BY <2>3, <2>4 DEF PassRecovers, WarnInv
<1> QED
  BY <1>1, <1>2, <1>3, <1>4, <1>5, <1>6, <1>7, <1>8, <1>9, <1>10
  DEF Next, Judge, FaultRst, MainRaise, Contexts

\* Under every preemption, one pass of the tick takes the warning bit away once the warnings
\* are withdrawn, and only a main loop's call cut by the withdrawal brings it back.
THEOREM WithdrawnWarningGoes == Spec => []PassRecovers /\ NoLateWarning
<1>1. Init => PassRecovers /\ WarnInv
  BY DEF Init, PassRecovers, WarnInv, Contexts
<1>2. TypeOK /\ DecInv /\ [Next]_vars => (TypeOK /\ DecInv)'
  BY TypeStep
<1>3. TypeOK /\ DecInv /\ WarnInv /\ PassRecovers /\ [Next]_vars =>
        /\ PassRecovers' /\ WarnInv'
        /\ [ warnFlg' = {} /\ HasWarning(faultStatus') /\ ~HasWarning(faultStatus)
             => RaiseEnd("main") /\ cur["main"] \in Errors /\ seen["main"] = WARN ]_vars
  BY WarningStep
<1> QED
  BY InitInv, <1>1, <1>2, <1>3, PTL DEF Spec, NoLateWarning, Inv
=============================================================================
