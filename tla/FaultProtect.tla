---------------------------- MODULE FaultProtect ----------------------------
(***************************************************************************)
(* The fault latch of the drive (SV_FaultProtect.c): errors and warnings   *)
(* raised by every part of the firmware, the error shown and recorded, and *)
(* the reset.  FaultPrtt_FaultInterface is called from the PWM interrupt,  *)
(* the 1 ms interrupt and the main loop with no critical section, so each  *)
(* call and the reset are cut where a preemption matters; Preemptible says *)
(* whether an interrupt may strike inside them.                            *)
(***************************************************************************)
EXTENDS Integers

CONSTANTS
  Errors,       \* unmasked codes of level 1 and 2: records [disp, level, reset]
  Warnings,     \* codes of level 3
  NoFault,      \* ErrCode 0
  PwmErrors,    \* the errors the PWM interrupt raises
  MainErrors,   \* the errors the main loop raises
  InfoMax,      \* FP_FAULTINFOMAX
  Preemptible

Faults == Errors \cup Warnings

ASSUME CodesOK ==
  /\ \A f \in Errors : f \in [disp : 1 .. 127, level : {1, 2}, reset : {0, 1}]
  /\ \A f \in Warnings : f \in [disp : 128 .. 255, level : {3}, reset : {1}]
  /\ NoFault \notin Faults
  /\ PwmErrors \subseteq Errors /\ MainErrors \subseteq Errors
ASSUME SizesOK == InfoMax \in Nat \ {0}
ASSUME PreemptibleOK == Preemptible \in BOOLEAN

NORMAL1 == 0
WARN == 1
ERR == 2
WARNERR == 3
HasError(s) == s \in {ERR, WARNERR}

Contexts == {"tick", "main"}

VARIABLES
  faultStatus, errCode, warnFlg, faultDisp,
  errDoFlg, warnDoFlg,
  eepFlg, infoPtr, info,  \* the record ring and its unsaved mark
  resetReq,               \* RamAid->FaultReset
  pc,                     \* per context: "idle", "raise", and for the tick
                          \*   "rst", "dec", "check", "clear"
  cur,                    \* per context: the fault being raised
  seen,                   \* per context: the status its switch or RMW read
  hard                    \* history: the non-resettable errors latched so far

latchVars == <<faultStatus, errCode, faultDisp, warnFlg>>
recVars   == <<eepFlg, infoPtr, info>>
doVars    == <<errDoFlg, warnDoFlg>>
ctxVars   == <<pc, cur, seen>>
vars == <<latchVars, recVars, doVars, resetReq, ctxVars, hard>>

Init ==
  /\ faultStatus = NORMAL1 /\ errCode = NoFault /\ warnFlg = {} /\ faultDisp = 0
  /\ errDoFlg = 0 /\ warnDoFlg = 0
  /\ eepFlg = 0 /\ infoPtr = InfoMax - 1 /\ info = [i \in 0 .. InfoMax - 1 |-> NoFault]
  /\ resetReq = 0 /\ hard = {}
  /\ pc = [c \in Contexts |-> "idle"]
  /\ cur = [c \in Contexts |-> NoFault] /\ seen = [c \in Contexts |-> NORMAL1]

(* -- FaultPrtt_FaultInterface -------------------------------------------- *)

\* FAULT_BIT_PRIORITY: level first, then the code; the smaller wins.
OutranksByCode(f, e) == f.disp < e.disp
Outranks(f, e) == f.level < e.level \/ (f.level = e.level /\ f.disp < e.disp)

\* FaultPrtt_MsgRecord for the error f: a new slot unless the last is unsaved.
NextSlotNoWrap == infoPtr + 1
NextSlot == IF infoPtr + 1 >= InfoMax THEN 0 ELSE infoPtr + 1
Record(f) ==
  LET p == IF eepFlg = 1 THEN infoPtr ELSE NextSlot
  IN  eepFlg' = 1 /\ infoPtr' = p /\ info' = [info EXCEPT ![p] = f]

\* A new error: code, display and record; the status is the branch's.
Latch(f) ==
  /\ errCode' = f /\ faultDisp' = f.disp /\ Record(f)
  /\ hard' = IF f.reset = 0 THEN hard \cup {f} ELSE hard
  /\ UNCHANGED warnFlg

\* The body of the switch for a fault f, in the branch of the status s.
Interface(f, s) ==
  \/ /\ f \in Warnings
     /\ faultStatus' = IF s \in {NORMAL1, WARN} THEN WARN ELSE WARNERR
     /\ warnFlg' = warnFlg \cup {f}
     /\ faultDisp' = IF s \in {NORMAL1, WARN} THEN f.disp ELSE faultDisp
     /\ UNCHANGED <<errCode, hard, recVars>>
  \/ /\ f \in Errors /\ s \in {NORMAL1, WARN}
     /\ faultStatus' = IF s = NORMAL1 THEN ERR ELSE WARNERR
     /\ Latch(f)
  \/ /\ f \in Errors /\ HasError(s)
     /\ IF errCode # NoFault /\ Outranks(f, errCode)
        THEN Latch(f) /\ UNCHANGED faultStatus
        ELSE UNCHANGED <<latchVars, recVars, hard>>

\* The PWM interrupt runs a whole call, between two steps of anything else.
PwmRaise ==
  /\ Preemptible \/ pc = [c \in Contexts |-> "idle"]
  /\ \E f \in PwmErrors : Interface(f, faultStatus)
  /\ UNCHANGED <<doVars, resetReq, ctxVars>>

\* A context may move when nothing of a higher priority is under way, and the
\* tick starts inside the main loop's call only where preemption is modelled.
MayRun(c) ==
  IF c = "main" THEN pc["tick"] = "idle"
  ELSE Preemptible \/ pc["main"] = "idle"

\* Call of the interface by the 1 ms judges or by the main loop: the switch has
\* read the status.
RaiseBegin(c, f) ==
  /\ MayRun(c) /\ pc[c] = "idle"
  /\ f \in IF c = "main" THEN MainErrors ELSE Faults
  /\ pc' = [pc EXCEPT ![c] = "raise"]
  /\ cur' = [cur EXCEPT ![c] = f]
  /\ seen' = [seen EXCEPT ![c] = faultStatus]
  /\ UNCHANGED <<latchVars, recVars, doVars, resetReq, hard>>

RaiseEnd(c) ==
  /\ MayRun(c) /\ pc[c] = "raise"
  /\ Interface(cur[c], seen[c])
  /\ pc' = [pc EXCEPT ![c] = "idle"]
  /\ cur' = [cur EXCEPT ![c] = NoFault]
  /\ seen' = [seen EXCEPT ![c] = NORMAL1]
  /\ UNCHANGED <<doVars, resetReq>>

\* FaultPrtt_WarnInterfaceClr.
ClearDispAlways(w) == 0
ClearDisp(w) == IF faultDisp = w.disp THEN 0 ELSE faultDisp
WarnInterfaceClr(w) ==
  /\ MayRun("tick") /\ pc["tick"] = "idle"
  /\ faultDisp' = ClearDisp(w)
  /\ warnFlg' = warnFlg \ {w}
  /\ UNCHANGED <<faultStatus, errCode, recVars, doVars, resetReq, ctxVars, hard>>

(* -- FaultPrtt_Schedule and FaultPrtt_FaultRst ---------------------------- *)

GoTick(p) == pc' = [pc EXCEPT !["tick"] = p]

\* The two outputs follow the status.
Schedule ==
  /\ MayRun("tick") /\ pc["tick"] = "idle"
  /\ errDoFlg' = IF HasError(faultStatus) THEN 1 ELSE 0
  /\ warnDoFlg' = IF faultStatus \in {WARN, WARNERR} THEN 1 ELSE 0
  /\ GoTick("rst")
  /\ UNCHANGED <<latchVars, recVars, resetReq, cur, seen, hard>>

RecoverableWarnOnly == warnFlg = {} /\ faultStatus = WARN
Recoverable == warnFlg = {} /\ faultStatus # ERR

\* Nothing to reset: the request is dropped.  Otherwise a status whose warnings
\* are gone is read to be decremented.
RstEntry ==
  /\ pc["tick"] = "rst"
  /\ resetReq' = IF faultStatus = NORMAL1 THEN 0 ELSE resetReq
  /\ GoTick(IF faultStatus = NORMAL1 THEN "idle"
            ELSE IF Recoverable THEN "dec" ELSE "check")
  /\ seen' = [seen EXCEPT !["tick"] = faultStatus]
  /\ UNCHANGED <<latchVars, recVars, doVars, cur, hard>>

\* FaultStatus -= 1, as the store of the value read: WARN -> NORMAL1 and
\* WARNERR -> ERR.
WarnRecover ==
  /\ pc["tick"] = "dec"
  /\ faultStatus' = seen["tick"] - 1
  /\ GoTick("check")
  /\ UNCHANGED <<errCode, faultDisp, warnFlg, recVars, doVars, resetReq, cur, seen, hard>>

\* The request tested against the code latched now; ErrCode 0 has no reset bit.
NotResettableNever == FALSE
NotResettable ==
  faultStatus > WARN /\ (errCode = NoFault \/ errCode.reset = 0)

RefuseSilently == UNCHANGED resetReq /\ GoTick("idle")
Refuse == resetReq' = 0 /\ GoTick("idle")

\* edge: a reset edge on the input terminal or in the control word.
RstCheck(edge) ==
  /\ pc["tick"] = "check"
  /\ IF NotResettable
     THEN Refuse
     ELSE IF edge = 1 \/ resetReq = 1
     THEN resetReq' = 0 /\ GoTick("clear")
     ELSE UNCHANGED resetReq /\ GoTick("idle")
  /\ seen' = [seen EXCEPT !["tick"] = NORMAL1]
  /\ UNCHANGED <<latchVars, recVars, doVars, cur, hard>>

\* FaultStatus, then ErrCode and FaultDisp: two steps.
RstStatus ==
  /\ pc["tick"] = "clear"
  /\ faultStatus' = NORMAL1 /\ GoTick("code")
  /\ UNCHANGED <<errCode, faultDisp, warnFlg, recVars, doVars, resetReq, cur, seen, hard>>

RstCode ==
  /\ pc["tick"] = "code"
  /\ errCode' = NoFault /\ faultDisp' = 0 /\ GoTick("idle")
  /\ UNCHANGED <<faultStatus, warnFlg, recVars, doVars, resetReq, cur, seen, hard>>

(* -- Surroundings --------------------------------------------------------- *)

\* The panel or a bus writes the reset request.
RequestReset ==
  /\ resetReq = 0 /\ resetReq' = 1
  /\ UNCHANGED <<latchVars, recVars, doVars, ctxVars, hard>>

\* IIc_Fun hands the records to the EEPROM task.
EepSave ==
  /\ MayRun("tick") /\ pc["tick"] = "idle" /\ eepFlg = 1
  /\ eepFlg' = 0
  /\ UNCHANGED <<latchVars, infoPtr, info, doVars, resetReq, ctxVars, hard>>

Judge ==
  \/ \E f \in Faults : RaiseBegin("tick", f)
  \/ RaiseEnd("tick")
  \/ \E w \in Warnings : WarnInterfaceClr(w)
  \/ EepSave

FaultRst ==
  RstEntry \/ WarnRecover \/ (\E e \in {0, 1} : RstCheck(e)) \/ RstStatus \/ RstCode

MainRaise == (\E f \in MainErrors : RaiseBegin("main", f)) \/ RaiseEnd("main")

Next == Judge \/ Schedule \/ FaultRst \/ MainRaise \/ PwmRaise \/ RequestReset

Spec == Init /\ [][Next]_vars

\* The 1 ms interrupt comes round, runs a bounded number of judges and then the
\* schedule, and finishes what it begins; the main loop moves between ticks.
LiveSpec ==
  Spec /\ SF_vars(Schedule) /\ WF_vars(FaultRst) /\ WF_vars(RaiseEnd("tick"))
       /\ SF_vars(RaiseEnd("main"))

(* -- Properties ----------------------------------------------------------- *)

\* Every variable stays in its range.
TypeOK ==
  /\ faultStatus \in NORMAL1 .. WARNERR
  /\ errCode \in Errors \cup {NoFault} /\ warnFlg \subseteq Warnings
  /\ faultDisp \in 0 .. 255
  /\ errDoFlg \in {0, 1} /\ warnDoFlg \in {0, 1} /\ eepFlg \in {0, 1}
  /\ infoPtr \in 0 .. InfoMax - 1
  /\ info \in [0 .. InfoMax - 1 -> Errors \cup {NoFault}]
  /\ resetReq \in {0, 1} /\ hard \subseteq Errors
  /\ pc \in [Contexts -> {"idle", "raise", "rst", "dec", "check", "clear", "code"}]
  /\ cur \in [Contexts -> Faults \cup {NoFault}]
  /\ seen \in [Contexts -> NORMAL1 .. WARNERR]

Quiet == \A c \in Contexts : pc[c] = "idle"

\* Status, code, display and record agree: the panel, the bus and the EEPROM name
\* the error that stopped the drive, after any order of errors, warnings, cleared
\* warnings and resets.
ErrorIsNamed ==
  Quiet =>
    /\ HasError(faultStatus) <=> errCode # NoFault
    /\ HasError(faultStatus) => faultDisp = errCode.disp /\ info[infoPtr] = errCode

\* A non-resettable error that no resettable code outranks (ER.001 to ER.006) keeps the
\* drive in the error status until the next power-up, whatever is raised or reset.
Supreme(f) == \A g \in Errors : g.reset = 1 => Outranks(f, g)
SupremeStays == Quiet /\ (\E f \in hard : Supreme(f)) => HasError(faultStatus)

\* The latch shows the highest-ranking error raised since the last reset.
Abstract == INSTANCE FaultLatch WITH
           top <- IF HasError(faultStatus) THEN errCode ELSE NoFault
LatchSpec == Abstract!Spec

\* When all warnings are withdrawn the status loses its warning bit, although the
\* judges keep raising errors and the withdrawal races with the reset.
WarningsRecover == <>[](warnFlg = {}) => <>[](faultStatus \in {NORMAL1, ERR})

\* A reset request is always consumed, whether it is granted, refused or finds
\* nothing to reset.
ResetAnswered == resetReq = 1 ~> resetReq = 0

(* -- What the comments of the repository claim ---------------------------- *)

\* SV_FaultProtect.h:6, SV_FaultProtect.c:131-136: an error whose code says so cannot be
\* reset; it keeps the drive in the error status until the next power-up.
NonResettableStays == Quiet /\ hard # {} => HasError(faultStatus)
=============================================================================
