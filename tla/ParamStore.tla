------------------------------ MODULE ParamStore ------------------------------
(***************************************************************************)
(* The parameter store: SV_I2c.c of the CANopen build.  A 1 ms interrupt   *)
(* runs one task at a time over the EEPROM bus (IIC_Process); at power-up  *)
(* the main program waits in PowerOnReadFunc for the chain of reads and,   *)
(* when the EEPROM is empty or of another firmware, for the chain of       *)
(* writes that initialises it; later the panel, the serial line, the       *)
(* network and the fault records ask for saves and restores.  Power may    *)
(* fail between any two page writes and the bus may stop answering, or be  *)
(* found stuck at power-up (I2CA_Init): then no transfer ever starts.      *)
(*                                                                         *)
(* A page stands for the EEPROM pages of one area.  "user" pages are P1 to *)
(* PD, the first one with the mark P1[62]; "maker" pages are PE and PF,    *)
(* the first one with the firmware version PF[0], the second one with the  *)
(* mark PF[61]; o1 and o6 are the object dictionaries 0x1000 and 0x6000,   *)
(* of is the copy of 0x6000 for the full closed loop, which is not read    *)
(* because FullCloseMode is 0; rec is the list of fault records.  A value  *)
(* is blank (0xFFFF), old (another firmware's), fac (factory; for rec: no  *)
(* fault), full (the 0x6000 defaults of the full closed loop) or new       *)
(* (written by someone).  A page write is atomic.  The races on IICFlag    *)
(* and on the rear index of a queue, and the Flash mirror of the motor     *)
(* parameters, are left out.                                               *)
(***************************************************************************)
EXTENDS Integers, Sequences, SequencesExt

CONSTANTS QueueMax,     \* PENDINGTASKMAX - 1, SCITASKMAX - 1
          MaxEvents     \* bound: requests, edits, power and bus failures

ASSUME BoundsOK == QueueMax \in Nat \ {0} /\ MaxEvents \in Nat

VARIABLES eep,          \* the EEPROM's pages
          ram,          \* the live pages: RamFuncCode, CumObj, LocalAxes, FaultInfo
          boot,         \* where PowerOnReadFunc is: "read", "init", "run"
          tries,        \* how often it has read everything: 1..3
          allRead,      \* IIcTask.ServoAllRead
          servoInit,    \* IIcTask.ServoInit
          need,         \* the bits of IICFlag that are TASK_NEED
          job,          \* IIcTask.Handle and Status, and the pages of the transfer left
          panel,        \* IIcTask.PANEL_Arg
          queue,        \* IIcTask.TASKSCI: single parameters to save
          eepFlg,       \* FaultP.EepFlg: the records are not saved
          i2cErr,       \* I2CCtlVal.I2cErrFlag
          bus,          \* I2cBusState: "ok" in turn idle and busy; IIC_BUS_INITERR is "stuck"
                        \* and, once reported, "told"
          reported,     \* a fault of the store (SysPramErr, PramRecErr, PramWErr, IICCheckErr) is raised
          owed,         \* ghost: pages whose accepted save must reach the EEPROM
          resetOwed,    \* ghost: pages that an accepted full reset must restore
          cut,          \* ghost: a save of the fault records has cut the reset short
          tainted,      \* ghost: the maker's pages were saved with a fault of the store raised
          events        \* requests and failures so far

store   == <<eep, ram>>
main    == <<boot, tries, allRead>>
tasks   == <<need, job>>
pending == <<panel, queue>>
flags   == <<servoInit, eepFlg, i2cErr, reported, bus>>
ghosts  == <<owed, resetOwed, cut, tainted>>
vars    == <<store, main, tasks, pending, flags, ghosts, events>>

User    == <<"user", "user2">>
Maker   == <<"maker", "maker2">>
\* Variant of FuncCodes: the pages with the firmware version are transferred first.
VersionFirst == Maker \o User
\* all function codes, in the order of their addresses: the version after the user's parameters
FuncCodes == <<"user", "user2", "maker", "maker2">>
Resets  == ToSet(FuncCodes) \cup {"o1", "o6"}
Pages   == Resets \cup {"of", "rec"}
Blank   == [p \in Pages |-> "blank"]
\* what the program loads into the live pages when it gives up or starts afresh
Factory(values) == [p \in Pages |-> IF p = "of" THEN values[p] ELSE "fac"]

(***************************************************************************)
(* The tasks.                                                              *)
(***************************************************************************)
\* the pages a task transfers, in the order of their addresses
Transfer == [PURead |-> FuncCodes, Rd1000 |-> <<"o1">>, Rd6000 |-> <<"o6">>,
             FaultRead |-> <<"rec">>, FacWrite |-> FuncCodes, Reset |-> FuncCodes,
             WrFac1000 |-> <<"o1">>, WrFac6000 |-> <<"o6">>, WrFull |-> <<"of">>,
             DefWrite |-> User, SaveUser |-> User, SaveMaker |-> Maker,
             Wr1000 |-> <<"o1">>, Wr6000 |-> <<"o6">>,
             FaultSave1 |-> <<"rec">>, FaultClr |-> <<"rec">>]
Reads    == {"PURead", "Rd1000", "Rd6000", "FaultRead"}
Saves    == {"SaveUser", "SaveMaker", "Wr1000", "Wr6000"}
\* Variant of Restores: 6000UpWrFac copies the factory values after its write, as the commented-out
\* lines 840-843 of SV_I2c.c did.
RestoresLate == [t \in DOMAIN Transfer |->
               IF t \in {"FacWrite", "Reset", "DefWrite", "FaultClr"}
               THEN ToSet(Transfer[t]) ELSE {}]
\* the pages whose live value a task replaces before it writes them
Restores == [t \in DOMAIN Transfer |->
               IF t \in {"FacWrite", "Reset", "DefWrite", "WrFac6000", "FaultClr"}
               THEN ToSet(Transfer[t]) ELSE {}]
\* IIc_TaskSel: the first of these that is needed is taken
Priority == <<"PURead", "FaultSave1", "FaultRead", "FacWrite", "Panel", "Rd1000", "Wr1000",
              "Rd6000", "DefWrite", "FaultClr", "Wr6000", "WrFac1000", "WrFac6000",
              "SaveUser", "SaveMaker", "Reset", "WrFull">>
ClearedWhenTaken == {"Panel", "Wr1000", "Rd6000", "Wr6000", "WrFac1000", "WrFac6000",
                     "SaveUser", "SaveMaker", "Reset", "WrFull"}
ReadChain == [PURead |-> "Rd1000", Rd1000 |-> "Rd6000", Rd6000 |-> "FaultRead"]
InitChain == [FacWrite |-> "WrFac1000", Reset |-> "WrFac1000", WrFac1000 |-> "WrFac6000",
              WrFull |-> "FaultSave1"]
\* the tasks that the end of task t asks for
After(t) == {u \in DOMAIN Transfer :
               \/ t \in DOMAIN ReadChain /\ ~i2cErr /\ u = ReadChain[t]
               \/ t \in DOMAIN InitChain /\ servoInit /\ u = InitChain[t]
               \/ t = "WrFac6000" /\ u = "WrFull"}

Idle        == [task |-> "none", begun |-> FALSE, left |-> <<>>]
Taken(t)    == [task |-> t, begun |-> FALSE, left |-> <<>>]
Running(t)  == job.task = t /\ job.begun
\* Variant of ClearedAtEnd: the save of the fault records leaves its flag set.
KeptAtEnd(t)    == IF t \in {"Panel", "Sci", "FaultSave1"} THEN {} ELSE {t}
\* the flag that a task clears when it ends
ClearedAtEnd(t) == IF t \in {"Panel", "Sci"} THEN {} ELSE {t}
\* Variant of QueueFull: off by one.
QueueOverrun    == Len(queue) > QueueMax
QueueFull       == Len(queue) = QueueMax

\* IIc_TaskSel, with the bus free and no task
TaskSel ==
  /\ job = Idle
  /\ \/ \E i \in DOMAIN Priority :
          /\ Priority[i] \in need
          /\ \A j \in 1..(i - 1) : Priority[j] \notin need
          /\ job' = Taken(Priority[i])
          /\ need' = need \ ({Priority[i]} \cap ClearedWhenTaken)
     \/ need = {} /\ queue # <<>> /\ job' = Taken("Sci") /\ UNCHANGED need
  /\ UNCHANGED <<store, main, pending, flags, ghosts, events>>

\* the TASK_STATUS_IDLE branch of a task: it prepares the live pages and starts the transfer
Begin ==
  LET t == job.task
      replaced == IF t \in DOMAIN Transfer THEN Restores[t] ELSE {} IN
  /\ t # "none" /\ ~job.begun
  /\ job' = [job EXCEPT !.begun = TRUE,
                        !.left = CASE t = "Sci"   -> <<Head(queue)>>
                                   [] t = "Panel" -> <<panel>>
                                   [] OTHER       -> Transfer[t]]
  /\ queue' = IF t = "Sci" THEN Tail(queue) ELSE queue
  /\ ram' = [p \in Pages |-> IF p \in replaced THEN "fac"
                             ELSE IF t = "WrFull" /\ p = "o6" THEN "full" ELSE ram[p]]
  /\ owed' = owed \ (replaced \cup (IF t \in Reads \cup {"WrFac1000"} THEN ToSet(Transfer[t])
                                    ELSE IF t = "WrFull" THEN {"o6"} ELSE {}))
  /\ UNCHANGED <<eep, main, need, panel, flags, resetOwed, cut, tainted, events>>

\* one page over the bus: from the EEPROM, from the live page, the factory table (1000WrFac)
\* or, for the full closed loop, the live 0x6000
PageStep ==
  LET t == job.task
      p == Head(job.left) IN
  /\ bus = "ok"
  /\ job.left # <<>>
  /\ job' = [job EXCEPT !.left = Tail(@)]
  /\ IF t \in Reads
     THEN ram' = [ram EXCEPT ![p] = eep[p]] /\ UNCHANGED eep
     ELSE /\ eep' = [eep EXCEPT ![p] = CASE t = "WrFac1000" -> "fac"
                                         [] t = "WrFull"    -> ram["o6"]
                                         [] OTHER           -> ram[p]]
          /\ UNCHANGED ram
  /\ UNCHANGED <<main, need, pending, flags, ghosts, events>>

\* the second branch of a task: IIcStatus is idle again, after the last page or a time-out
Finish ==
  LET t == job.task IN
  /\ job.begun /\ job.left = <<>>
  /\ job' = Idle
  /\ need' = (need \ ClearedAtEnd(t)) \cup After(t)
  /\ ram' = [ram EXCEPT !["o1"] = IF t = "WrFac1000" THEN "fac" ELSE @]
  /\ allRead' = (allRead /\ t # "FaultRead")
  /\ eepFlg' = (eepFlg /\ t # "FaultSave1")
  /\ servoInit' = (servoInit /\ t # "FaultSave1")
  /\ cut' = (cut \/ (t = "FaultSave1" /\ need \cap {"Reset", "WrFac1000"} # {}))
  /\ UNCHANGED <<eep, boot, tries, pending, i2cErr, reported, bus, owed, resetOwed, tainted, events>>

(***************************************************************************)
(* Power-up: PowerOnReadFunc, in the main program.                         *)
(***************************************************************************)
\* FaultPrtt_FaultInterface: the fault of the store is recorded like any other
Report(values) ==
  /\ reported' = TRUE
  /\ eepFlg' = TRUE
  /\ ram' = [values EXCEPT !["rec"] = "new"]

EmptyRead   == ram["maker"] = "blank" /\ ram["user"] = "blank"
OtherVersion == ram["maker"] \in {"blank", "old"} /\ ~i2cErr
\* IIC_PowerUpCheck: every mark is there
Marked      == \A p \in {"user", "maker2", "o1", "o6"} : ram[p] # "blank"

PowerUpCheck ==
  /\ boot' = "run"
  /\ IF Marked THEN UNCHANGED <<ram, eepFlg, i2cErr, reported>>
     ELSE i2cErr' = TRUE /\ Report(ram)

\* the factory values into the live pages, then the chain of writes
StartInit ==
  /\ boot' = "init"
  /\ servoInit' = TRUE
  /\ need' = need \cup {"FacWrite"}
  /\ ram' = Factory(ram)

BootCheck ==
  /\ boot = "read" /\ ~allRead
  /\ \/ /\ EmptyRead /\ tries < 3
        /\ tries' = tries + 1 /\ allRead' = TRUE
        /\ need' = need \cup {"PURead"}
        /\ UNCHANGED <<ram, boot, servoInit, eepFlg, i2cErr, reported>>
     \/ /\ IF EmptyRead THEN tries = 3 ELSE OtherVersion
        /\ StartInit
        /\ UNCHANGED <<tries, allRead, eepFlg, i2cErr, reported>>
     \/ /\ ~EmptyRead /\ ~OtherVersion
        /\ PowerUpCheck
        /\ UNCHANGED <<tries, allRead, servoInit, need>>
  /\ UNCHANGED <<eep, job, pending, bus, ghosts, events>>

InitDone ==
  /\ boot = "init" /\ ~servoInit
  /\ PowerUpCheck
  /\ UNCHANGED <<eep, tries, allRead, tasks, pending, servoInit, bus, ghosts, events>>

\* IIC_BUS_INITERR, in the first pass of the 1 ms interrupt; the bus stays in this state, in
\* which nothing is transferred and no time-out runs, until the power is cut.
BusInitErr ==
  /\ bus = "stuck"
  /\ bus' = "told"
  /\ allRead' = TRUE
  /\ Report(ram)
  /\ UNCHANGED <<eep, boot, tries, tasks, pending, servoInit, i2cErr, ghosts, events>>

\* IIC_POWERUP_TIMEMAX: the live pages get the factory values, and what is under way goes on.
\* Every transfer has its own limit (1.6 s to read, 30 ms to write a page) far above its
\* duration, so that the 5 s pass only after one was abandoned or on a stuck bus.
BootTimeout ==
  /\ i2cErr \/ bus = "told"
  /\ \/ boot = "read" /\ allRead /\ Report(Factory(ram))
     \/ boot = "init" /\ servoInit /\ Report(ram)
  /\ boot' = "run"
  /\ UNCHANGED <<eep, tries, allRead, tasks, pending, servoInit, i2cErr, bus, ghosts, events>>

(***************************************************************************)
(* Requests, and failures.  Each counts as an event.                       *)
(***************************************************************************)
Event == events < MaxEvents /\ events' = events + 1

\* IIc_Fun: what a value of ParaInit asks for
Command == [code0x1  |-> {"FaultClr"}, code11 |-> {"WrFac1000"}, code22 |-> {"WrFac6000"},
            code33   |-> {"Wr1000"}, code44 |-> {"Wr6000"}, code55 |-> {"SaveUser"},
            code66   |-> {"DefWrite"}, code77 |-> {"DefWrite", "WrFac6000", "WrFac1000"},
            code88   |-> {"SaveUser", "Wr1000", "Wr6000"},
            code0xFFFB |-> {"SaveUser", "Wr1000", "Wr6000", "SaveMaker"},
            code0xFFFC |-> {"SaveMaker"}, code0xFFFD |-> {"Reset"}]

\* Variant of IIcFun: a request that finds the store at work is forgotten.
IIcFunBusy(code) == need' = IF job = Idle THEN need \cup Command[code] ELSE need
IIcFun(code)     == need' = need \cup Command[code]

ParaInit(code) ==
  LET kept == {t \in Command[code] \cap Saves : ~Running(t)} IN
  /\ Event
  /\ boot = "run"
  /\ IIcFun(code)
  /\ servoInit' = (servoInit \/ code = "code0xFFFD")
  /\ owed' = owed \cup UNION {ToSet(Transfer[t]) : t \in kept}
  /\ resetOwed' = IF code = "code0xFFFD" /\ ~Running("Reset") THEN Resets \ ToSet(queue)
                  ELSE resetOwed \ (IF "Wr6000" \in Command[code] THEN {"o6"} ELSE {})
  /\ cut' = (cut /\ code # "code0xFFFD")
  /\ tainted' = (tainted \/ (reported /\ "SaveMaker" \in Command[code]))
  /\ UNCHANGED <<store, main, job, pending, eepFlg, i2cErr, reported, bus>>

\* EepFlg has been set for 5 s
SaveDue ==
  /\ eepFlg
  /\ eepFlg' = FALSE
  /\ need' = need \cup {"FaultSave1"}
  /\ UNCHANGED <<store, main, job, pending, servoInit, i2cErr, reported, bus, ghosts, events>>

\* a write of one parameter that is not to be saved
Edit(p) ==
  /\ Event
  /\ boot = "run"
  /\ ram' = [ram EXCEPT ![p] = "new"]
  /\ owed' = owed \ {p}
  /\ resetOwed' = resetOwed \ {p}
  /\ UNCHANGED <<eep, main, tasks, pending, flags, cut, tainted>>

\* the panel's write, saved through the one slot PANEL_Arg: one that waits there is replaced
IIcInterfaceA(p) ==
  /\ Event
  /\ boot = "run"
  /\ ram' = [ram EXCEPT ![p] = "new"]
  /\ panel' = p
  /\ need' = need \cup {"Panel"}
  /\ owed' = (owed \ (IF "Panel" \in need \/ job = Taken("Panel") THEN {panel} ELSE {})) \cup {p}
  /\ resetOwed' = resetOwed \ {p}
  /\ UNCHANGED <<eep, main, job, queue, flags, cut, tainted>>

\* a write over the serial line or the network; a full queue drops the save without a word
IIcInterfaceC(p) ==
  /\ Event
  /\ boot = "run"
  /\ ram' = [ram EXCEPT ![p] = "new"]
  /\ IF QueueFull
     THEN queue' = queue /\ owed' = owed \ {p}
     ELSE queue' = Append(queue, p) /\ owed' = owed \cup {p}
  /\ resetOwed' = resetOwed \ {p}
  /\ UNCHANGED <<eep, main, tasks, panel, flags, cut, tainted>>

\* the CANopen master resets the node: the dictionaries are read again
NetworkReset ==
  /\ Event
  /\ boot = "run"
  /\ need' = need \cup {"Rd1000"}
  /\ UNCHANGED <<store, main, job, pending, flags, ghosts>>

\* another fault or warning is recorded, FaultPrtt_MsgRecord
MsgRecord ==
  /\ Event
  /\ ram' = [ram EXCEPT !["rec"] = "new"]
  /\ eepFlg' = TRUE
  /\ owed' = IF Running("FaultSave1") THEN owed \ {"rec"} ELSE owed \cup {"rec"}
  /\ boot = "run"
  /\ UNCHANGED <<eep, main, tasks, pending, servoInit, i2cErr, reported, bus, resetOwed,
                 cut, tainted>>

\* the bus does not answer: the transfer is abandoned, its task ends as if it were done
BusTimeout ==
  /\ Event
  /\ bus = "ok"
  /\ job.left # <<>>
  /\ job' = [job EXCEPT !.left = <<>>]
  /\ i2cErr' = TRUE
  /\ Report(ram)
  /\ UNCHANGED <<eep, main, need, pending, servoInit, bus, ghosts>>

\* power fails and comes back: only the EEPROM is left; the data line may be found held low
PowerLoss ==
  /\ Event
  /\ ram' = Factory(Blank)
  /\ boot' = "read" /\ tries' = 1 /\ allRead' = TRUE
  /\ need' = {"PURead"} /\ job' = Idle /\ panel' = "user2" /\ queue' = <<>>
  /\ servoInit' = FALSE /\ eepFlg' = FALSE /\ i2cErr' = FALSE /\ reported' = FALSE
  /\ bus' \in {"ok", "stuck"}
  /\ owed' = {} /\ resetOwed' = {} /\ cut' = FALSE
  /\ UNCHANGED <<eep, tainted>>

(***************************************************************************)
(* The specification.                                                      *)
(***************************************************************************)
\* an empty EEPROM, one written by another firmware, one in use
Init ==
  /\ eep \in {Blank, [p \in Pages |-> "old"], [p \in Pages |-> "fac"]}
  /\ ram = Factory(Blank)
  /\ boot = "read" /\ tries = 1 /\ allRead = TRUE
  /\ need = {"PURead"} /\ job = Idle /\ panel = "user2" /\ queue = <<>>
  /\ servoInit = FALSE /\ eepFlg = FALSE /\ i2cErr = FALSE /\ reported = FALSE
  /\ bus \in {"ok", "stuck"}
  /\ owed = {} /\ resetOwed = {} /\ cut = FALSE /\ tainted = FALSE /\ events = 0

Step == TaskSel \/ Begin \/ PageStep \/ Finish \/ BootCheck \/ InitDone \/ BusInitErr \/ BootTimeout \/ SaveDue

Request ==
  \/ \E code \in DOMAIN Command : ParaInit(code)
  \/ \E p \in {"o1", "o6"} : Edit(p)
  \/ \E p \in {"user2", "maker2"} : IIcInterfaceA(p)
  \/ \E p \in {"o6"} : IIcInterfaceC(p)
  \/ NetworkReset
  \/ MsgRecord

Next == Step \/ Request \/ BusTimeout \/ PowerLoss

Spec == Init /\ [][Next]_vars

\* the 1 ms interrupt, the bus and the waiting main program go on
LiveSpec == Spec /\ WF_vars(Step)

(***************************************************************************)
(* Properties.                                                             *)
(***************************************************************************)
Values == {"blank", "old", "fac", "full", "new"}

\* The variables stay in their types; no more parameters wait than the queue has room for.
TypeOK ==
  /\ eep \in [Pages -> Values] /\ ram \in [Pages -> Values]
  /\ boot \in {"read", "init", "run"} /\ tries \in 1..3 /\ events \in 0..MaxEvents
  /\ \A b \in {allRead, servoInit, eepFlg, i2cErr, reported, job.begun} : b \in BOOLEAN
  /\ bus \in {"ok", "stuck", "told"}
  /\ need \subseteq ToSet(Priority)
  /\ job.task \in ToSet(Priority) \cup {"Sci", "none"} /\ ToSet(job.left) \subseteq Pages
  /\ panel \in Pages /\ ToSet(queue) \subseteq Pages /\ Len(queue) <= QueueMax
  /\ owed \subseteq Pages /\ resetOwed \subseteq Resets /\ cut \in BOOLEAN /\ tainted \in BOOLEAN

Quiet == boot = "run" /\ need = {} /\ job = Idle /\ queue = <<>> /\ ~eepFlg

\* A save that was accepted reaches the EEPROM: when nothing is under way and no fault of the
\* store is raised, the EEPROM agrees with the live page.  Excepted are the saves the code is
\* known to swallow, taken out of "owed" where they are: ordered again while the same save is
\* being transferred (its end clears the flag), an error recorded during the save of the
\* records, the panel's slot and the queue being full, and a page that a reload or a restore
\* replaced meanwhile.
NoLostSave == Quiet /\ ~reported => \A p \in owed : eep[p] = ram[p]

Restored(p) == eep[p] = "fac" /\ (p # "o6" => ram[p] = "fac")

\* A full reset (ParaInit 0xfffD) restores every area, in the EEPROM and live, whatever is asked
\* for meanwhile.  Excepted are pages written by someone since, and a reset whose ServoInit is
\* cleared by a save of the fault records before the dictionaries' turn ("cut": the code then
\* restores less than the comments at lines 2027 and 2029 of SV_I2c.c say).  The live 0x6000 is
\* not among them: the last write of the chain leaves it the values of the full closed loop.
ResetRestoresAll == Quiet /\ ~reported /\ ~cut => \A p \in resetOwed : Restored(p)

\* A power-up that reports nothing runs on parameters that were all written once, and on none of
\* the user's parameters of another firmware, wherever power failed before.  Excepted is a save
\* of PE and PF with a fault of the store raised: it writes this firmware's version beside what
\* the failed initialisation left.
BootSound ==
  boot = "run" /\ ~reported /\ ~tainted =>
    /\ \A p \in Resets : ram[p] # "blank"
    /\ \A p \in ToSet(User) \cup {"maker"} : ram[p] # "old"

\* With a stuck bus the read of everything waits for ever and with it whatever is asked for; the
\* main program has gone on without the EEPROM and the fault is raised (SysPramErr, PramRecErr).
NeverServed == bus = "told" /\ boot = "run" /\ reported /\ ~eepFlg /\ Running("PURead")

\* Whatever was asked for and whatever failed, the store comes to rest: every power-up ends, no
\* task asks for itself again, and no flag is left that no task clears.  Only a bus stuck since
\* power-up leaves requests behind, for ever, and never without the fault raised.
SavesEnd == <>[](Quiet \/ NeverServed)
===============================================================================
