--------------------------- MODULE ParamStoreProofs ---------------------------
(***************************************************************************)
(* Proofs about ParamStore, for any number of requests, edits, power       *)
(* losses and bus time-outs and every size of the queue: the store stays   *)
(* typed, a power-up that reports nothing runs on sound parameters, an     *)
(* accepted save reaches the EEPROM, a full reset restores every area, and *)
(* the work left to do runs out.                                           *)
(***************************************************************************)
EXTENDS ParamStore, SequenceTheorems, TLAPS

Tasks == {"PURead", "Rd1000", "Rd6000", "FaultRead", "FacWrite", "Reset", "WrFac1000",
          "WrFac6000", "WrFull", "DefWrite", "SaveUser", "SaveMaker", "Wr1000", "Wr6000",
          "FaultSave1", "FaultClr"}
Works == Tasks \cup {"Panel", "Sci", "none"}

\* what may be left of the transfer of task t
Lefts(t) ==
  CASE t \in {"PURead", "FacWrite", "Reset"} ->
         {<<>>, <<"maker2">>, <<"maker", "maker2">>, <<"user2", "maker", "maker2">>, FuncCodes}
    [] t = "SaveMaker" -> {<<>>, <<"maker2">>, <<"maker", "maker2">>}
    [] t \in {"DefWrite", "SaveUser"} -> {<<>>, <<"user2">>, <<"user", "user2">>}
    [] t \in {"Rd1000", "Wr1000", "WrFac1000"} -> {<<>>, <<"o1">>}
    [] t \in {"Rd6000", "Wr6000", "WrFac6000", "Sci"} -> {<<>>, <<"o6">>}
    [] t = "WrFull" -> {<<>>, <<"of">>}
    [] t \in {"FaultRead", "FaultSave1", "FaultClr"} -> {<<>>, <<"rec">>}
    [] t = "Panel" -> {<<>>, <<"user2">>, <<"maker2">>}
    [] t = "none" -> {<<>>}

Jobs == [task : Works, begun : BOOLEAN, left : UNION {Lefts(t) : t \in Works}]

Typed ==
  /\ eep \in [Pages -> Values] /\ ram \in [Pages -> Values]
  /\ boot \in {"read", "init", "run"} /\ tries \in 1..3 /\ events \in 0..MaxEvents
  /\ allRead \in BOOLEAN /\ servoInit \in BOOLEAN /\ eepFlg \in BOOLEAN /\ i2cErr \in BOOLEAN
  /\ reported \in BOOLEAN /\ cut \in BOOLEAN /\ tainted \in BOOLEAN
  /\ bus \in {"ok", "stuck", "told"}
  /\ owed \subseteq Pages /\ resetOwed \subseteq Resets
  /\ job \in Jobs
  /\ need \subseteq Tasks \cup {"Panel"}
  /\ job.left \in Lefts(job.task)
  /\ job.left # <<>> => job.begun
  /\ job.task = "none" => ~job.begun
  /\ job.task = "Sci" /\ ~job.begun => queue # <<>>
  /\ panel \in {"user2", "maker2"} /\ queue \in Seq({"o6"}) /\ Len(queue) <= QueueMax
  /\ i2cErr => reported

USE BoundsOK

(* -- The pages of the tasks ---------------------------------------------- *)

LEMMA PagesOfLists ==
  /\ ToSet(User) = {"user", "user2"} /\ ToSet(Maker) = {"maker", "maker2"}
  /\ ToSet(FuncCodes) = {"user", "user2", "maker", "maker2"}
  /\ ToSet(<<"o1">>) = {"o1"} /\ ToSet(<<"o6">>) = {"o6"}
  /\ ToSet(<<"of">>) = {"of"} /\ ToSet(<<"rec">>) = {"rec"}
  /\ ToSet(<<>>) = {}
BY DEF ToSet, User, Maker, FuncCodes

LEMMA AllPages ==
  /\ Resets = {"user", "user2", "maker", "maker2", "o1", "o6"}
  /\ Pages = {"user", "user2", "maker", "maker2", "o1", "o6", "of", "rec"}
BY PagesOfLists DEF Resets, Pages

LEMMA AllTasks ==
  /\ DOMAIN Transfer = Tasks
  /\ ToSet(Priority) = Tasks \cup {"Panel"}
  /\ "Sci" \notin Tasks /\ "Panel" \notin Tasks /\ "none" \notin Tasks
BY DEF Transfer, Priority, ToSet, Tasks

\* The transfer of a task starts with its pages.
LEMMA Transfers == \A t \in Tasks : Transfer[t] \in Lefts(t) /\ ToSet(Transfer[t]) \subseteq Pages
<1>1. User = <<"user", "user2">> /\ Maker = <<"maker", "maker2">>
  BY DEF User, Maker
<1> QED BY <1>1, PagesOfLists, AllPages DEF Transfer, Tasks, Lefts

\* One page less is left.
LEMMA Pop ==
  ASSUME NEW t \in Works, NEW s \in Lefts(t), s # <<>>
  PROVE /\ Head(s) \in Pages /\ Tail(s) \in Lefts(t)
<1>. DEFINE a == "user" b == "user2" c == "maker" d == "maker2"
<1>1. /\ Head(FuncCodes) = a /\ Tail(FuncCodes) = <<b, c, d>>
      /\ Head(<<b, c, d>>) = b /\ Tail(<<b, c, d>>) = <<c, d>>
      /\ Head(<<c, d>>) = c /\ Tail(<<c, d>>) = <<d>>
      /\ Head(<<a, b>>) = a /\ Tail(<<a, b>>) = <<b>>
  BY DEF FuncCodes
<1>2. \A p : Head(<<p>>) = p /\ Tail(<<p>>) = <<>>
  OBVIOUS
<1>3. s \in {FuncCodes, <<b, c, d>>, <<c, d>>, <<a, b>>} \cup {<<p>> : p \in Pages}
  BY AllPages DEF Lefts, Works, Tasks
<1>4. Head(s) \in Pages
  BY <1>1, <1>2, <1>3, AllPages
<1>5. Tail(s) \in Lefts(t)
  BY <1>1, <1>2, <1>3 DEF Lefts, Works, Tasks
<1> QED BY <1>4, <1>5

LEMMA LeftPages == ASSUME NEW t \in Works PROVE \A s \in Lefts(t) : ToSet(s) \subseteq Pages
<1>. DEFINE a == "user" b == "user2" c == "maker" d == "maker2"
<1>1. /\ ToSet(<<b, c, d>>) = {b, c, d} /\ ToSet(<<c, d>>) = {c, d}
      /\ ToSet(<<a, b>>) = {a, b} /\ ToSet(FuncCodes) = {a, b, c, d} /\ ToSet(<<>>) = {}
  BY DEF ToSet, FuncCodes
<1>2. \A p : ToSet(<<p>>) = {p}
  BY DEF ToSet
<1>3. \A s \in Lefts(t) : s \in {<<>>, FuncCodes, <<b, c, d>>, <<c, d>>, <<a, b>>} \cup {<<p>> : p \in Pages}
  BY AllPages DEF Lefts, Works, Tasks
<1> QED BY <1>1, <1>2, <1>3, AllPages
(* -- Typing ---------------------------------------------------------------- *)

LEMMA QueueOfOne ==
  ASSUME NEW q \in Seq({"o6"}), q # <<>>
  PROVE Head(q) = "o6" /\ Tail(q) \in Seq({"o6"}) /\ Len(Tail(q)) = Len(q) - 1
BY HeadTailProperties

LEMMA QueuePages == \A q \in Seq({"o6"}) : ToSet(q) \subseteq {"o6"}
BY DEF ToSet

LEMMA TypedIsTypeOK == Typed => TypeOK
<1>. SUFFICES ASSUME Typed PROVE TypeOK
  OBVIOUS
<1>1. job.task \in Works /\ job.begun \in BOOLEAN /\ ToSet(job.left) \subseteq Pages
  BY LeftPages DEF Typed, Jobs
<1>2. ToSet(queue) \subseteq Pages /\ panel \in Pages
  BY QueuePages, AllPages DEF Typed
<1>3. \A b \in {allRead, servoInit, eepFlg, i2cErr, reported, job.begun} : b \in BOOLEAN
  BY <1>1 DEF Typed
<1> QED BY <1>1, <1>2, <1>3, AllTasks DEF Typed, TypeOK, Works

LEMMA InitTyped == Init => Typed
<1>1. Factory(Blank) \in [Pages -> Values] /\ Blank \in [Pages -> Values]
  BY DEF Factory, Blank, Values
<1>2. ToSet(Idle.left) = {} /\ Idle \in Jobs /\ Idle.left \in Lefts(Idle.task)
  BY PagesOfLists DEF Idle, Jobs, Works, Lefts
<1>3. <<>> \in Seq({"o6"}) /\ Len(<<>>) = 0 /\ ToSet(<<>>) = {}
  BY PagesOfLists
<1>4. \A v \in Values : [p \in Pages |-> v] \in [Pages -> Values]
  OBVIOUS
<1>5. Init => eep \in [Pages -> Values] /\ ram \in [Pages -> Values]
  BY <1>1, <1>4 DEF Init, Values
<1>6. Init => job = Idle /\ job.left = <<>> /\ job.task = "none" /\ ~job.begun
  BY DEF Init, Idle
<1>7. Init => /\ tries \in 1..3 /\ events \in 0..MaxEvents /\ need \subseteq Tasks
              /\ queue = <<>> /\ queue \in Seq({"o6"}) /\ Len(queue) <= QueueMax
  BY <1>3 DEF Init, Tasks
<1>8. Init => /\ boot \in {"read", "init", "run"} /\ panel \in {"user2", "maker2"}
              /\ owed \subseteq Pages /\ resetOwed \subseteq Resets
              /\ allRead \in BOOLEAN /\ servoInit \in BOOLEAN /\ eepFlg \in BOOLEAN /\ i2cErr \in BOOLEAN
              /\ reported \in BOOLEAN /\ cut \in BOOLEAN /\ tainted \in BOOLEAN /\ ~i2cErr
              /\ bus \in {"ok", "stuck", "told"}
  BY DEF Init
<1> QED
  BY <1>2, <1>5, <1>6, <1>7, <1>8 DEF Typed

\* Whatever runs next was asked for.
LEMMA Selected ==
  ASSUME TaskSel
  PROVE /\ need' \subseteq need
        /\ \/ \E t \in need : job' = Taken(t) /\ need \ {t} \subseteq need'
           \/ job' = Taken("Sci") /\ need = {} /\ queue # <<>>
        /\ job = Idle
BY DEF TaskSel, Taken

LEMMA TaskSelTyped == Typed /\ TaskSel => Typed'
<1>. SUFFICES ASSUME Typed, TaskSel PROVE Typed'
  OBVIOUS
<1>1. \A t \in Tasks \cup {"Panel", "Sci"} :
        Taken(t) \in Jobs /\ Taken(t).left = <<>> /\ <<>> \in Lefts(t)
  BY DEF Taken, Jobs, Works, Lefts, Tasks
<1>2. job' \in Jobs /\ job'.left = <<>> /\ job'.left \in Lefts(job'.task) /\ ~job'.begun
      /\ (job'.task = "Sci" => queue # <<>>) /\ job'.task # "none"
  BY <1>1, Selected, AllTasks DEF Typed, Taken
<1>3. need' \subseteq Tasks \cup {"Panel"}
  BY Selected DEF Typed
<1> QED
  BY <1>2, <1>3, PagesOfLists, AllTasks
  DEF TaskSel, Typed, store, main, pending, flags, ghosts, Jobs, Works

LEMMA BeginTyped == Typed /\ Begin => Typed'
<1>. SUFFICES ASSUME Typed, Begin PROVE Typed'
  OBVIOUS
<1>. DEFINE t == job.task
            left == CASE t = "Sci" -> <<Head(queue)>> [] t = "Panel" -> <<panel>> [] OTHER -> Transfer[t]
<1>1. t \in Works /\ t # "none" /\ ~job.begun /\ job' = [job EXCEPT !.begun = TRUE, !.left = left]
  BY DEF Begin, Typed, Jobs
<1>2. left \in Lefts(t)
  BY <1>1, Transfers, QueueOfOne, AllTasks DEF Typed, Lefts, Works, Tasks
<1>3. job' \in Jobs /\ job'.left \in Lefts(job'.task) /\ job'.begun /\ job'.task = t
  BY <1>1, <1>2 DEF Typed, Jobs
<1>5. queue' \in Seq({"o6"}) /\ Len(queue') <= QueueMax
  BY <1>1, QueueOfOne DEF Begin, Typed
<1>6. ram' \in [Pages -> Values]
  BY DEF Begin, Typed, Values
<1>7. owed' \subseteq Pages
  BY DEF Begin, Typed
<1>8. /\ eep' \in [Pages -> Values]
      /\ boot' \in {"read", "init", "run"} /\ tries' \in 1..3 /\ events' \in 0..MaxEvents
      /\ allRead' \in BOOLEAN /\ servoInit' \in BOOLEAN /\ eepFlg' \in BOOLEAN /\ i2cErr' \in BOOLEAN
      /\ reported' \in BOOLEAN /\ cut' \in BOOLEAN /\ tainted' \in BOOLEAN
      /\ bus' \in {"ok", "stuck", "told"}
      /\ resetOwed' \subseteq Resets /\ need' \subseteq Tasks \cup {"Panel"}
      /\ panel' \in {"user2", "maker2"} /\ (i2cErr' => reported')
  BY DEF Begin, Typed, main, flags
<1> QED
  BY <1>1, <1>3, <1>5, <1>6, <1>7, <1>8 DEF Typed

LEMMA PageStepTyped == Typed /\ PageStep => Typed'
<1>. SUFFICES ASSUME Typed, PageStep PROVE Typed'
  OBVIOUS
<1>1. job.task \in Works /\ job.left \in Lefts(job.task) /\ job.left # <<>>
  BY DEF PageStep, Typed, Jobs
<1>2. Head(job.left) \in Pages /\ Tail(job.left) \in Lefts(job.task)
  BY <1>1, Pop
<1>3. job.begun /\ job \in Jobs /\ job' = [job EXCEPT !.left = Tail(job.left)]
  BY <1>1 DEF PageStep, Typed
<1>4. Tail(job.left) \in UNION {Lefts(t) : t \in Works}
  BY <1>1, <1>2
<1>5. job' \in Jobs /\ job'.left \in Lefts(job'.task) /\ job'.task = job.task /\ job'.begun
  BY <1>1, <1>2, <1>3, <1>4 DEF Jobs
<1>6. eep' \in [Pages -> Values] /\ ram' \in [Pages -> Values]
  BY <1>2, AllPages DEF PageStep, Typed, Values
<1>7. UNCHANGED <<main, need, pending, flags, ghosts, events>>
  BY DEF PageStep
<1> QED
  BY <1>1, <1>5, <1>6, <1>7 DEF Typed, main, pending, flags, ghosts

LEMMA FinishTyped == Typed /\ Finish => Typed'
<1>. SUFFICES ASSUME Typed, Finish PROVE Typed'
  OBVIOUS
<1>1. job' \in Jobs /\ job'.left = <<>> /\ job'.left \in Lefts(job'.task) /\ ~job'.begun
      /\ job'.task = "none"
  BY DEF Finish, Idle, Jobs, Works, Lefts
<1>2. need' \subseteq Tasks \cup {"Panel"}
  BY AllTasks DEF Finish, After, Typed
<1>3. ram' \in [Pages -> Values]
  BY DEF Finish, Typed, Values
<1>4. allRead' \in BOOLEAN /\ eepFlg' \in BOOLEAN /\ servoInit' \in BOOLEAN /\ cut' \in BOOLEAN
  BY DEF Finish, Typed
<1> QED
  BY <1>1, <1>2, <1>3, <1>4, PagesOfLists, AllTasks DEF Finish, Typed, pending

LEMMA FactoryTyped == \A v \in [Pages -> Values] : Factory(v) \in [Pages -> Values]
BY DEF Factory, Values

LEMMA ReportTyped ==
  ASSUME NEW v \in [Pages -> Values], Report(v)
  PROVE reported' = TRUE /\ eepFlg' = TRUE /\ ram' \in [Pages -> Values]
BY AllPages DEF Report, Values

LEMMA PowerUpTyped ==
  ASSUME Typed, PowerUpCheck
  PROVE /\ boot' = "run" /\ ram' \in [Pages -> Values]
        /\ {eepFlg', i2cErr', reported'} \subseteq BOOLEAN /\ (i2cErr' => reported')
BY ReportTyped DEF PowerUpCheck, Typed

LEMMA BootCheckTyped == Typed /\ BootCheck => Typed'
<1>. SUFFICES ASSUME Typed, BootCheck PROVE Typed'
  OBVIOUS
<1>1. ram' \in [Pages -> Values] /\ boot' \in {"read", "init", "run"} /\ tries' \in 1..3
      /\ {allRead', servoInit', eepFlg', i2cErr', reported'} \subseteq BOOLEAN
      /\ (i2cErr' => reported') /\ need' \subseteq Tasks \cup {"Panel"}
  <2>1. CASE EmptyRead /\ tries < 3 /\ tries' = tries + 1 /\ allRead' = TRUE
             /\ need' = need \cup {"PURead"}
             /\ UNCHANGED <<ram, boot, servoInit, eepFlg, i2cErr, reported>>
    BY <2>1 DEF Typed, Tasks
  <2>2. CASE StartInit /\ UNCHANGED <<tries, allRead, eepFlg, i2cErr, reported>>
    BY <2>2, FactoryTyped DEF StartInit, Typed, Tasks
  <2>3. CASE PowerUpCheck /\ UNCHANGED <<tries, allRead, servoInit, need>>
    BY <2>3, PowerUpTyped DEF Typed
  <2> QED BY <2>1, <2>2, <2>3 DEF BootCheck
<1> QED BY <1>1, AllTasks DEF BootCheck, Typed, pending, ghosts

LEMMA InitDoneTyped == Typed /\ InitDone => Typed'
<1>. SUFFICES ASSUME Typed, InitDone PROVE Typed'
  OBVIOUS
<1>1. /\ boot' = "run" /\ ram' \in [Pages -> Values]
      /\ {eepFlg', i2cErr', reported'} \subseteq BOOLEAN /\ (i2cErr' => reported')
  BY PowerUpTyped DEF InitDone
<1> QED BY <1>1 DEF InitDone, Typed, tasks, pending, ghosts

LEMMA BootTimeoutTyped == Typed /\ BootTimeout => Typed'
<1>. SUFFICES ASSUME Typed, BootTimeout PROVE Typed'
  OBVIOUS
<1>1. ram' \in [Pages -> Values] /\ reported' = TRUE /\ eepFlg' = TRUE /\ boot' = "run"
  BY FactoryTyped, ReportTyped DEF BootTimeout, Typed
<1> QED BY <1>1 DEF BootTimeout, Typed, tasks, pending, ghosts

LEMMA BusInitErrTyped == Typed /\ BusInitErr => Typed'
<1>. SUFFICES ASSUME Typed, BusInitErr PROVE Typed'
  OBVIOUS
<1>1. ram' \in [Pages -> Values] /\ reported' = TRUE /\ eepFlg' = TRUE
  BY ReportTyped DEF BusInitErr, Typed
<1> QED BY <1>1 DEF BusInitErr, Typed, tasks, pending, ghosts

LEMMA SaveDueTyped == Typed /\ SaveDue => Typed'
<1>. SUFFICES ASSUME Typed, SaveDue PROVE Typed'
  OBVIOUS
<1>1. need' \subseteq Tasks \cup {"Panel"} /\ eepFlg' \in BOOLEAN
  BY DEF SaveDue, Typed, Tasks
<1>2. UNCHANGED <<store, main, job, pending, servoInit, i2cErr, reported, bus, ghosts, events>>
  BY DEF SaveDue
<1> QED BY <1>1, <1>2 DEF Typed, store, main, pending, ghosts

LEMMA Commands == \A code \in DOMAIN Command : Command[code] \subseteq Tasks
BY DEF Command, Tasks

LEMMA ParaInitTyped == ASSUME NEW code \in DOMAIN Command PROVE Typed /\ ParaInit(code) => Typed'
<1>. SUFFICES ASSUME Typed, ParaInit(code) PROVE Typed'
  OBVIOUS
<1>1. need' \subseteq Tasks \cup {"Panel"}
  BY Commands DEF ParaInit, IIcFun, Typed
<1>2. owed' \subseteq Pages
  BY Commands, Transfers DEF ParaInit, Typed
<1>3. resetOwed' \subseteq Resets
  BY DEF ParaInit, Typed
<1>4. servoInit' \in BOOLEAN /\ cut' \in BOOLEAN /\ tainted' \in BOOLEAN
  BY DEF ParaInit, Typed
<1>5. events' \in 0..MaxEvents
  BY DEF ParaInit, Event, Typed
<1>6. UNCHANGED <<eep, ram, boot, tries, allRead, job, panel, queue, eepFlg, i2cErr, reported, bus>>
  BY DEF ParaInit, store, main, pending
<1> QED BY <1>1, <1>2, <1>3, <1>4, <1>5, <1>6 DEF Typed

LEMMA EditTyped == ASSUME NEW p \in {"o1", "o6"} PROVE Typed /\ Edit(p) => Typed'
<1>1. p \in Pages
  BY AllPages
<1> QED BY <1>1 DEF Edit, Event, Typed, Values, main, tasks, pending, flags

LEMMA IIcInterfaceATyped ==
  ASSUME NEW p \in {"user2", "maker2"} PROVE Typed /\ IIcInterfaceA(p) => Typed'
<1>1. p \in Pages
  BY AllPages
<1> QED BY <1>1 DEF IIcInterfaceA, Event, Typed, Values, main, flags

LEMMA IIcInterfaceCTyped ==
  ASSUME NEW p \in {"o6"} PROVE Typed /\ IIcInterfaceC(p) => Typed'
<1>. SUFFICES ASSUME Typed, IIcInterfaceC(p) PROVE Typed'
  OBVIOUS
<1>1. p \in Pages
  BY AllPages
<1>2. queue' \in Seq({"o6"}) /\ Len(queue') <= QueueMax /\ (queue # <<>> => queue' # <<>>)
  <2>1. CASE QueueFull
    BY <2>1 DEF IIcInterfaceC, Typed
  <2>2. CASE ~QueueFull
    <3>1. queue' = Append(queue, p)
      BY <2>2 DEF IIcInterfaceC
    <3>2. Append(queue, p) \in Seq({"o6"}) /\ Len(Append(queue, p)) = Len(queue) + 1
          /\ Append(queue, p) # <<>>
      BY AppendProperties DEF Typed
    <3> QED BY <2>2, <3>1, <3>2 DEF Typed, QueueFull
  <2> QED BY <2>1, <2>2
<1>3. owed' \subseteq Pages /\ resetOwed' \subseteq Resets
  BY <1>1 DEF IIcInterfaceC, Typed
<1>4. "new" \in Values /\ ram' = [ram EXCEPT ![p] = "new"]
  BY DEF IIcInterfaceC, Values
<1>5. ram' \in [Pages -> Values]
  BY <1>4 DEF Typed
<1>6. events' \in 0..MaxEvents
  BY DEF IIcInterfaceC, Event, Typed
<1>7. UNCHANGED <<eep, main, tasks, panel, flags, cut, tainted>>
  BY DEF IIcInterfaceC
<1> QED BY <1>2, <1>6, <1>7, <1>3, <1>5 DEF Typed, main, tasks, flags

LEMMA NetworkResetTyped == Typed /\ NetworkReset => Typed'
BY DEF NetworkReset, Event, Typed, Tasks, store, main, pending, flags, ghosts

LEMMA MsgRecordTyped == Typed /\ MsgRecord => Typed'
<1>1. "rec" \in Pages
  BY AllPages
<1> QED BY <1>1 DEF MsgRecord, Event, Typed, Values, main, tasks, pending

LEMMA BusTimeoutTyped == Typed /\ BusTimeout => Typed'
<1>. SUFFICES ASSUME Typed, BusTimeout PROVE Typed'
  OBVIOUS
<1>1. job.task \in Works /\ job.begun /\ job' = [job EXCEPT !.left = <<>>]
  BY DEF BusTimeout, Typed, Jobs
<1>2. <<>> \in Lefts(job.task)
  BY <1>1 DEF Lefts, Works, Tasks
<1>3. job' \in Jobs /\ job'.left \in Lefts(job'.task) /\ job'.left = <<>> /\ job'.task = job.task
      /\ job'.begun
  BY <1>1, <1>2 DEF Typed, Jobs
<1>4. ram' \in [Pages -> Values] /\ reported' = TRUE /\ eepFlg' = TRUE
  BY ReportTyped DEF BusTimeout, Typed
<1> QED BY <1>1, <1>3, <1>4 DEF BusTimeout, Event, Typed, main, pending, ghosts

LEMMA PowerLossTyped == Typed /\ PowerLoss => Typed'
<1>. SUFFICES ASSUME Typed, PowerLoss PROVE Typed'
  OBVIOUS
<1>1. ram' \in [Pages -> Values]
  BY DEF PowerLoss, Factory, Blank, Values
<1>2. job' \in Jobs /\ job'.left = <<>> /\ job'.left \in Lefts(job'.task) /\ ~job'.begun
      /\ job'.task = "none"
  BY DEF PowerLoss, Idle, Jobs, Works, Lefts
<1>3. queue' \in Seq({"o6"}) /\ Len(queue') <= QueueMax
  BY DEF PowerLoss
<1>4. need' \subseteq Tasks /\ events' \in 0..MaxEvents /\ tries' \in 1..3
      /\ owed' \subseteq Pages /\ resetOwed' \subseteq Resets /\ UNCHANGED <<eep, tainted>>
  BY DEF PowerLoss, Event, Typed, Tasks
<1>5. /\ boot' \in {"read", "init", "run"} /\ panel' \in {"user2", "maker2"}
      /\ allRead' \in BOOLEAN /\ servoInit' \in BOOLEAN /\ eepFlg' \in BOOLEAN
      /\ i2cErr' = FALSE /\ reported' \in BOOLEAN /\ cut' \in BOOLEAN
      /\ bus' \in {"ok", "stuck", "told"}
  BY DEF PowerLoss
<1> QED BY <1>1, <1>2, <1>3, <1>4, <1>5 DEF Typed

LEMMA TypedStep == Typed /\ [Next]_vars => Typed'
<1>1. Typed /\ Step => Typed'
  BY TaskSelTyped, BeginTyped, PageStepTyped, FinishTyped, BootCheckTyped, InitDoneTyped,
     BusInitErrTyped, BootTimeoutTyped, SaveDueTyped
  DEF Step
<1>2. Typed /\ Request => Typed'
  BY ParaInitTyped, EditTyped, IIcInterfaceATyped, IIcInterfaceCTyped, NetworkResetTyped,
     MsgRecordTyped
  DEF Request
<1>3. Typed /\ UNCHANGED vars => Typed'
  BY DEF Typed, vars, store, main, tasks, pending, flags, ghosts
<1> QED BY <1>1, <1>2, <1>3, BusTimeoutTyped, PowerLossTyped DEF Next

\* The store stays typed, and its queue within its room, for every size and any number of events.
THEOREM TypeCorrect == Spec => []TypeOK
<1>1. Init => Typed
  BY InitTyped
<1>2. Typed /\ [Next]_vars => Typed'
  BY TypedStep
<1> QED BY <1>1, <1>2, TypedIsTypeOK, PTL DEF Spec

(* -- Power-up ------------------------------------------------------------- *)

Good(v)      == v \notin {"blank", "old"}
UsersGood(s) == Good(s["user"]) /\ Good(s["user2"])
Pending(t)   == t \in need \/ job.task = t

\* The version is written after the user's parameters: where it is, they are.
Version == ~tainted /\ Good(eep["maker"]) => UsersGood(eep) /\ UsersGood(ram)

\* All function codes are being written over: by the turn of the version the user's are there.
Rewriting ==
  job.task \in {"FacWrite", "Reset"} /\ job.begun =>
    /\ UsersGood(ram) /\ Good(ram["maker"])
    /\ job.left = <<"user2", "maker", "maker2">> => Good(eep["user"])
    /\ job.left = <<"maker", "maker2">> => UsersGood(eep)

\* A save of PE and PF alone replaces one version of this firmware by another.
MakerSaved ==
  ~tainted /\ Pending("SaveMaker") =>
    ~Pending("PURead") /\ boot = "run" /\ Good(eep["maker"]) /\ Good(ram["maker"])

\* Running without a report, on what the EEPROM also has.
Sane ==
  boot = "run" /\ ~reported /\ ~tainted =>
    /\ ~Pending("PURead") /\ Good(eep["maker"]) /\ Good(ram["maker"])
    /\ ram["maker2"] # "blank"
    /\ ram["o1"] # "blank" /\ eep["o1"] # "blank" /\ ram["o6"] # "blank" /\ eep["o6"] # "blank"

\* There is nothing else to do than t, or nothing at all.
Only(t) == need \subseteq {t} /\ job.task \in {t, "none"} /\ (job.task = "none" => need = {t})
None    == need = {} /\ job.task = "none"
Over    == job.begun /\ job.left = <<>>
Same(p) == ram[p] = eep[p]

\* The chain of reads, as long as nothing failed: what was read agrees with the EEPROM.
Reading ==
  boot = "read" /\ ~reported =>
    /\ ~eepFlg /\ queue = <<>>
    /\ \/ Only("PURead") /\ allRead
          /\ (job.begun /\ job.left \in {<<>>, <<"maker2">>} => Same("maker"))
       \/ Only("Rd1000") /\ allRead /\ Same("maker") /\ (Over => Same("o1"))
       \/ Only("Rd6000") /\ allRead /\ Same("maker") /\ Same("o1") /\ (Over => Same("o6"))
       \/ (IF allRead THEN Only("FaultRead") ELSE None) /\ Same("maker") /\ Same("o1") /\ Same("o6")

\* The chain of writes, as long as nothing failed: the version first, then the dictionaries.
Initialising ==
  boot = "init" /\ ~reported =>
    /\ ~eepFlg /\ queue = <<>>
    /\ Good(ram["maker"]) /\ Good(ram["maker2"]) /\ Good(ram["o1"]) /\ Good(ram["o6"])
    /\ \/ servoInit /\ Only("FacWrite")
          /\ (job.begun /\ job.left \in {<<>>, <<"maker2">>} => Good(eep["maker"]))
       \/ servoInit /\ Only("WrFac1000") /\ Good(eep["maker"]) /\ (Over => Good(eep["o1"]))
       \/ servoInit /\ Only("WrFac6000") /\ Good(eep["maker"]) /\ Good(eep["o1"])
          /\ (Over => Good(eep["o6"]))
       \/ (IF servoInit THEN Only("WrFull") \/ Only("FaultSave1") ELSE None)
          /\ Good(eep["maker"]) /\ Good(eep["o1"]) /\ Good(eep["o6"])

IInv == Typed /\ Version /\ Rewriting /\ MakerSaved /\ Sane /\ Reading /\ Initialising

LEMMA IInvIsSound == IInv => BootSound
<1>. SUFFICES ASSUME IInv, boot = "run", ~reported, ~tainted
              PROVE /\ \A p \in Resets : ram[p] # "blank"
                    /\ \A p \in ToSet(User) \cup {"maker"} : ram[p] # "old"
  BY DEF BootSound
<1>1. Good(ram["maker"]) /\ UsersGood(ram) /\ ram["maker2"] # "blank" /\ ram["o1"] # "blank" /\ ram["o6"] # "blank"
  BY DEF IInv, Sane, Version
<1> QED BY <1>1, AllPages, PagesOfLists DEF Good, UsersGood

LEMMA InitIInv == Init => IInv
<1>. SUFFICES ASSUME Init PROVE IInv
  OBVIOUS
<1>1. \A p \in Pages : Factory(Blank)[p] # "old" /\ (p # "of" => Factory(Blank)[p] = "fac")
  BY DEF Factory, Blank
<1>2. UsersGood(ram)
  BY <1>1, AllPages DEF Init, Good, UsersGood
<1>3. Good(eep["maker"]) => UsersGood(eep)
  BY AllPages DEF Init, Blank, Good, UsersGood
<1>4. job.task = "none" /\ ~job.begun /\ need = {"PURead"} /\ boot = "read" /\ allRead /\ ~eepFlg /\ queue = <<>>
  BY DEF Init, Idle
<1>5. Version /\ Rewriting /\ MakerSaved /\ Sane
  BY <1>2, <1>3, <1>4 DEF Version, Rewriting, MakerSaved, Sane, Pending
<1>6. Reading /\ Initialising
  BY <1>4 DEF Reading, Initialising, Only
<1> QED BY <1>5, <1>6, InitTyped DEF IInv

LEMMA TaskSelIInv == IInv /\ TaskSel => IInv'
<1>. SUFFICES ASSUME IInv, TaskSel PROVE IInv'
  OBVIOUS
<1>1. Typed'
  BY TaskSelTyped DEF IInv
<1>2. /\ UNCHANGED <<eep, ram, boot, allRead, queue, servoInit, eepFlg, reported, tainted>>
      /\ ~job'.begun /\ job.task = "none" /\ need' \subseteq need /\ job'.task # "none"
      /\ (job'.task \in need \/ (job'.task = "Sci" /\ need = {} /\ queue # <<>>))
  BY Selected, AllTasks
  DEF TaskSel, Taken, Idle, store, main, pending, flags, ghosts, IInv, Typed
<1>3. \A t : t # "Sci" /\ Pending(t)' => Pending(t)
  BY <1>2 DEF Pending
<1>4. Version' /\ Rewriting'
  BY <1>2 DEF IInv, Version, Rewriting, UsersGood
<1>5. MakerSaved' /\ Sane'
  BY <1>2, <1>3 DEF IInv, MakerSaved, Sane
<1>6. \A t : Only(t) /\ need # {} => Only(t)'
  BY <1>2 DEF Only
<1>7. (\E t : Only(t)) => need # {}
  BY <1>2 DEF Only
<1>8. Reading'
  <2>. SUFFICES ASSUME boot' = "read", ~reported' PROVE Reading'
    BY DEF Reading
  <2>1. queue = <<>> /\ ~None
    BY <1>2 DEF IInv, Reading, None
  <2> QED BY <1>2, <1>6, <1>7, <2>1 DEF IInv, Reading, Same, Over
<1>9. Initialising'
  <2>. SUFFICES ASSUME boot' = "init", ~reported' PROVE Initialising'
    BY DEF Initialising
  <2>1. queue = <<>> /\ ~None
    BY <1>2 DEF IInv, Initialising, None
  <2> QED BY <1>2, <1>6, <1>7, <2>1 DEF IInv, Initialising, Over
<1> QED BY <1>1, <1>4, <1>5, <1>8, <1>9 DEF IInv

\* The pages are loaded with factory values, or kept.
LEMMA BeginIInv == IInv /\ Begin => IInv'
<1>. SUFFICES ASSUME IInv, Begin PROVE IInv'
  OBVIOUS
<1>. DEFINE t == job.task
<1>1. Typed'
  BY BeginTyped DEF IInv
<1>2. /\ UNCHANGED <<eep, boot, allRead, need, servoInit, eepFlg, reported, tainted>>
      /\ t \in Works /\ t # "none" /\ ~job.begun /\ job'.task = t /\ job'.begun
      /\ (t \in Tasks => job'.left = Transfer[t])
      /\ (queue = <<>> => queue' = <<>>)
  BY AllTasks DEF Begin, main, flags, IInv, Typed, Jobs
<1>3. \A p \in Pages : ram'[p] = ram[p] \/ Good(ram'[p])
  BY DEF Begin, Good, IInv, Typed
<1>4. t \in Reads => ram' = ram
  <2>1. t \in Reads => Restores[t] = {} /\ t # "WrFull"
    BY AllTasks DEF Restores, Reads, Tasks
  <2> QED BY <2>1, AllTasks DEF Begin, IInv, Typed
<1>5. t \in {"FacWrite", "Reset"} =>
        UsersGood(ram') /\ Good(ram'["maker"]) /\ job'.left = FuncCodes
  <2>1. t \in {"FacWrite", "Reset"} =>
          /\ t \in Tasks /\ Restores[t] = ToSet(FuncCodes) /\ Transfer[t] = FuncCodes
    BY AllTasks DEF Restores, Transfer, Tasks
  <2> QED BY <1>2, <2>1, AllTasks, AllPages, PagesOfLists DEF Begin, Good, UsersGood
<1>6. FuncCodes \notin {<<>>, <<"maker2">>, <<"maker", "maker2">>, <<"user2", "maker", "maker2">>}
  BY DEF FuncCodes
<1>7. \A u : Pending(u)' <=> Pending(u)
  BY <1>2 DEF Pending
<1>8. UsersGood(ram) => UsersGood(ram')
  BY <1>3, AllPages DEF UsersGood, Good
<1>9. Version' /\ Rewriting'
  BY <1>2, <1>5, <1>6, <1>8 DEF IInv, Version, Rewriting
<1>10. \A p \in Pages : (Good(ram[p]) => Good(ram'[p])) /\ (ram[p] # "blank" => ram'[p] # "blank")
  BY <1>3 DEF Good
<1>11. MakerSaved' /\ Sane'
  BY <1>2, <1>7, <1>10, AllPages DEF IInv, MakerSaved, Sane
<1>12. \A u : Only(u) => Only(u)' /\ t = u
  BY <1>2 DEF Only
<1>13. ~None
  BY <1>2 DEF None
<1>14. /\ Transfer["PURead"] = FuncCodes /\ Transfer["FacWrite"] = FuncCodes
       /\ \A u \in {"Rd1000", "Rd6000", "WrFac1000", "WrFac6000"} : Transfer[u] # <<>>
  BY DEF Transfer
<1>15. Reading'
  <2>. SUFFICES ASSUME boot' = "read", ~reported' PROVE Reading'
    BY DEF Reading
  <2>1. t \in Reads
    BY <1>2, <1>12, <1>13 DEF IInv, Reading, Reads
  <2> QED BY <1>2, <1>4, <1>6, <1>12, <1>13, <1>14, <2>1 DEF IInv, Reading, Same, Over, Reads, Tasks
<1>16. Initialising'
  <2>. SUFFICES ASSUME boot' = "init", ~reported' PROVE Initialising'
    BY DEF Initialising
  <2> QED BY <1>2, <1>6, <1>10, <1>12, <1>13, <1>14, AllPages DEF IInv, Initialising, Over, Tasks
<1> QED BY <1>1, <1>9, <1>11, <1>15, <1>16 DEF IInv

LEMMA FinishIInv == IInv /\ Finish => IInv'
<1>. SUFFICES ASSUME IInv, Finish PROVE IInv'
  OBVIOUS
<1>. DEFINE t == job.task
<1>1. Typed'
  BY FinishTyped DEF IInv
<1>2. /\ UNCHANGED <<eep, boot, queue, reported, tainted>>
      /\ t # "none" /\ Over /\ job'.task = "none" /\ ~job'.begun
      /\ need' = (need \ ClearedAtEnd(t)) \cup After(t)
      /\ allRead' = (allRead /\ t # "FaultRead")
      /\ (eepFlg' => eepFlg) /\ servoInit' = (servoInit /\ t # "FaultSave1")
  BY DEF Finish, Idle, pending, Over, IInv, Typed
<1>3. \A p \in Pages : ram'[p] = ram[p] \/ (p = "o1" /\ Good(ram'[p]))
  BY AllPages DEF Finish, Good, IInv, Typed
<1>4. t # "WrFac1000" => ram' = ram
  BY DEF Finish, IInv, Typed
<1>5. After(t) \cap {"PURead", "SaveMaker"} = {}
  BY DEF After, ReadChain, InitChain
<1>6. \A u \in {"PURead", "SaveMaker"} : Pending(u)' => Pending(u)
  BY <1>2, <1>5 DEF Pending
<1>7. Version' /\ Rewriting' /\ MakerSaved' /\ Sane'
  BY <1>2, <1>3, <1>6, AllPages DEF IInv, Version, Rewriting, MakerSaved, Sane, UsersGood, Good
<1>8. \A u \in Tasks : Only(u) => t = u /\ need' = After(t)
  BY <1>2, AllTasks DEF Only, ClearedAtEnd, Tasks
<1>9. ~None
  BY <1>2 DEF None
<1>10. Reading'
  <2>. SUFFICES ASSUME boot' = "read", ~reported' PROVE Reading'
    BY DEF Reading
  <2>1. boot = "read" /\ ~reported /\ ~i2cErr /\ ~eepFlg' /\ queue' = <<>>
    BY <1>2 DEF IInv, Reading, Typed
  <2>2. /\ After("PURead") = {"Rd1000"} /\ After("Rd1000") = {"Rd6000"}
        /\ After("Rd6000") = {"FaultRead"} /\ After("FaultRead") = {}
    BY <2>1, AllTasks DEF After, ReadChain, InitChain, Tasks
  <2> QED BY <1>2, <1>4, <1>8, <1>9, <2>1, <2>2 DEF IInv, Reading, Only, None, Same, Over, Tasks
<1>11. Initialising'
  <2>. SUFFICES ASSUME boot' = "init", ~reported' PROVE Initialising'
    BY DEF Initialising
  <2>1. boot = "init" /\ ~reported /\ ~eepFlg' /\ queue' = <<>>
    BY <1>2 DEF IInv, Initialising
  <2>2. servoInit
    BY <1>2, <1>9, <2>1 DEF IInv, Initialising
  <2>3. /\ After("FacWrite") = {"WrFac1000"} /\ After("WrFac1000") = {"WrFac6000"}
        /\ After("WrFac6000") = {"WrFull"} /\ After("WrFull") = {"FaultSave1"}
        /\ After("FaultSave1") = {}
    BY <2>2, AllTasks DEF After, ReadChain, InitChain, Tasks
  <2>4. Good(ram'["maker"]) /\ Good(ram'["maker2"]) /\ Good(ram'["o1"]) /\ Good(ram'["o6"])
    BY <1>3, <2>1, AllPages DEF IInv, Initialising
  <2> QED BY <1>2, <1>8, <1>9, <2>1, <2>2, <2>3, <2>4 DEF IInv, Initialising, Only, None, Over, Tasks
<1> QED BY <1>1, <1>7, <1>10, <1>11 DEF IInv

\* Whose turn it is in a transfer.
LEMMA Turns ==
  ASSUME NEW t \in Works, NEW s \in Lefts(t), s # <<>>
  PROVE /\ Head(s) = "maker" => t \in {"PURead", "FacWrite", "Reset", "SaveMaker"}
        /\ t \in {"PURead", "FacWrite", "Reset"} =>
             \/ Head(s) = "user" /\ Tail(s) = <<"user2", "maker", "maker2">>
             \/ /\ Head(s) = "user2" /\ Tail(s) = <<"maker", "maker2">>
                /\ s = <<"user2", "maker", "maker2">>
             \/ Head(s) = "maker" /\ Tail(s) = <<"maker2">> /\ s = <<"maker", "maker2">>
             \/ Head(s) = "maker2" /\ Tail(s) = <<>> /\ s = <<"maker2">>
        /\ t \in {"Rd1000", "WrFac1000"} => Head(s) = "o1"
        /\ t \in {"Rd6000", "WrFac6000"} => Head(s) = "o6"
        /\ t = "WrFull" => Head(s) = "of"
        /\ t \in {"FaultRead", "FaultSave1"} => Head(s) = "rec"
        /\ t \in Reads \ {"PURead"} => Head(s) \in {"o1", "o6", "rec"}
<1>. DEFINE a == "user" b == "user2" c == "maker" d == "maker2"
<1>1. /\ Head(FuncCodes) = a /\ Tail(FuncCodes) = <<b, c, d>>
      /\ Head(<<b, c, d>>) = b /\ Tail(<<b, c, d>>) = <<c, d>>
      /\ Head(<<c, d>>) = c /\ Tail(<<c, d>>) = <<d>> /\ Head(<<a, b>>) = a
  BY DEF FuncCodes
<1>2. \A p : Head(<<p>>) = p /\ Tail(<<p>>) = <<>>
  OBVIOUS
<1>3. CASE t \in {"PURead", "FacWrite", "Reset"}
  <2>1. s \in {<<d>>, <<c, d>>, <<b, c, d>>, FuncCodes}
    BY <1>3 DEF Lefts
  <2>2. \/ Head(s) = a /\ Tail(s) = <<b, c, d>>
        \/ Head(s) = b /\ Tail(s) = <<c, d>> /\ s = <<b, c, d>>
        \/ Head(s) = c /\ Tail(s) = <<d>> /\ s = <<c, d>>
        \/ Head(s) = d /\ Tail(s) = <<>> /\ s = <<d>>
    BY <1>1, <1>2, <2>1
  <2> QED BY <1>3, <2>2 DEF Reads
<1>4. CASE t \in {"Rd1000", "Wr1000", "WrFac1000"}
  <2>1. s = <<"o1">>
    BY <1>4 DEF Lefts
  <2> QED BY <1>2, <1>4, <2>1
<1>5. CASE t \in {"Rd6000", "Wr6000", "WrFac6000", "Sci"}
  <2>1. s = <<"o6">>
    BY <1>5 DEF Lefts
  <2> QED BY <1>2, <1>5, <2>1
<1>6. CASE t \in {"FaultRead", "FaultSave1", "FaultClr"}
  <2>1. s = <<"rec">>
    BY <1>6 DEF Lefts
  <2> QED BY <1>2, <1>6, <2>1
<1>7. CASE t = "WrFull"
  <2>1. s = <<"of">>
    BY <1>7 DEF Lefts
  <2> QED BY <1>2, <1>7, <2>1 DEF Reads
<1>8. CASE t \in {"SaveMaker", "DefWrite", "SaveUser", "Panel", "none"}
  <2>1. t # "SaveMaker" => s \in {<<b>>, <<a, b>>, <<d>>}
    BY <1>8 DEF Lefts
  <2> QED BY <1>1, <1>2, <1>8, <2>1 DEF Reads
<1> QED BY <1>3, <1>4, <1>5, <1>6, <1>7, <1>8 DEF Works, Tasks

LEMMA PageStepIInv == IInv /\ PageStep => IInv'
<1>. SUFFICES ASSUME IInv, PageStep PROVE IInv'
  OBVIOUS
<1>. DEFINE t == job.task
            p == Head(job.left)
<1>1. Typed'
  BY PageStepTyped DEF IInv
<1>2. /\ UNCHANGED <<boot, allRead, need, queue, servoInit, eepFlg, reported, tainted>>
      /\ t \in Works /\ t # "none" /\ job.left # <<>> /\ job.left \in Lefts(t) /\ job.begun
      /\ job'.task = t /\ job'.left = Tail(job.left) /\ job'.begun
  BY DEF PageStep, main, pending, flags, ghosts, IInv, Typed, Jobs
<1>3. p \in Pages
  BY <1>2, Pop
<1>4. /\ p = "maker" => t \in {"PURead", "FacWrite", "Reset", "SaveMaker"}
      /\ t \in {"PURead", "FacWrite", "Reset"} =>
             \/ p = "user" /\ job'.left = <<"user2", "maker", "maker2">>
             \/ /\ p = "user2" /\ job'.left = <<"maker", "maker2">>
                /\ job.left = <<"user2", "maker", "maker2">>
             \/ p = "maker" /\ job'.left = <<"maker2">> /\ job.left = <<"maker", "maker2">>
             \/ p = "maker2" /\ job'.left = <<>> /\ job.left = <<"maker2">>
      /\ t \in {"Rd1000", "WrFac1000"} => p = "o1"
      /\ t \in {"Rd6000", "WrFac6000"} => p = "o6"
      /\ t = "WrFull" => p = "of"
      /\ t \in {"FaultRead", "FaultSave1"} => p = "rec"
      /\ t \in Reads \ {"PURead"} => p \in {"o1", "o6", "rec"}
  BY <1>2, Turns
<1>5. \A q \in Pages : q # p => ram'[q] = ram[q] /\ eep'[q] = eep[q]
  BY DEF PageStep, IInv, Typed
<1>6. t \in Reads => eep' = eep /\ ram'[p] = eep[p]
  BY <1>3 DEF PageStep, IInv, Typed
<1>7. t \notin Reads =>
        /\ ram' = ram
        /\ t \notin {"WrFac1000", "WrFull"} => eep'[p] = ram[p]
        /\ t = "WrFac1000" => eep'[p] = "fac"
  BY <1>3 DEF PageStep, IInv, Typed
<1>8. \A u : Pending(u)' <=> Pending(u)
  BY <1>2 DEF Pending
<1>9. Pending(t)
  BY DEF Pending
<1>10. Version'
  <2>. SUFFICES ASSUME ~tainted, Good(eep'["maker"]) PROVE UsersGood(eep') /\ UsersGood(ram')
    BY <1>2 DEF Version
  <2>1. CASE t \in Reads
    <3>1. UsersGood(eep) /\ UsersGood(ram)
      BY <1>6, <2>1 DEF IInv, Version
    <3> QED BY <1>5, <1>6, <2>1, <3>1, AllPages DEF UsersGood
  <2>2. CASE t \notin Reads
    <3>1. UsersGood(eep) /\ UsersGood(ram)
      <4>1. CASE p # "maker"
        BY <1>5, <4>1, AllPages DEF IInv, Version
      <4>2. CASE p = "maker" /\ t = "SaveMaker"
        BY <1>9, <4>2 DEF IInv, MakerSaved, Version
      <4>3. CASE p = "maker" /\ t # "SaveMaker"
        BY <1>2, <1>4, <2>2, <4>3 DEF IInv, Rewriting, Reads
      <4> QED BY <4>1, <4>2, <4>3
    <3>2. p \in {"user", "user2"} => t \notin {"WrFac1000", "WrFull"}
      BY <1>4
    <3> QED BY <1>5, <1>7, <2>2, <3>1, <3>2, AllPages DEF UsersGood
  <2> QED BY <2>1, <2>2
<1>11. Rewriting'
  <2>. SUFFICES ASSUME t \in {"FacWrite", "Reset"} PROVE Rewriting'
    BY <1>2 DEF Rewriting
  <2>1. t \notin Reads /\ t \notin {"WrFac1000", "WrFull"}
    BY DEF Reads
  <2>2. ram' = ram /\ UsersGood(ram) /\ Good(ram["maker"]) /\ eep'[p] = ram[p]
    BY <1>2, <1>7, <2>1 DEF IInv, Rewriting
  <2>3. <<"maker", "maker2">> # <<"user2", "maker", "maker2">>
    OBVIOUS
  <2>4. job'.left = <<"user2", "maker", "maker2">> => p = "user"
    BY <1>4, <2>3
  <2>5. job'.left = <<"maker", "maker2">> => p = "user2" /\ job.left = <<"user2", "maker", "maker2">>
    BY <1>4, <2>3
  <2>6. job'.left = <<"maker", "maker2">> => UsersGood(eep')
    BY <1>2, <1>5, <2>2, <2>5, AllPages DEF IInv, Rewriting, UsersGood
  <2> QED BY <1>2, <2>2, <2>4, <2>6 DEF Rewriting, UsersGood
<1>12. MakerSaved'
  <2>. SUFFICES ASSUME ~tainted, Pending("SaveMaker") PROVE MakerSaved'
    BY <1>2, <1>8 DEF MakerSaved
  <2>1. ~Pending("PURead") /\ boot = "run" /\ Good(eep["maker"]) /\ Good(ram["maker"]) /\ t # "PURead"
    BY DEF IInv, MakerSaved, Pending
  <2>2. Good(ram'["maker"]) /\ Good(eep'["maker"])
    BY <1>4, <1>5, <1>6, <1>7, <2>1, AllPages DEF Reads
  <2> QED BY <1>2, <1>8, <2>1, <2>2 DEF MakerSaved
<1>13. Sane'
  <2>. SUFFICES ASSUME boot = "run", ~reported, ~tainted PROVE Sane'
    BY <1>2 DEF Sane
  <2>1. ~Pending("PURead") /\ t # "PURead"
    BY DEF IInv, Sane, Pending
  <2>2. Good(ram'["maker"]) /\ Good(eep'["maker"])
    BY <1>4, <1>5, <1>6, <1>7, <2>1, AllPages DEF Reads, IInv, Sane
  <2>3. ram'["maker2"] # "blank"
    BY <1>4, <1>5, <1>6, <1>7, <2>1, AllPages DEF Reads, IInv, Sane
  <2>4. ram'["o1"] # "blank" /\ eep'["o1"] # "blank"
    BY <1>4, <1>5, <1>6, <1>7, AllPages DEF IInv, Sane
  <2>5. ram'["o6"] # "blank" /\ eep'["o6"] # "blank"
    BY <1>4, <1>5, <1>6, <1>7, AllPages DEF IInv, Sane
  <2> QED BY <1>2, <1>8, <2>1, <2>2, <2>3, <2>4, <2>5 DEF Sane
<1>14. \A u : Only(u) => Only(u)' /\ t = u
  BY <1>2 DEF Only
<1>15. ~None
  BY <1>2 DEF None
<1>16. /\ <<"maker2">> # <<>> /\ <<"maker", "maker2">> \notin {<<>>, <<"maker2">>}
       /\ <<"user2", "maker", "maker2">> \notin {<<>>, <<"maker2">>}
  OBVIOUS
<1>17. Reading'
  <2>. SUFFICES ASSUME boot = "read", ~reported PROVE Reading'
    BY <1>2 DEF Reading
  <2>1. t \in Reads
    BY <1>2, <1>14, <1>15 DEF IInv, Reading, Reads
  <2>2. CASE t = "PURead"
    <3>1. Only("PURead") /\ allRead /\ (job.left \in {<<>>, <<"maker2">>} => Same("maker"))
      BY <1>2, <1>14, <1>15, <2>2 DEF IInv, Reading
    <3>2. job'.left \in {<<>>, <<"maker2">>} => Same("maker")'
      BY <1>4, <1>5, <1>6, <1>16, <2>1, <2>2, <3>1, AllPages DEF Same
    <3> QED BY <1>2, <1>14, <3>1, <3>2 DEF IInv, Reading
  <2>3. CASE t # "PURead"
    <3>1. \A q \in {"maker", "o1", "o6"} : Same(q) => Same(q)'
      BY <1>5, <1>6, <2>1, AllPages DEF Same
    <3>2. (t = "Rd1000" => Same("o1")') /\ (t = "Rd6000" => Same("o6")')
      BY <1>4, <1>6, <2>1 DEF Same
    <3> QED BY <1>2, <1>14, <1>15, <2>3, <3>1, <3>2 DEF IInv, Reading
  <2> QED BY <2>2, <2>3
<1>18. Initialising'
  <2>. SUFFICES ASSUME boot = "init", ~reported PROVE Initialising'
    BY <1>2 DEF Initialising
  <2>1. servoInit /\ t \in {"FacWrite", "WrFac1000", "WrFac6000", "WrFull", "FaultSave1"} /\ t \notin Reads
    BY <1>2, <1>14, <1>15 DEF IInv, Initialising, Reads
  <2>2. ram' = ram /\ Good(ram["maker"]) /\ Good(ram["maker2"]) /\ Good(ram["o1"]) /\ Good(ram["o6"])
    BY <1>7, <2>1 DEF IInv, Initialising
  <2>3. \A q \in {"maker", "o1", "o6"} : Good(eep[q]) \/ q = p => Good(eep'[q])
    BY <1>4, <1>5, <1>7, <2>1, <2>2, AllPages DEF Good
  <2>4. CASE t = "FacWrite"
    <3>1. Only("FacWrite") /\ (job.left \in {<<>>, <<"maker2">>} => Good(eep["maker"]))
      BY <1>2, <1>14, <1>15, <2>1, <2>4 DEF IInv, Initialising
    <3>2. job'.left \in {<<>>, <<"maker2">>} => Good(eep'["maker"])
      BY <1>4, <1>16, <2>3, <2>4, <3>1
    <3> QED BY <1>2, <1>14, <2>1, <2>2, <3>1, <3>2 DEF IInv, Initialising
  <2>5. CASE t # "FacWrite"
    BY <1>2, <1>4, <1>14, <1>15, <2>1, <2>2, <2>3, <2>5 DEF IInv, Initialising
  <2> QED BY <2>4, <2>5
<1> QED BY <1>1, <1>10, <1>11, <1>12, <1>13, <1>17, <1>18 DEF IInv

\* A recorded fault of the store changes the record only, and nothing is promised after it.
LEMMA Reported ==
  ASSUME NEW v, Report(v), "rec" \in DOMAIN v
  PROVE /\ reported' /\ \A p \in Resets : ram'[p] = v[p]
BY AllPages DEF Report

LEMMA FactoryGood ==
  ASSUME NEW v PROVE \A p \in Resets : Good(Factory(v)[p])
BY AllPages DEF Factory, Good

LEMMA BootCheckIInv == IInv /\ BootCheck => IInv'
<1>. SUFFICES ASSUME IInv, BootCheck PROVE IInv'
  OBVIOUS
<1>1. Typed'
  BY BootCheckTyped DEF IInv
<1>2. /\ boot = "read" /\ ~allRead /\ ~(~tainted /\ Pending("SaveMaker"))
      /\ UNCHANGED <<eep, job, queue, tainted>>
  BY DEF BootCheck, pending, ghosts, IInv, MakerSaved
<1>3. ~reported => None /\ ~eepFlg /\ queue = <<>> /\ Same("maker") /\ Same("o1") /\ Same("o6")
  BY <1>2 DEF IInv, Reading
<1>4. CASE tries < 3 /\ allRead' = TRUE /\ need' = need \cup {"PURead"}
           /\ UNCHANGED <<ram, boot, servoInit, eepFlg, i2cErr, reported>>
  <2>1. Version' /\ Rewriting' /\ MakerSaved' /\ Sane' /\ Initialising'
    BY <1>2, <1>4 DEF IInv, Version, Rewriting, MakerSaved, Sane, Initialising, Pending, flags
  <2>2. ~reported => Only("PURead")'
    BY <1>2, <1>3, <1>4 DEF None, Only
  <2>3. ~reported => ~job'.begun
    BY <1>2, <1>3 DEF IInv, Typed, None
  <2>4. Reading'
    BY <1>2, <1>3, <1>4, <2>2, <2>3 DEF Reading, flags
  <2> QED BY <1>1, <2>1, <2>4 DEF IInv
<1>5. CASE StartInit /\ UNCHANGED <<tries, allRead, eepFlg, i2cErr, reported>>
  <2>1. boot' = "init" /\ servoInit' = TRUE /\ need' = need \cup {"FacWrite"}
        /\ \A p \in Resets : Good(ram'[p])
    BY <1>5, FactoryGood DEF StartInit
  <2>2. UsersGood(ram') /\ Good(ram'["maker"]) /\ Good(ram'["maker2"]) /\ Good(ram'["o1"])
        /\ Good(ram'["o6"])
    BY <2>1, AllPages DEF UsersGood
  <2>3. Version' /\ Rewriting' /\ MakerSaved' /\ Sane' /\ Reading'
    BY <1>2, <2>1, <2>2 DEF IInv, Version, Rewriting, MakerSaved, Sane, Reading, Pending
  <2>4. ~reported => Only("FacWrite")' /\ ~job'.begun
    BY <1>2, <1>3, <2>1 DEF None, Only, IInv, Typed
  <2>5. Initialising'
    BY <1>2, <1>3, <1>5, <2>1, <2>2, <2>4 DEF Initialising
  <2> QED BY <1>1, <2>3, <2>5 DEF IInv
<1>6. CASE ~EmptyRead /\ ~OtherVersion /\ PowerUpCheck /\ UNCHANGED <<tries, allRead, servoInit, need>>
  <2>1. boot' = "run" /\ \A p \in Resets : ram'[p] = ram[p]
    BY <1>6, Reported, AllPages DEF PowerUpCheck, IInv, Typed
  <2>2. ~reported' => ~reported /\ Marked /\ Good(ram["maker"])
    BY <1>6, Reported, AllPages DEF PowerUpCheck, IInv, Typed, OtherVersion, Good
  <2>3. Version' /\ Rewriting' /\ MakerSaved' /\ Reading' /\ Initialising'
    BY <1>2, <1>6, <2>1, AllPages
    DEF IInv, Version, Rewriting, MakerSaved, Reading, Initialising, Pending, UsersGood
  <2>4. Sane'
    BY <1>2, <1>3, <1>6, <2>1, <2>2, AllPages DEF Sane, Pending, None, Same, Marked
  <2> QED BY <1>1, <2>3, <2>4 DEF IInv
<1> QED BY <1>4, <1>5, <1>6 DEF BootCheck

LEMMA InitDoneIInv == IInv /\ InitDone => IInv'
<1>. SUFFICES ASSUME IInv, InitDone PROVE IInv'
  OBVIOUS
<1>1. Typed'
  BY InitDoneTyped DEF IInv
<1>2. /\ boot = "init" /\ boot' = "run" /\ ~servoInit /\ ~(~tainted /\ Pending("SaveMaker"))
      /\ UNCHANGED <<eep, need, job, queue, tainted>>
  BY DEF InitDone, PowerUpCheck, tasks, pending, ghosts, IInv, MakerSaved
<1>3. \A p \in Resets : ram'[p] = ram[p]
  BY Reported, AllPages DEF InitDone, PowerUpCheck, IInv, Typed
<1>4. ~reported' => ~reported
  BY Reported, AllPages DEF InitDone, PowerUpCheck, IInv, Typed
<1>5. Version' /\ Rewriting' /\ MakerSaved' /\ Reading' /\ Initialising'
  BY <1>2, <1>3, AllPages
  DEF IInv, Version, Rewriting, MakerSaved, Reading, Initialising, Pending, UsersGood
<1>6. ~reported => /\ None /\ Good(eep["maker"]) /\ Good(eep["o1"]) /\ Good(eep["o6"])
                   /\ Good(ram["maker"]) /\ Good(ram["maker2"]) /\ Good(ram["o1"]) /\ Good(ram["o6"])
  BY <1>2 DEF IInv, Initialising, Only, None
<1>7. Sane'
  BY <1>2, <1>3, <1>4, <1>6, AllPages DEF Sane, Pending, None, Good
<1> QED BY <1>1, <1>5, <1>7 DEF IInv

LEMMA BootTimeoutIInv == IInv /\ BootTimeout => IInv'
<1>. SUFFICES ASSUME IInv, BootTimeout PROVE IInv'
  OBVIOUS
<1>1. Typed'
  BY BootTimeoutTyped DEF IInv
<1>2. /\ boot # "run" /\ boot' = "run" /\ ~(~tainted /\ Pending("SaveMaker"))
      /\ UNCHANGED <<eep, need, job, queue, tainted>>
  BY DEF BootTimeout, tasks, pending, ghosts, IInv, MakerSaved
<1>3. reported' /\ \A p \in Resets : ram'[p] = ram[p] \/ Good(ram'[p])
  <2>1. "rec" \in DOMAIN ram /\ "rec" \in DOMAIN Factory(ram)
    BY AllPages DEF IInv, Typed, Factory
  <2> QED BY <2>1, Reported, FactoryGood DEF BootTimeout
<1>4. Version' /\ Rewriting' /\ MakerSaved' /\ Sane' /\ Reading' /\ Initialising'
  BY <1>2, <1>3, AllPages
  DEF IInv, Version, Rewriting, MakerSaved, Sane, Reading, Initialising, Pending, UsersGood
<1> QED BY <1>1, <1>4 DEF IInv

LEMMA SaveDueIInv == IInv /\ SaveDue => IInv'
<1>. SUFFICES ASSUME IInv, SaveDue PROVE IInv'
  OBVIOUS
<1>1. Typed'
  BY SaveDueTyped DEF IInv
<1>2. /\ eepFlg /\ need' = need \cup {"FaultSave1"}
      /\ UNCHANGED <<eep, ram, boot, job, reported, tainted>>
  BY DEF SaveDue, store, main, ghosts
<1>3. Version' /\ Rewriting' /\ MakerSaved' /\ Sane'
  BY <1>2 DEF IInv, Version, Rewriting, MakerSaved, Sane, Pending, UsersGood
<1>4. Reading' /\ Initialising'
  BY <1>2 DEF IInv, Reading, Initialising
<1> QED BY <1>1, <1>3, <1>4 DEF IInv

(* -- Requests and failures ------------------------------------------------ *)

\* What a request may disturb while the drive runs: live pages get good values, the EEPROM and
\* the task under way stay, and no read of everything is asked for.
Harmless ==
  /\ UNCHANGED <<eep, job, boot, reported>> /\ boot = "run"
  /\ tainted => tainted'
  /\ \A p \in Resets : ram'[p] = ram[p] \/ Good(ram'[p])
  /\ "PURead" \notin need' \ need
  /\ "SaveMaker" \in need' \ need => tainted' \/ ~reported

LEMMA HarmlessIInv == ASSUME IInv, Harmless, Typed' PROVE IInv'
<1>1. \A p \in Resets : Good(ram[p]) => Good(ram'[p])
  BY DEF Harmless
<1>2. UsersGood(ram) => UsersGood(ram')
  BY <1>1, AllPages DEF UsersGood
<1>3. Version' /\ Rewriting'
  BY <1>1, <1>2, AllPages DEF Harmless, IInv, Version, Rewriting, UsersGood
<1>4. Pending("PURead")' => Pending("PURead")
  BY DEF Harmless, Pending
<1>5. Sane'
  BY <1>1, <1>4, AllPages DEF Harmless, IInv, Sane, Good
<1>6. MakerSaved'
  <2>. SUFFICES ASSUME ~tainted', Pending("SaveMaker")' PROVE MakerSaved'
    BY DEF MakerSaved
  <2>1. CASE Pending("SaveMaker")
    BY <1>1, <1>4, <2>1, AllPages DEF Harmless, IInv, MakerSaved
  <2>2. CASE ~Pending("SaveMaker")
    <3>1. ~reported /\ ~tainted /\ boot = "run"
      BY <2>2 DEF Harmless, Pending
    <3> QED BY <1>1, <1>4, <3>1, AllPages DEF Harmless, IInv, Sane, MakerSaved
  <2> QED BY <2>1, <2>2
<1>7. Reading' /\ Initialising'
  BY DEF Harmless, Reading, Initialising
<1> QED BY <1>3, <1>5, <1>6, <1>7 DEF IInv

LEMMA RequestIInv == IInv /\ Request => IInv'
<1>. SUFFICES ASSUME IInv, Request PROVE IInv'
  OBVIOUS
<1>1. Typed'
  BY TypedStep DEF IInv, Next
<1>2. ASSUME NEW code \in DOMAIN Command, ParaInit(code) PROVE Harmless
  <2>1. "PURead" \notin Command[code]
    BY DEF Command
  <2>2. need' = need \cup Command[code] /\ boot = "run"
        /\ UNCHANGED <<eep, ram, job, boot, reported>>
        /\ tainted' = (tainted \/ (reported /\ "SaveMaker" \in Command[code]))
    BY <1>2 DEF ParaInit, IIcFun, store, main
  <2> QED BY <2>1, <2>2 DEF Harmless
<1>3. \A q \in Pages : "new" # "blank" /\ Good("new")
  BY DEF Good
<1>4. ASSUME NEW p \in Pages, ram' = [ram EXCEPT ![p] = "new"]
      PROVE \A q \in Resets : ram'[q] = ram[q] \/ Good(ram'[q])
  BY <1>4, AllPages DEF IInv, Typed, Good
<1>5. ASSUME NEW p \in {"o1", "o6"}, Edit(p) PROVE Harmless
  BY <1>4, <1>5, AllPages DEF Edit, Harmless, main, tasks, flags
<1>6. ASSUME NEW p \in {"user2", "maker2"}, IIcInterfaceA(p) PROVE Harmless
  BY <1>4, <1>6, AllPages DEF IIcInterfaceA, Harmless, main, flags
<1>7. ASSUME NEW p \in {"o6"}, IIcInterfaceC(p) PROVE Harmless
  BY <1>4, <1>7, AllPages DEF IIcInterfaceC, Harmless, main, tasks, flags
<1>8. NetworkReset => Harmless
  BY DEF NetworkReset, Harmless, store, main, flags, ghosts
<1>9. MsgRecord => Harmless
  BY <1>4, AllPages DEF MsgRecord, Harmless, main, tasks
<1> QED BY <1>1, <1>2, <1>5, <1>6, <1>7, <1>8, <1>9, HarmlessIInv DEF Request

LEMMA BusInitErrIInv == IInv /\ BusInitErr => IInv'
<1>. SUFFICES ASSUME IInv, BusInitErr PROVE IInv'
  OBVIOUS
<1>1. Typed'
  BY BusInitErrTyped DEF IInv
<1>2. reported' /\ \A p \in Resets : ram'[p] = ram[p]
  BY Reported, AllPages DEF BusInitErr, IInv, Typed
<1>3. UNCHANGED <<eep, boot, need, job, tainted>>
  BY DEF BusInitErr, tasks, ghosts
<1>4. Version' /\ Rewriting' /\ MakerSaved' /\ Sane' /\ Reading' /\ Initialising'
  BY <1>2, <1>3, AllPages
  DEF IInv, Version, Rewriting, MakerSaved, Sane, Reading, Initialising, Pending, UsersGood
<1> QED BY <1>1, <1>4 DEF IInv

LEMMA BusTimeoutIInv == IInv /\ BusTimeout => IInv'
<1>. SUFFICES ASSUME IInv, BusTimeout PROVE IInv'
  OBVIOUS
<1>1. Typed'
  BY BusTimeoutTyped DEF IInv
<1>2. reported' /\ \A p \in Resets : ram'[p] = ram[p]
  BY Reported, AllPages DEF BusTimeout, IInv, Typed
<1>3. /\ UNCHANGED <<eep, boot, need, tainted>> /\ job'.task = job.task /\ job'.left = <<>>
      /\ job.begun
  BY DEF BusTimeout, main, ghosts, IInv, Typed, Jobs
<1>4. <<>> \notin {<<"maker", "maker2">>, <<"user2", "maker", "maker2">>}
  OBVIOUS
<1>5. Version' /\ Rewriting' /\ MakerSaved' /\ Sane' /\ Reading' /\ Initialising'
  BY <1>2, <1>3, <1>4, AllPages
  DEF IInv, Version, Rewriting, MakerSaved, Sane, Reading, Initialising, Pending, UsersGood
<1> QED BY <1>1, <1>5 DEF IInv

LEMMA PowerLossIInv == IInv /\ PowerLoss => IInv'
<1>. SUFFICES ASSUME IInv, PowerLoss PROVE IInv'
  OBVIOUS
<1>1. Typed'
  BY PowerLossTyped DEF IInv
<1>2. /\ job'.task = "none" /\ ~job'.begun /\ need' = {"PURead"} /\ boot' = "read" /\ allRead'
      /\ ~eepFlg' /\ queue' = <<>> /\ UNCHANGED <<eep, tainted>> /\ ram' = Factory(Blank)
  BY DEF PowerLoss, Idle
<1>3. UsersGood(ram')
  BY <1>2, FactoryGood, AllPages DEF UsersGood
<1>4. Version' /\ Rewriting' /\ MakerSaved' /\ Sane'
  BY <1>2, <1>3 DEF IInv, Version, Rewriting, MakerSaved, Sane, Pending
<1>5. Reading' /\ Initialising'
  BY <1>2 DEF Reading, Initialising, Only
<1> QED BY <1>1, <1>4, <1>5 DEF IInv

\* A power-up that reports nothing runs on parameters that were written once and on no user's
\* parameters of another firmware, after any number of power losses, failures of the bus and
\* requests (PowerOnReadFunc).
THEOREM BootIsSound == Spec => []BootSound
<1>1. Init => IInv
  BY InitIInv
<1>2. IInv /\ [Next]_vars => IInv'
  <2>1. IInv /\ Step => IInv'
    BY TaskSelIInv, BeginIInv, PageStepIInv, FinishIInv, BootCheckIInv, InitDoneIInv,
       BusInitErrIInv, BootTimeoutIInv, SaveDueIInv
    DEF Step
  <2>2. IInv /\ UNCHANGED vars => IInv'
    <3>. SUFFICES ASSUME IInv, UNCHANGED vars PROVE IInv'
      OBVIOUS
    <3>1. Typed'
      BY TypedStep DEF IInv
    <3>2. UNCHANGED <<eep, ram, boot, allRead, servoInit, need, job, queue, eepFlg, reported, tainted>>
      BY DEF vars, store, main, tasks, pending, flags, ghosts
    <3> QED
      BY <3>1, <3>2
      DEF IInv, Version, Rewriting, MakerSaved, Sane, Reading, Initialising, Pending, UsersGood,
          Only, None, Over, Same
  <2> QED BY <2>1, <2>2, RequestIInv, BusTimeoutIInv, PowerLossIInv DEF Next
<1>3. IInv => BootSound
  BY IInvIsSound
<1> QED BY <1>1, <1>2, <1>3, PTL DEF Spec

(* -- Accepted saves ------------------------------------------------------- *)

Writers == Tasks \ Reads

\* A task that has yet to write p is wanted, and is not the one whose end takes its flag back.
Asked(p) == \E t \in need \cap Writers : p \in ToSet(Transfer[t]) /\ ~Running(t)
UnderWay(p) ==
  IF job.begun THEN job.task \notin Reads /\ p \in ToSet(job.left)
  ELSE job.task \in Writers /\ p \in ToSet(Transfer[job.task])
Slot(p)    == p = panel /\ ("Panel" \in need \/ (job.task = "Panel" /\ ~job.begun))
Queued(p)  == p \in ToSet(queue)
Marks(p)   == p = "rec" /\ eepFlg
Covered(p) == Asked(p) \/ UnderWay(p) \/ Slot(p) \/ Queued(p) \/ Marks(p)
Agrees(p)  == eep[p] = ram[p]

\* What is owed is in the EEPROM, or something is left that will write it.
Served == ~reported => \A p \in owed : Agrees(p) \/ Covered(p)

\* The pages whose writes do not take the live value, and the record, whose flag two tasks clear.
Apart ==
  /\ "of" \notin owed
  /\ Running("WrFac1000") /\ "o1" \in owed => "Wr1000" \in need
  /\ ~reported /\ Running("FaultSave1") /\ job.left = <<>> /\ "rec" \in owed => Agrees("rec")
  /\ boot # "run" => owed = {}

SInv == Typed /\ Served /\ Apart

LEMMA SInvIsNoLostSave == SInv => NoLostSave
<1>. SUFFICES ASSUME SInv, Quiet, ~reported, NEW p \in owed PROVE eep[p] = ram[p]
  BY DEF NoLostSave
<1>1. ~Covered(p)
  BY PagesOfLists, AllTasks
  DEF Quiet, Idle, Covered, Asked, UnderWay, Slot, Queued, Marks, Writers
<1> QED BY <1>1 DEF SInv, Served, Agrees

LEMMA InitSInv == Init => SInv
<1>1. Init => owed = {} /\ job.task = "none"
  BY DEF Init, Idle
<1> QED BY <1>1, InitTyped DEF SInv, Served, Apart, Running

LEMMA TaskSelSInv == SInv /\ TaskSel => SInv'
<1>. SUFFICES ASSUME SInv, TaskSel PROVE SInv'
  OBVIOUS
<1>1. Typed'
  BY TaskSelTyped DEF SInv
<1>2. /\ UNCHANGED <<eep, ram, boot, panel, queue, eepFlg, reported, owed>>
      /\ ~job'.begun /\ ~job.begun /\ job.task = "none"
  BY Selected DEF TaskSel, Taken, Idle, store, main, pending, flags, ghosts
<1>3. \A t \in need : t \in need' \/ job'.task = t
  BY Selected DEF Taken
<1>4. ASSUME NEW p, Covered(p) PROVE Covered(p)'
  <2>1. CASE Asked(p)
    <3>1. PICK t \in need \cap Writers : p \in ToSet(Transfer[t])
      BY <2>1 DEF Asked
    <3> QED BY <1>2, <1>3, <3>1 DEF Covered, Asked, UnderWay, Running
  <2>2. ~UnderWay(p)
    BY <1>2, AllTasks DEF UnderWay, Writers
  <2>3. CASE Slot(p)
    BY <1>2, <1>3, <2>3 DEF Covered, Slot
  <2> QED BY <1>2, <1>4, <2>1, <2>2, <2>3 DEF Covered, Queued, Marks
<1>5. Served' /\ Apart'
  BY <1>2, <1>4 DEF SInv, Served, Apart, Agrees, Running
<1> QED BY <1>1, <1>5 DEF SInv

LEMMA BeginSInv == SInv /\ Begin => SInv'
<1>. SUFFICES ASSUME SInv, Begin PROVE SInv'
  OBVIOUS
<1>. DEFINE t == job.task
<1>1. Typed'
  BY BeginTyped DEF SInv
<1>2. /\ UNCHANGED <<eep, boot, need, panel, eepFlg, reported>>
      /\ t \in Works /\ t # "none" /\ ~job.begun /\ job'.task = t /\ job'.begun
      /\ owed' \subseteq owed
      /\ t = "Sci" => job'.left = <<Head(queue)>>
      /\ t # "Sci" => queue' = queue
      /\ t = "Panel" => job'.left = <<panel>>
      /\ t \in Tasks => job'.left = Transfer[t]
  BY AllTasks DEF Begin, main, flags, SInv, Typed, Jobs
<1>3. \A p \in owed' : ram'[p] = ram[p]
  <2>. DEFINE replaced == IF t \in DOMAIN Transfer THEN Restores[t] ELSE {}
  <2>1. owed' \subseteq Pages
    BY <1>1 DEF Typed
  <2>2. ram' = [p \in Pages |-> IF p \in replaced THEN "fac"
                                ELSE IF t = "WrFull" /\ p = "o6" THEN "full" ELSE ram[p]]
    BY DEF Begin
  <2>3. \A p \in owed' : p \notin replaced /\ ~(t = "WrFull" /\ p = "o6")
    BY DEF Begin, Reads
  <2> QED BY <2>1, <2>2, <2>3
<1>4. ASSUME NEW p, Covered(p) PROVE Covered(p)'
  <2>1. CASE Asked(p)
    <3>1. PICK u \in need \cap Writers : p \in ToSet(Transfer[u])
      BY <2>1 DEF Asked
    <3> QED BY <1>2, <3>1 DEF Covered, Asked, UnderWay, Running, Writers
  <2>2. CASE UnderWay(p)
    BY <1>2, <2>2 DEF Covered, UnderWay, Writers
  <2>3. CASE Slot(p)
    <3>1. p \in ToSet(<<panel>>)
      BY <2>3 DEF Slot, ToSet
    <3> QED BY <1>2, <2>3, <3>1 DEF Covered, Slot, UnderWay, Reads
  <2>4. CASE Queued(p) /\ t = "Sci"
    <3>1. queue # <<>> /\ p = "o6"
      BY <1>2, <2>4, QueuePages DEF SInv, Typed, Queued
    <3>2. Head(queue) = "o6"
      BY <3>1, QueueOfOne DEF SInv, Typed
    <3> QED BY <1>2, <2>4, <3>1, <3>2, PagesOfLists DEF Covered, UnderWay, Reads
  <2>5. CASE Queued(p) /\ t # "Sci"
    BY <1>2, <2>5 DEF Covered, Queued
  <2> QED BY <1>2, <1>4, <2>1, <2>2, <2>3, <2>4, <2>5 DEF Covered, Marks
<1>5. t = "WrFac1000" => "o1" \notin owed'
  <2>1. t = "WrFac1000" => t \in Reads \cup {"WrFac1000"} /\ ToSet(Transfer[t]) = {"o1"}
    BY PagesOfLists DEF Transfer
  <2> QED BY <2>1 DEF Begin
<1>6. t = "FaultSave1" => job'.left # <<>>
  BY <1>2 DEF Transfer, Tasks
<1>7. Served' /\ Apart'
  BY <1>2, <1>3, <1>4, <1>5, <1>6 DEF SInv, Served, Apart, Agrees, Running
<1> QED BY <1>1, <1>7 DEF SInv

LEMMA FinishSInv == SInv /\ Finish => SInv'
<1>. SUFFICES ASSUME SInv, Finish PROVE SInv'
  OBVIOUS
<1>. DEFINE t == job.task
<1>1. Typed'
  BY FinishTyped DEF SInv
<1>2. /\ UNCHANGED <<eep, boot, panel, queue, reported, owed>>
      /\ t # "none" /\ job.begun /\ job.left = <<>> /\ job'.task = "none" /\ ~job'.begun
      /\ need \ ClearedAtEnd(t) \subseteq need'
      /\ eepFlg' = (eepFlg /\ t # "FaultSave1")
  BY DEF Finish, Idle, pending, SInv, Typed
<1>3. \A p : ram'[p] # ram[p] => t = "WrFac1000" /\ p = "o1"
  BY DEF Finish, SInv, Typed
<1>4. ASSUME NEW p, Covered(p), ~(t = "FaultSave1" /\ Marks(p)) PROVE Covered(p)'
  <2>1. CASE Asked(p)
    <3>1. PICK u \in need \cap Writers : p \in ToSet(Transfer[u]) /\ ~Running(u)
      BY <2>1 DEF Asked
    <3>2. u \in need' \cap Writers
      BY <1>2, <3>1 DEF ClearedAtEnd, Running
    <3> QED BY <1>2, <3>1, <3>2 DEF Covered, Asked, Running, Writers, Tasks
  <2>2. ~UnderWay(p)
    BY <1>2, PagesOfLists DEF UnderWay
  <2>3. CASE Slot(p)
    BY <1>2, <2>3 DEF Covered, Slot, ClearedAtEnd
  <2> QED BY <1>2, <1>4, <2>1, <2>2, <2>3 DEF Covered, Queued, Marks
<1>5. ASSUME ~reported, NEW p \in owed PROVE Agrees(p)' \/ Covered(p)'
  <2>1. CASE t = "WrFac1000" /\ p = "o1"
    <3>1. "Wr1000" \in need \cap Writers /\ "o1" \in ToSet(Transfer["Wr1000"]) /\ ~Running("Wr1000")
      BY <1>2, <1>5, <2>1, PagesOfLists DEF SInv, Apart, Running, Writers, Tasks, Reads, Transfer
    <3>2. Covered(p)
      BY <2>1, <3>1 DEF Covered, Asked
    <3> QED BY <1>4, <2>1, <3>2
  <2>2. CASE ~(t = "WrFac1000" /\ p = "o1") /\ ~(t = "FaultSave1" /\ Marks(p))
    BY <1>2, <1>3, <1>4, <1>5, <2>2 DEF SInv, Served, Agrees
  <2>3. CASE t = "FaultSave1" /\ Marks(p)
    BY <1>2, <1>3, <1>5, <2>3 DEF SInv, Apart, Agrees, Marks, Running
  <2> QED BY <2>1, <2>2, <2>3
<1>6. Served' /\ Apart'
  BY <1>2, <1>5 DEF SInv, Served, Apart, Running
<1> QED BY <1>1, <1>6 DEF SInv

\* What is not the next page of a transfer stays in it.
LEMMA Rest ==
  ASSUME NEW t \in Works, NEW s \in Lefts(t), s # <<>>
  PROVE \A q \in ToSet(s) : q = Head(s) \/ q \in ToSet(Tail(s))
<1>. DEFINE a == "user" b == "user2" c == "maker" d == "maker2"
<1>1. /\ Head(FuncCodes) = a /\ Tail(FuncCodes) = <<b, c, d>>
      /\ Head(<<b, c, d>>) = b /\ Tail(<<b, c, d>>) = <<c, d>>
      /\ Head(<<c, d>>) = c /\ Tail(<<c, d>>) = <<d>>
      /\ Head(<<a, b>>) = a /\ Tail(<<a, b>>) = <<b>>
  BY DEF FuncCodes
<1>2. \A p : Head(<<p>>) = p /\ ToSet(<<p>>) = {p}
  BY DEF ToSet
<1>3. s \in {FuncCodes, <<b, c, d>>, <<c, d>>, <<a, b>>} \cup {<<p>> : p \in Pages}
  BY AllPages DEF Lefts, Works, Tasks
<1>4. /\ ToSet(<<b, c, d>>) = {b, c, d} /\ ToSet(<<c, d>>) = {c, d}
      /\ ToSet(<<a, b>>) = {a, b} /\ ToSet(FuncCodes) = {a, b, c, d}
  BY DEF ToSet, FuncCodes
<1>5. CASE s \in {<<p>> : p \in Pages}
  BY <1>2, <1>5
<1>6. CASE s = FuncCodes
  BY <1>1, <1>4, <1>6
<1>7. CASE s = <<b, c, d>>
  BY <1>1, <1>4, <1>7
<1>8. CASE s = <<c, d>>
  BY <1>1, <1>2, <1>4, <1>8
<1>9. CASE s = <<a, b>>
  BY <1>1, <1>2, <1>4, <1>9
<1> QED BY <1>3, <1>5, <1>6, <1>7, <1>8, <1>9

LEMMA PageStepSInv == SInv /\ PageStep => SInv'
<1>. SUFFICES ASSUME SInv, PageStep PROVE SInv'
  OBVIOUS
<1>. DEFINE t == job.task
            p == Head(job.left)
<1>1. Typed'
  BY PageStepTyped DEF SInv
<1>2. /\ UNCHANGED <<boot, need, panel, queue, eepFlg, reported, owed>>
      /\ t \in Works /\ job.left # <<>> /\ job.left \in Lefts(t) /\ job.begun
      /\ job'.task = t /\ job'.left = Tail(job.left) /\ job'.begun
  BY DEF PageStep, main, pending, flags, ghosts, SInv, Typed, Jobs
<1>3. p \in Pages /\ (t = "WrFac1000" => p = "o1") /\ (t = "WrFull" => p = "of")
      /\ (t = "FaultSave1" => p = "rec") /\ \A q \in ToSet(job.left) : q = p \/ q \in ToSet(job'.left)
  BY <1>2, Pop, Turns, Rest
<1>4. \A q \in Pages : q # p => ram'[q] = ram[q] /\ eep'[q] = eep[q]
  BY DEF PageStep, SInv, Typed
<1>5. t \notin {"WrFac1000", "WrFull"} => eep'[p] = ram'[p]
  <2>1. t \in Reads => eep' = eep /\ ram'[p] = eep[p]
    BY <1>3 DEF PageStep, SInv, Typed
  <2>2. t \notin Reads /\ t \notin {"WrFac1000", "WrFull"} => ram' = ram /\ eep'[p] = ram[p]
    BY <1>3 DEF PageStep, SInv, Typed
  <2> QED BY <2>1, <2>2
<1>6. ASSUME NEW q, Covered(q), q # p \/ ~UnderWay(q) PROVE Covered(q)'
  <2>1. CASE Asked(q)
    BY <1>2, <2>1 DEF Covered, Asked, Running
  <2>2. CASE UnderWay(q)
    BY <1>2, <1>3, <1>6, <2>2 DEF Covered, UnderWay
  <2>3. CASE Slot(q)
    BY <1>2, <2>3 DEF Covered, Slot
  <2> QED BY <1>2, <1>6, <2>1, <2>2, <2>3 DEF Covered, Queued, Marks
<1>7. ASSUME ~reported, NEW q \in owed PROVE Agrees(q)' \/ Covered(q)'
  <2>1. CASE q # p
    <3>1. q \in Pages
      BY DEF SInv, Typed
    <3> QED BY <1>4, <1>6, <1>7, <2>1, <3>1 DEF SInv, Served, Agrees
  <2>2. CASE q = p /\ t \notin {"WrFac1000", "WrFull"}
    BY <1>5, <2>2 DEF Agrees
  <2>3. t # "WrFull" \/ q # p
    BY <1>3, <1>7 DEF SInv, Apart
  <2>4. CASE q = p /\ t = "WrFac1000"
    <3>1. "Wr1000" \in need \cap Writers /\ q \in ToSet(Transfer["Wr1000"]) /\ ~Running("Wr1000")
      BY <1>2, <1>3, <1>7, <2>4, PagesOfLists
      DEF SInv, Apart, Running, Writers, Tasks, Reads, Transfer
    <3> QED BY <1>2, <2>4, <3>1 DEF Covered, Asked, Running
  <2> QED BY <2>1, <2>2, <2>3, <2>4
<1>8. Served' /\ Apart'
  BY <1>2, <1>3, <1>5, <1>7 DEF SInv, Served, Apart, Running, Agrees
<1> QED BY <1>1, <1>8 DEF SInv

\* Before the drive runs nothing is owed.
LEMMA BootSInv == SInv /\ (BootCheck \/ InitDone \/ BootTimeout) => SInv'
<1>. SUFFICES ASSUME SInv, BootCheck \/ InitDone \/ BootTimeout PROVE SInv'
  OBVIOUS
<1>1. Typed'
  BY BootCheckTyped, InitDoneTyped, BootTimeoutTyped DEF SInv
<1>2. boot # "run" /\ owed' = owed
  BY DEF BootCheck, InitDone, BootTimeout, ghosts
<1>3. owed' = {}
  BY <1>2 DEF SInv, Apart
<1> QED BY <1>1, <1>3 DEF SInv, Served, Apart

LEMMA SaveDueSInv == SInv /\ SaveDue => SInv'
<1>. SUFFICES ASSUME SInv, SaveDue PROVE SInv'
  OBVIOUS
<1>1. Typed'
  BY SaveDueTyped DEF SInv
<1>2. /\ UNCHANGED <<eep, ram, boot, job, panel, queue, reported, owed>>
      /\ need' = need \cup {"FaultSave1"}
  BY DEF SaveDue, store, main, pending, ghosts
<1>3. \A p : Agrees(p)' <=> Agrees(p)
  BY <1>2 DEF Agrees
<1>4. \A p : Covered(p) /\ ~Marks(p) => Covered(p)'
  BY <1>2 DEF Covered, Asked, UnderWay, Slot, Queued, Running
<1>5. "FaultSave1" \in Writers /\ "rec" \in ToSet(Transfer["FaultSave1"])
  BY PagesOfLists DEF Writers, Tasks, Reads, Transfer
<1>6. ~Running("FaultSave1") => Covered("rec")'
  BY <1>2, <1>5 DEF Covered, Asked, Running
<1>7. Running("FaultSave1") /\ job.left # <<>> => Covered("rec")'
  <2>1. Running("FaultSave1") /\ job.left # <<>> => job.left = <<"rec">>
    BY DEF SInv, Typed, Lefts, Running
  <2> QED BY <1>2, <2>1, PagesOfLists DEF Covered, UnderWay, Running, Reads
<1>8. Served' /\ Apart'
  BY <1>2, <1>3, <1>4, <1>6, <1>7 DEF SInv, Served, Apart, Marks, Running
<1> QED BY <1>1, <1>8 DEF SInv

\* A request that leaves the task under way alone and adds to the others.
LEMMA KeepsAsked ==
  ASSUME job' = job, need \subseteq need'
  PROVE \A p : (Asked(p) => Asked(p)') /\ (UnderWay(p) => UnderWay(p)')
BY DEF Asked, UnderWay, Running

LEMMA ParaInitSInv == ASSUME NEW code \in DOMAIN Command PROVE SInv /\ ParaInit(code) => SInv'
<1>. SUFFICES ASSUME SInv, ParaInit(code) PROVE SInv'
  OBVIOUS
<1>. DEFINE kept == {t \in Command[code] \cap Saves : ~Running(t)}
<1>1. Typed'
  BY ParaInitTyped DEF SInv
<1>2. /\ UNCHANGED <<eep, ram, boot, job, panel, queue, eepFlg, reported>> /\ boot = "run"
      /\ need' = need \cup Command[code]
      /\ owed' = owed \cup UNION {ToSet(Transfer[t]) : t \in kept}
  BY DEF ParaInit, IIcFun, store, main, pending
<1>3. \A p : Covered(p) => Covered(p)'
  BY <1>2, KeepsAsked DEF Covered, Slot, Queued, Marks
<1>4. ASSUME NEW t \in kept, NEW p \in ToSet(Transfer[t]) PROVE Asked(p)'
  <2>1. t \in need' \cap Writers /\ ~Running(t)'
    BY <1>2, Commands DEF Writers, Tasks, Reads, Saves, Running
  <2> QED BY <2>1 DEF Asked
<1>5. Served'
  BY <1>2, <1>3, <1>4 DEF SInv, Served, Agrees, Covered
<1>6. \A t \in kept : /\ "of" \notin ToSet(Transfer[t]) /\ "rec" \notin ToSet(Transfer[t])
                      /\ "o1" \in ToSet(Transfer[t]) => t = "Wr1000"
  BY PagesOfLists DEF Saves, Transfer
<1>7. Apart'
  BY <1>2, <1>6 DEF SInv, Apart, Running, Agrees
<1> QED BY <1>1, <1>5, <1>7 DEF SInv

LEMMA EditSInv == ASSUME NEW p \in {"o1", "o6"} PROVE SInv /\ Edit(p) => SInv'
<1>. SUFFICES ASSUME SInv, Edit(p) PROVE SInv'
  OBVIOUS
<1>1. Typed'
  BY EditTyped DEF SInv
<1>2. /\ UNCHANGED <<eep, boot, need, job, panel, queue, eepFlg, reported>> /\ boot = "run"
      /\ owed' = owed \ {p} /\ \A q \in Pages : q # p => ram'[q] = ram[q]
  BY DEF Edit, main, tasks, pending, flags, SInv, Typed
<1>3. \A q : Covered(q) => Covered(q)'
  BY <1>2, KeepsAsked DEF Covered, Slot, Queued, Marks
<1>4. Served' /\ Apart'
  BY <1>2, <1>3, AllPages DEF SInv, Typed, Served, Apart, Agrees, Running
<1> QED BY <1>1, <1>4 DEF SInv

LEMMA IIcInterfaceASInv ==
  ASSUME NEW p \in {"user2", "maker2"} PROVE SInv /\ IIcInterfaceA(p) => SInv'
<1>. SUFFICES ASSUME SInv, IIcInterfaceA(p) PROVE SInv'
  OBVIOUS
<1>1. Typed'
  BY IIcInterfaceATyped DEF SInv
<1>2. /\ UNCHANGED <<eep, boot, job, queue, eepFlg, reported>> /\ boot = "run"
      /\ need' = need \cup {"Panel"} /\ panel' = p
      /\ owed' \subseteq owed \cup {p} /\ \A q \in Pages : q # p => ram'[q] = ram[q]
  BY DEF IIcInterfaceA, main, flags, SInv, Typed
<1>3. \A q : Slot(q) => q = p \/ q \notin owed'
  BY DEF IIcInterfaceA, Slot, Taken, SInv, Typed, Jobs
<1>4. Covered(p)'
  BY <1>2 DEF Covered, Slot
<1>5. \A q : Covered(q) /\ ~Slot(q) => Covered(q)'
  BY <1>2, KeepsAsked DEF Covered, Queued, Marks
<1>6. Served' /\ Apart'
  BY <1>1, <1>2, <1>3, <1>4, <1>5, AllPages DEF SInv, Typed, Served, Apart, Agrees, Running
<1> QED BY <1>1, <1>6 DEF SInv

LEMMA IIcInterfaceCSInv == ASSUME NEW p \in {"o6"} PROVE SInv /\ IIcInterfaceC(p) => SInv'
<1>. SUFFICES ASSUME SInv, IIcInterfaceC(p) PROVE SInv'
  OBVIOUS
<1>1. Typed'
  BY IIcInterfaceCTyped DEF SInv
<1>2. /\ UNCHANGED <<eep, boot, need, job, panel, eepFlg, reported>> /\ boot = "run"
      /\ owed' \subseteq owed \cup {p} /\ \A q \in Pages : q # p => ram'[q] = ram[q]
  BY DEF IIcInterfaceC, main, tasks, flags, SInv, Typed
<1>3. CASE QueueFull
  <2>1. queue' = queue /\ owed' = owed \ {p}
    BY <1>3 DEF IIcInterfaceC
  <2>2. \A q : Covered(q) => Covered(q)'
    BY <1>2, <2>1, KeepsAsked DEF Covered, Slot, Queued, Marks
  <2>3. Served' /\ Apart'
    BY <1>1, <1>2, <2>1, <2>2, AllPages DEF SInv, Typed, Served, Apart, Agrees, Running
  <2> QED BY <1>1, <2>3 DEF SInv
<1>4. CASE ~QueueFull
  <2>1. queue' = Append(queue, p)
    BY <1>4 DEF IIcInterfaceC
  <2>2. ToSet(queue) \subseteq ToSet(queue') /\ p \in ToSet(queue')
    BY <2>1, AppendProperties DEF ToSet, SInv, Typed
  <2>3. \A q : Covered(q) \/ q = p => Covered(q)'
    BY <1>2, <2>2, KeepsAsked DEF Covered, Slot, Queued, Marks
  <2>4. Served' /\ Apart'
    BY <1>1, <1>2, <2>3, AllPages DEF SInv, Typed, Served, Apart, Agrees, Running
  <2> QED BY <1>1, <2>4 DEF SInv
<1> QED BY <1>3, <1>4

LEMMA MsgRecordSInv == SInv /\ MsgRecord => SInv'
<1>. SUFFICES ASSUME SInv, MsgRecord PROVE SInv'
  OBVIOUS
<1>1. Typed'
  BY MsgRecordTyped DEF SInv
<1>2. /\ UNCHANGED <<eep, boot, need, job, panel, queue, reported>> /\ boot = "run" /\ eepFlg'
      /\ owed' = IF Running("FaultSave1") THEN owed \ {"rec"} ELSE owed \cup {"rec"}
      /\ \A q \in Pages : q # "rec" => ram'[q] = ram[q]
  BY DEF MsgRecord, main, tasks, pending, SInv, Typed
<1>3. \A q : Covered(q) \/ q = "rec" => Covered(q)'
  BY <1>2, KeepsAsked DEF Covered, Slot, Queued, Marks
<1>4. Served' /\ Apart'
  BY <1>1, <1>2, <1>3, AllPages DEF SInv, Typed, Served, Apart, Agrees, Running
<1> QED BY <1>1, <1>4 DEF SInv

LEMMA NetworkResetSInv == SInv /\ NetworkReset => SInv'
<1>. SUFFICES ASSUME SInv, NetworkReset PROVE SInv'
  OBVIOUS
<1>1. Typed'
  BY NetworkResetTyped DEF SInv
<1>2. /\ UNCHANGED <<eep, ram, boot, job, panel, queue, eepFlg, reported, owed>>
      /\ need \subseteq need'
  BY DEF NetworkReset, store, main, pending, flags, ghosts
<1>3. \A q : Covered(q) => Covered(q)'
  BY <1>2, KeepsAsked DEF Covered, Slot, Queued, Marks
<1>4. Served' /\ Apart'
  BY <1>2, <1>3 DEF SInv, Served, Apart, Agrees, Running
<1> QED BY <1>1, <1>4 DEF SInv

LEMMA FailureSInv == SInv /\ (BusInitErr \/ BusTimeout \/ PowerLoss) => SInv'
<1>. SUFFICES ASSUME SInv, BusInitErr \/ BusTimeout \/ PowerLoss PROVE SInv'
  OBVIOUS
<1>1. Typed'
  BY BusInitErrTyped, BusTimeoutTyped, PowerLossTyped DEF SInv
<1>2. CASE BusTimeout
  <2>1. reported' /\ UNCHANGED <<boot, need, owed>> /\ job'.task = job.task /\ job.begun
    BY <1>2 DEF BusTimeout, Report, main, ghosts, SInv, Typed, Jobs
  <2> QED BY <1>1, <2>1 DEF SInv, Served, Apart, Running
<1>4. CASE BusInitErr
  <2>1. reported' /\ UNCHANGED <<boot, need, job, owed>>
    BY <1>4 DEF BusInitErr, Report, tasks, ghosts
  <2> QED BY <1>1, <2>1 DEF SInv, Served, Apart, Running
<1>3. CASE PowerLoss
  <2>1. owed' = {}
    BY <1>3 DEF PowerLoss
  <2> QED BY <1>1, <2>1 DEF SInv, Served, Apart
<1> QED BY <1>2, <1>3, <1>4

\* A save that was accepted reaches the EEPROM, but for the swallowed ones NoLostSave lists,
\* whatever is asked for and fails in the meantime and for every size of the queue (IIc_TaskSel,
\* the flags of IICFlag, PANEL_Arg and TASKSCI).
THEOREM SavesAreKept == Spec => []NoLostSave
<1>1. Init => SInv
  BY InitSInv
<1>2. SInv /\ [Next]_vars => SInv'
  <2>1. SInv /\ Step => SInv'
    BY TaskSelSInv, BeginSInv, PageStepSInv, FinishSInv, BootSInv, SaveDueSInv, FailureSInv DEF Step
  <2>2. SInv /\ Request => SInv'
    BY ParaInitSInv, EditSInv, IIcInterfaceASInv, IIcInterfaceCSInv, NetworkResetSInv,
       MsgRecordSInv
    DEF Request
  <2>3. SInv /\ UNCHANGED vars => SInv'
    <3>. SUFFICES ASSUME SInv, UNCHANGED vars PROVE SInv'
      OBVIOUS
    <3>1. Typed'
      BY TypedStep DEF SInv
    <3>2. UNCHANGED <<eep, ram, boot, need, job, panel, queue, eepFlg, reported, owed>>
      BY DEF vars, store, main, tasks, pending, flags, ghosts
    <3> QED
      BY <3>1, <3>2 DEF SInv, Served, Apart, Agrees, Covered, Asked, UnderWay, Slot, Queued,
                        Marks, Running
  <2> QED BY <2>1, <2>2, <2>3, FailureSInv DEF Next
<1>3. SInv => NoLostSave
  BY SInvIsNoLostSave
<1> QED BY <1>1, <1>2, <1>3, PTL DEF Spec

(* -- The full reset ------------------------------------------------------- *)

\* The reset is wanted, and its transfer has yet to begin.
Ahead     == ("Reset" \in need /\ ~Running("Reset")) \/ (job.task = "Reset" /\ ~job.begun)
Awaits(t) == (t \in need /\ ~Running(t)) \/ (job.task = t /\ ~job.begun)
Involved(t) == t \in need \/ job.task = t
\* The chain has yet to come to the dictionaries, and will come to them.
Chained   == servoInit /\ (Ahead \/ job.task = "Reset")

CodesRestored ==
  \A p \in resetOwed \cap ToSet(FuncCodes) :
    \/ Ahead
    \/ ram[p] = "fac" /\ (eep[p] = "fac" \/ (Running("Reset") /\ p \in ToSet(job.left)))

O1000Restored ==
  "o1" \in resetOwed /\ ~cut =>
    \/ Chained \/ Awaits("WrFac1000")
    \/ Running("WrFac1000") /\ (job.left # <<>> \/ eep["o1"] = "fac")
    \/ eep["o1"] = "fac" /\ ram["o1"] = "fac"

\* The chain has yet to write 0x6000.
Early == \/ Chained
         \/ servoInit /\ Involved("WrFac1000")
         \/ "WrFac6000" \in need /\ job.task # "WrFac6000"

O6000Restored ==
  "o6" \in resetOwed /\ ~cut =>
    \/ Early \/ Awaits("WrFac6000")
    \/ Running("WrFac6000") /\ job.left # <<>>
    \/ eep["o6"] = "fac"

\* No other write of 0x6000 comes after the chain's: IIc_TaskSel takes 6000Wr first, and later
\* requests are not promised.
O6000Last ==
  "o6" \in resetOwed =>
    /\ "o6" \notin ToSet(queue)
    /\ ~cut /\ (Involved("Wr6000") \/ Running("Sci")) => Early
    /\ ~cut /\ Running("WrFac6000") /\ job.left # <<>> => Early \/ ram["o6"] = "fac"

Restoring ==
  /\ ~reported => CodesRestored /\ O1000Restored /\ O6000Restored /\ O6000Last
  /\ boot # "run" => resetOwed = {}

RInv == Typed /\ Restoring

LEMMA RInvRestores == RInv => ResetRestoresAll
<1>. SUFFICES ASSUME RInv, Quiet, ~reported, ~cut, NEW p \in resetOwed PROVE Restored(p)
  BY DEF ResetRestoresAll
<1>1. /\ need = {} /\ job.task = "none" /\ ~job.begun
      /\ CodesRestored /\ O1000Restored /\ O6000Restored
  BY DEF Quiet, Idle, RInv, Restoring
<1>2. ~Ahead /\ ~Chained /\ ~Early /\ ~Running("Reset") /\ \A t : t # "none" => ~Awaits(t) /\ ~Running(t)
  BY <1>1 DEF Ahead, Chained, Early, Involved, Awaits, Running
<1>3. p \in ToSet(FuncCodes) \/ p = "o1" \/ p = "o6"
  BY AllPages, PagesOfLists DEF RInv, Typed
<1>4. CASE p \in ToSet(FuncCodes)
  BY <1>1, <1>2, <1>4 DEF CodesRestored, Restored
<1>5. CASE p = "o1"
  BY <1>1, <1>2, <1>5 DEF O1000Restored, Restored
<1>6. CASE p = "o6"
  BY <1>1, <1>2, <1>6 DEF O6000Restored, Restored
<1> QED BY <1>3, <1>4, <1>5, <1>6

LEMMA InitRInv == Init => RInv
<1>1. Init => resetOwed = {}
  BY DEF Init
<1> QED
  BY <1>1, InitTyped
  DEF RInv, Restoring, CodesRestored, O1000Restored, O6000Restored, O6000Last

LEMMA TaskSelRInv == RInv /\ TaskSel => RInv'
<1>. SUFFICES ASSUME RInv, TaskSel PROVE RInv'
  OBVIOUS
<1>1. Typed'
  BY TaskSelTyped DEF RInv
<1>2. /\ UNCHANGED <<eep, ram, boot, queue, servoInit, reported, resetOwed, cut>>
      /\ ~job'.begun /\ ~job.begun /\ job.task = "none" /\ need' \subseteq need
  BY Selected DEF TaskSel, Taken, Idle, store, main, pending, flags, ghosts
<1>3. \A t \in need : t \in need' \/ job'.task = t
  BY Selected DEF Taken
<1>4. job'.task \in need \/ job'.task = "Sci"
  BY Selected DEF Taken
<1>5. /\ \A t : ~Running(t)' /\ ~Running(t)
      /\ \A t \in Tasks : /\ Awaits(t) => Awaits(t)'
                          /\ Involved(t) <=> Involved(t)'
  BY <1>2, <1>3, <1>4, AllTasks DEF Awaits, Running, Involved
<1>6. (Ahead => Ahead') /\ (Chained => Chained')
  BY <1>2, <1>3, <1>5 DEF Ahead, Chained
<1>7. "Wr6000" \in need => job'.task # "WrFac6000"
  <2>. SUFFICES ASSUME "Wr6000" \in need, job'.task = "WrFac6000" PROVE FALSE
    OBVIOUS
  <2>1. PICK i \in DOMAIN Priority : /\ job' = Taken(Priority[i])
                                     /\ \A j \in 1..(i - 1) : Priority[j] \notin need
    BY DEF TaskSel, Taken
  <2>2. Priority[i] = "WrFac6000"
    BY <2>1 DEF Taken
  <2>3. i = 13 /\ Priority[11] = "Wr6000"
    BY <2>2 DEF Priority
  <2> QED BY <2>1, <2>3
<1>8. Early => Early' \/ job'.task = "WrFac6000"
  BY <1>2, <1>3, <1>5, <1>6 DEF Early, Tasks
<1>9. CodesRestored => CodesRestored'
  BY <1>2, <1>5, <1>6 DEF CodesRestored
<1>10. O1000Restored => O1000Restored'
  BY <1>2, <1>5, <1>6 DEF O1000Restored, Tasks
<1>11. O6000Restored => O6000Restored'
  BY <1>2, <1>5, <1>8 DEF O6000Restored, Awaits, Tasks
<1>12. O6000Last => O6000Last'
  BY <1>2, <1>3, <1>4, <1>5, <1>7, <1>8 DEF O6000Last, Involved, Tasks
<1> QED BY <1>1, <1>2, <1>9, <1>10, <1>11, <1>12 DEF RInv, Restoring

LEMMA BeginRInv == RInv /\ Begin => RInv'
<1>. SUFFICES ASSUME RInv, Begin PROVE RInv'
  OBVIOUS
<1>. DEFINE t == job.task
<1>1. Typed'
  BY BeginTyped DEF RInv
<1>2. /\ UNCHANGED <<eep, boot, need, servoInit, reported, resetOwed, cut>>
      /\ t \in Works /\ t # "none" /\ ~job.begun /\ job'.task = t /\ job'.begun
      /\ t # "Sci" => queue' = queue
      /\ t \in Tasks => job'.left = Transfer[t]
  BY AllTasks DEF Begin, main, flags, RInv, Typed, Jobs
<1>3. \A p \in Pages : ram'[p] = ram[p] \/ ram'[p] = "fac" \/ p = "o6"
  BY DEF Begin
<1>4. /\ t = "Reset" => \A p \in ToSet(FuncCodes) : ram'[p] = "fac"
      /\ t = "WrFac6000" => ram'["o6"] = "fac"
  <2>1. /\ {"Reset", "WrFac6000"} \subseteq Tasks
        /\ Restores["Reset"] = ToSet(FuncCodes) /\ Restores["WrFac6000"] = {"o6"}
    BY AllTasks, PagesOfLists DEF Restores, Transfer, Tasks
  <2>2. {"o6"} \cup ToSet(FuncCodes) \subseteq Pages
    BY AllPages, PagesOfLists
  <2> QED BY <2>1, <2>2, AllTasks DEF Begin
<1>5. /\ Transfer["Reset"] = FuncCodes /\ Transfer["WrFac1000"] # <<>> /\ Transfer["WrFac6000"] # <<>>
      /\ {"Reset", "WrFac1000", "WrFac6000"} \subseteq Tasks
  BY DEF Transfer, Tasks
<1>6. Ahead => Ahead' \/ (t = "Reset" /\ Running("Reset")' /\ job'.left = FuncCodes)
  BY <1>2, <1>5 DEF Ahead, Running
<1>7. \A u : (Involved(u)' <=> Involved(u)) /\ (Awaits(u) => Awaits(u)' \/ (t = u /\ Running(u)'))
             /\ ~Running(u)
  BY <1>2 DEF Involved, Awaits, Running
<1>8. Chained => Chained'
  BY <1>2, <1>6 DEF Chained, Running
<1>9. Early => Early'
  BY <1>2, <1>7, <1>8 DEF Early
<1>10. ToSet(FuncCodes) \subseteq Pages /\ "o6" \notin ToSet(FuncCodes)
  BY AllPages, PagesOfLists
<1>11. CodesRestored => CodesRestored'
  <2>. SUFFICES ASSUME CodesRestored, ~Ahead', NEW p \in resetOwed \cap ToSet(FuncCodes)
                PROVE ram'[p] = "fac"
                      /\ (eep'[p] = "fac" \/ (Running("Reset")' /\ p \in ToSet(job'.left)))
    BY <1>2 DEF CodesRestored
  <2>1. CASE Ahead
    BY <1>4, <1>6, <2>1
  <2>2. CASE ~Ahead
    BY <1>2, <1>3, <1>7, <1>10, <2>2 DEF CodesRestored
  <2> QED BY <2>1, <2>2
<1>12. O1000Restored => O1000Restored'
  BY <1>2, <1>3, <1>5, <1>7, <1>8, AllPages DEF O1000Restored
<1>13. O6000Restored => O6000Restored'
  BY <1>2, <1>4, <1>5, <1>7, <1>9 DEF O6000Restored
<1>14. O6000Last => O6000Last'
  <2>1. "o6" \notin ToSet(queue) => "o6" \notin ToSet(queue') /\ t # "Sci"
    <3>1. t = "Sci" => queue # <<>>
      BY <1>2 DEF RInv, Typed
    <3>2. queue # <<>> => "o6" \in ToSet(queue)
      BY DEF RInv, Typed, ToSet
    <3> QED BY <1>2, <3>1, <3>2
  <2> QED BY <1>2, <1>4, <1>7, <1>9, <2>1 DEF O6000Last, Running
<1> QED BY <1>1, <1>2, <1>11, <1>12, <1>13, <1>14 DEF RInv, Restoring

LEMMA Writes6000 ==
  ASSUME NEW t \in Works, NEW s \in Lefts(t), s # <<>>, Head(s) = "o6"
  PROVE t \in {"Rd6000", "Wr6000", "WrFac6000", "Sci"}
<1>. DEFINE a == "user" b == "user2" c == "maker" d == "maker2"
<1>1. Head(FuncCodes) = a /\ Head(<<b, c, d>>) = b /\ Head(<<c, d>>) = c /\ Head(<<a, b>>) = a
  BY DEF FuncCodes
<1>2. \A p : Head(<<p>>) = p
  OBVIOUS
<1>3. s \notin {<<>>, FuncCodes, <<b, c, d>>, <<c, d>>, <<a, b>>}
               \cup {<<p>> : p \in {a, b, c, d, "o1", "of", "rec"}}
  BY <1>1, <1>2
<1> QED BY <1>3 DEF Lefts, Works, Tasks

LEMMA PageStepRInv == RInv /\ PageStep => RInv'
<1>. SUFFICES ASSUME RInv, PageStep PROVE RInv'
  OBVIOUS
<1>. DEFINE t == job.task  p == Head(job.left)
<1>1. Typed'
  BY PageStepTyped DEF RInv
<1>2. /\ UNCHANGED <<boot, need, queue, servoInit, reported, resetOwed, cut>>
      /\ t \in Works /\ job.left \in Lefts(t) /\ job.left # <<>> /\ job.begun
      /\ job'.task = t /\ job'.begun /\ job'.left = Tail(job.left) /\ p \in Pages
  BY Pop DEF PageStep, main, pending, flags, ghosts, RInv, Typed, Jobs
<1>3. \A u : /\ Involved(u)' <=> Involved(u)
             /\ Awaits(u)' <=> Awaits(u)
             /\ Running(u)' <=> Running(u)
  BY <1>2 DEF Involved, Awaits, Running
<1>4. (Ahead' <=> Ahead) /\ (Chained' <=> Chained) /\ (Early' <=> Early)
  BY <1>2, <1>3 DEF Ahead, Chained, Early
<1>5. \A q \in Pages : \/ eep'[q] = eep[q] /\ ram'[q] = ram[q]
                       \/ q = p /\ t \in Reads /\ eep'[q] = eep[q] /\ ram'[q] = eep[q]
                       \/ q = p /\ t \notin Reads /\ t # "WrFull" /\ ram'[q] = ram[q]
                          /\ eep'[q] = (IF t = "WrFac1000" THEN "fac" ELSE ram[q])
                       \/ q = p /\ q = "of"
  <2>1. t = "WrFull" => p = "of"
    <3>1. t = "WrFull" => job.left = <<"of">>
      BY <1>2 DEF Lefts
    <3> QED BY <3>1
  <2>2. CASE t \in Reads
    BY <1>2, <2>2 DEF PageStep, RInv, Typed
  <2>3. CASE t \notin Reads
    BY <1>2, <2>1, <2>3 DEF PageStep, RInv, Typed
  <2> QED BY <2>2, <2>3
<1>6. \A q \in ToSet(job.left) : q = p \/ q \in ToSet(Tail(job.left))
  BY <1>2, Rest
<1>7. ToSet(FuncCodes) \subseteq Pages /\ "of" \notin ToSet(FuncCodes) /\ {"o1", "o6"} \subseteq Pages
  BY AllPages, PagesOfLists
<1>8. CodesRestored => CodesRestored'
  <2>. SUFFICES ASSUME CodesRestored, ~Ahead, NEW q \in resetOwed \cap ToSet(FuncCodes)
                PROVE ram'[q] = "fac"
                      /\ (eep'[q] = "fac" \/ (Running("Reset")' /\ q \in ToSet(job'.left)))
    BY <1>2, <1>4 DEF CodesRestored
  <2>1. ram[q] = "fac" /\ (eep[q] = "fac" \/ (Running("Reset") /\ q \in ToSet(job.left)))
    BY DEF CodesRestored
  <2>2. Running("Reset") => t \notin Reads
    BY DEF Running, Reads
  <2>3. q \in Pages /\ q # "of" /\ job'.left = Tail(job.left)
    BY <1>2, <1>7
  <2>4. ram'[q] = "fac"
    BY <1>5, <2>1, <2>2, <2>3
  <2>5. eep[q] = "fac" => eep'[q] = "fac"
    BY <1>5, <2>1, <2>3
  <2>6. CASE Running("Reset") /\ q \in ToSet(job.left)
    <3>1. q = p \/ q \in ToSet(job'.left)
      BY <1>6, <2>3, <2>6
    <3>2. t = "Reset" /\ t \notin Reads
      BY <2>2, <2>6 DEF Running
    <3>3. eep'[p] = ram[p]
      BY <1>2, <3>2 DEF PageStep, RInv, Typed
    <3> QED BY <1>3, <2>1, <2>4, <2>6, <3>1, <3>3
  <2> QED BY <2>1, <2>4, <2>5, <2>6
<1>9. O1000Restored => O1000Restored'
  <2>1. Running("WrFac1000") => p = "o1" /\ t \notin Reads /\ eep'["o1"] = "fac"
    <3>1. Running("WrFac1000") => job.left = <<"o1">>
      BY <1>2 DEF Lefts, Running
    <3>2. Running("WrFac1000") => p = "o1" /\ t \notin Reads /\ t # "WrFull"
      BY <3>1 DEF Running, Reads
    <3> QED BY <3>2, <1>7 DEF PageStep, Running, RInv, Typed
  <2> QED BY <1>2, <1>3, <1>4, <1>5, <1>7, <2>1 DEF O1000Restored
<1>10. p = "o6" /\ t \notin Reads => Involved("Wr6000") \/ Running("Sci") \/ Running("WrFac6000")
  BY <1>2, Writes6000 DEF Involved, Running, Reads
<1>11. O6000Restored /\ O6000Last => O6000Restored'
  <2>. SUFFICES ASSUME O6000Restored, O6000Last, "o6" \in resetOwed, ~cut, ~Early, ~Awaits("WrFac6000")
                PROVE eep'["o6"] = "fac"
    BY <1>2, <1>3, <1>4 DEF O6000Restored
  <2>1. CASE Running("WrFac6000")
    <3>1. ram["o6"] = "fac"
      BY <1>2, <2>1 DEF O6000Last
    <3>2. job.left = <<"o6">>
      BY <1>2, <2>1 DEF Running, Lefts
    <3>3. p = "o6" /\ t \notin Reads
      BY <2>1, <3>2 DEF Running, Reads
    <3> QED BY <1>7, <2>1, <3>1, <3>3 DEF PageStep, Running, RInv, Typed
  <2>2. CASE ~Running("WrFac6000")
    <3>1. eep["o6"] = "fac"
      BY <2>2 DEF O6000Restored
    <3>2. ~(p = "o6" /\ t \notin Reads)
      BY <1>10, <2>2 DEF O6000Last
    <3> QED BY <1>5, <1>7, <3>1, <3>2
  <2> QED BY <2>1, <2>2
<1>12. O6000Last => O6000Last'
  <2>1. Running("WrFac6000") => t \notin Reads
    BY DEF Running, Reads
  <2>2. Running("WrFac6000") => ram'["o6"] = ram["o6"]
    BY <2>1 DEF PageStep
  <2> QED BY <1>2, <1>3, <1>4, <2>2 DEF O6000Last
<1> QED BY <1>1, <1>2, <1>8, <1>9, <1>11, <1>12 DEF RInv, Restoring

LEMMA FinishRInv == RInv /\ Finish => RInv'
<1>. SUFFICES ASSUME RInv, Finish PROVE RInv'
  OBVIOUS
<1>. DEFINE t == job.task
<1>1. Typed'
  BY FinishTyped DEF RInv
<1>2. /\ UNCHANGED <<eep, boot, queue, reported, resetOwed>>
      /\ job.begun /\ job.left = <<>> /\ job'.task = "none" /\ ~job'.begun
      /\ servoInit' = (servoInit /\ t # "FaultSave1")
      /\ cut' = (cut \/ (t = "FaultSave1" /\ need \cap {"Reset", "WrFac1000"} # {}))
      /\ \A p \in Pages : p # "o1" => ram'[p] = ram[p]
      /\ ram'["o1"] = IF t = "WrFac1000" THEN "fac" ELSE ram["o1"]
  BY AllPages DEF Finish, Idle, pending, RInv, Typed
<1>3. /\ \A u \in need : u # t => u \in need'
      /\ \A u \in need' : u \in need \/ u \in After(t)
      /\ After(t) \subseteq need'
  BY DEF Finish, ClearedAtEnd
<1>4. /\ t = "Reset" /\ servoInit => "WrFac1000" \in need'
      /\ t = "WrFac1000" /\ servoInit => "WrFac6000" \in need'
      /\ "Wr6000" \notin After(t)
  BY <1>3, AllTasks DEF After, InitChain, ReadChain, Tasks
<1>5. \A u : /\ Running(u) <=> t = u
             /\ ~Running(u)'
             /\ Awaits(u)' <=> u \in need' \/ u = "none"
             /\ Involved(u)' <=> u \in need' \/ u = "none"
             /\ Awaits(u) => u \in need /\ u # t
  BY <1>2 DEF Running, Awaits, Involved
<1>6. Ahead => Ahead'
  BY <1>2, <1>3, <1>5 DEF Ahead
<1>7. Chained => Chained' \/ cut' \/ ("WrFac1000" \in need' /\ servoInit')
  BY <1>2, <1>3, <1>4, <1>5, <1>6 DEF Chained, Ahead
<1>8. Early => Early' \/ cut'
  <2>1. CASE Chained
    BY <1>5, <1>7, <2>1 DEF Early
  <2>2. CASE servoInit /\ Involved("WrFac1000")
    BY <1>2, <1>3, <1>4, <1>5, <2>2 DEF Early, Involved
  <2>3. CASE "WrFac6000" \in need /\ t # "WrFac6000"
    BY <1>2, <1>3, <2>3 DEF Early
  <2> QED BY <2>1, <2>2, <2>3 DEF Early
<1>9. CodesRestored => CodesRestored'
  <2>1. ToSet(FuncCodes) \subseteq Pages /\ "o1" \notin ToSet(FuncCodes) /\ ToSet(job.left) = {}
    BY <1>2, AllPages, PagesOfLists
  <2> QED BY <1>2, <1>6, <2>1 DEF CodesRestored
<1>10. O1000Restored => O1000Restored'
  BY <1>2, <1>3, <1>5, <1>7 DEF O1000Restored
<1>11. O6000Restored => O6000Restored'
  BY <1>2, <1>3, <1>5, <1>8 DEF O6000Restored
<1>12. O6000Last => O6000Last'
  BY <1>2, <1>3, <1>4, <1>5, <1>8 DEF O6000Last, Involved
<1> QED BY <1>1, <1>2, <1>9, <1>10, <1>11, <1>12 DEF RInv, Restoring

LEMMA BootRInv == RInv /\ (BootCheck \/ InitDone \/ BootTimeout) => RInv'
<1>. SUFFICES ASSUME RInv, BootCheck \/ InitDone \/ BootTimeout PROVE RInv'
  OBVIOUS
<1>1. Typed'
  BY BootCheckTyped, InitDoneTyped, BootTimeoutTyped DEF RInv
<1>2. boot # "run" /\ resetOwed' = resetOwed
  BY DEF BootCheck, InitDone, BootTimeout, ghosts
<1>3. resetOwed' = {}
  BY <1>2 DEF RInv, Restoring
<1> QED
  BY <1>1, <1>3 DEF RInv, Restoring, CodesRestored, O1000Restored, O6000Restored, O6000Last

\* A request that leaves the task under way and the promised pages alone, and orders no save of
\* 0x6000.
LEMMA KeepsRestoring ==
  ASSUME RInv, Typed',
         UNCHANGED <<eep, boot, job, servoInit, reported, cut>>, need \subseteq need',
         resetOwed' \subseteq resetOwed, \A q \in resetOwed' : ram'[q] = ram[q],
         "o6" \in resetOwed' => queue' = queue /\ ("Wr6000" \in need' => "Wr6000" \in need)
  PROVE  RInv'
<1>1. \A t : /\ Running(t)' <=> Running(t)
             /\ Awaits(t) => Awaits(t)'
             /\ Involved(t) => Involved(t)'
  BY DEF Running, Awaits, Involved
<1>2. (Ahead => Ahead') /\ (Chained => Chained') /\ (Early => Early')
  BY <1>1 DEF Ahead, Chained, Early
<1>3. CodesRestored => CodesRestored'
  BY <1>1, <1>2 DEF CodesRestored
<1>4. O1000Restored => O1000Restored'
  BY <1>1, <1>2 DEF O1000Restored
<1>5. O6000Restored => O6000Restored'
  BY <1>1, <1>2 DEF O6000Restored
<1>6. O6000Last => O6000Last'
  BY <1>1, <1>2 DEF O6000Last, Involved
<1> QED BY <1>3, <1>4, <1>5, <1>6 DEF RInv, Restoring

LEMMA ParaInitRInv == ASSUME NEW code \in DOMAIN Command PROVE RInv /\ ParaInit(code) => RInv'
<1>. SUFFICES ASSUME RInv, ParaInit(code) PROVE RInv'
  OBVIOUS
<1>1. Typed'
  BY ParaInitTyped DEF RInv
<1>2. /\ UNCHANGED <<eep, ram, boot, job, queue, reported>> /\ boot = "run"
      /\ need' = need \cup Command[code]
      /\ servoInit' = (servoInit \/ code = "code0xFFFD")
      /\ cut' = (cut /\ code # "code0xFFFD")
      /\ resetOwed' = IF code = "code0xFFFD" /\ ~Running("Reset") THEN Resets \ ToSet(queue)
                      ELSE resetOwed \ (IF "Wr6000" \in Command[code] THEN {"o6"} ELSE {})
  BY DEF ParaInit, IIcFun, store, main, pending
<1>3. CASE code # "code0xFFFD"
  <2>1. servoInit' = servoInit /\ cut' = cut
    BY <1>2, <1>3 DEF RInv, Typed
  <2> QED BY <1>1, <1>2, <1>3, <2>1, KeepsRestoring
<1>4. CASE code = "code0xFFFD"
  <2>1. servoInit' /\ "Reset" \in need' /\ "Wr6000" \notin Command[code]
    BY <1>2, <1>4 DEF Command
  <2>2. Running("Reset")' <=> Running("Reset")
    BY <1>2 DEF Running
  <2>3. Chained' /\ Early' /\ (~Running("Reset") => Ahead')
    BY <1>2, <2>1, <2>2 DEF Chained, Early, Ahead, Running
  <2>4. Running("Reset") => ~Ahead
    BY DEF Ahead, Running
  <2>5. CodesRestored => CodesRestored'
    BY <1>2, <1>4, <2>1, <2>2, <2>3, <2>4 DEF CodesRestored
  <2>6. O6000Last => O6000Last'
    BY <1>2, <1>4, <2>1, <2>3 DEF O6000Last
  <2> QED
    BY <1>1, <1>2, <2>3, <2>5, <2>6 DEF RInv, Restoring, O1000Restored, O6000Restored
<1> QED BY <1>3, <1>4

LEMMA RequestRInv == RInv /\ (SaveDue \/ Request \/ UNCHANGED vars) => RInv'
<1>. SUFFICES ASSUME RInv, SaveDue \/ Request \/ UNCHANGED vars PROVE RInv'
  OBVIOUS
<1>1. Typed /\ resetOwed \subseteq Pages
  BY AllPages DEF RInv, Typed
<1>2. CASE SaveDue
  BY <1>1, <1>2, SaveDueTyped, KeepsRestoring DEF SaveDue, store, main, pending, ghosts
<1>3. CASE \E code \in DOMAIN Command : ParaInit(code)
  BY <1>3, ParaInitRInv
<1>4. ASSUME NEW p \in {"o1", "o6"}, Edit(p) PROVE RInv'
  <2>1. /\ UNCHANGED <<eep, boot, need, job, queue, servoInit, reported, cut>>
        /\ resetOwed' = resetOwed \ {p} /\ \A q \in Pages : q # p => ram'[q] = ram[q]
    BY <1>1, <1>4 DEF Edit, main, tasks, pending, flags, Typed
  <2> QED BY <1>1, <1>4, <2>1, EditTyped, KeepsRestoring
<1>5. ASSUME NEW p \in {"user2", "maker2"}, IIcInterfaceA(p) PROVE RInv'
  <2>1. /\ UNCHANGED <<eep, boot, job, queue, servoInit, reported, cut>>
        /\ need' = need \cup {"Panel"}
        /\ resetOwed' = resetOwed \ {p} /\ \A q \in Pages : q # p => ram'[q] = ram[q]
    BY <1>1, <1>5 DEF IIcInterfaceA, main, flags, Typed
  <2> QED BY <1>1, <1>5, <2>1, IIcInterfaceATyped, KeepsRestoring
<1>6. ASSUME IIcInterfaceC("o6") PROVE RInv'
  <2>1. /\ UNCHANGED <<eep, boot, need, job, servoInit, reported, cut>>
        /\ resetOwed' = resetOwed \ {"o6"} /\ \A q \in Pages : q # "o6" => ram'[q] = ram[q]
    BY <1>1, <1>6 DEF IIcInterfaceC, main, tasks, flags, Typed
  <2> QED BY <1>1, <1>6, <2>1, IIcInterfaceCTyped, KeepsRestoring
<1>7. CASE NetworkReset
  <2>1. /\ UNCHANGED <<eep, ram, boot, job, queue, servoInit, reported, cut, resetOwed>>
        /\ need' = need \cup {"Rd1000"}
    BY <1>7 DEF NetworkReset, store, main, pending, flags, ghosts
  <2> QED BY <1>1, <1>7, <2>1, NetworkResetTyped, KeepsRestoring
<1>8. CASE MsgRecord
  <2>1. /\ UNCHANGED <<eep, boot, need, job, queue, servoInit, reported, cut, resetOwed>>
        /\ \A q \in Pages : q # "rec" => ram'[q] = ram[q]
    BY <1>1, <1>8 DEF MsgRecord, main, tasks, pending, Typed
  <2>2. "rec" \notin resetOwed
    BY <1>1, AllPages DEF Typed
  <2> QED BY <1>1, <1>8, <2>1, <2>2, MsgRecordTyped, KeepsRestoring
<1>9. CASE UNCHANGED vars
  <2>1. Typed'
    BY <1>1, <1>9, TypedStep
  <2>2. UNCHANGED <<eep, ram, boot, need, job, queue, servoInit, reported, cut, resetOwed>>
    BY <1>9 DEF vars, store, main, tasks, pending, flags, ghosts
  <2> QED BY <2>1, <2>2, KeepsRestoring
<1> QED BY <1>2, <1>3, <1>4, <1>5, <1>6, <1>7, <1>8, <1>9 DEF Request

LEMMA FailureRInv == RInv /\ (BusInitErr \/ BusTimeout \/ PowerLoss) => RInv'
<1>. SUFFICES ASSUME RInv, BusInitErr \/ BusTimeout \/ PowerLoss PROVE RInv'
  OBVIOUS
<1>1. Typed'
  BY BusInitErrTyped, BusTimeoutTyped, PowerLossTyped DEF RInv
<1>2. CASE BusInitErr \/ BusTimeout
  <2>1. reported' /\ UNCHANGED <<boot, resetOwed>>
    BY <1>2 DEF BusInitErr, BusTimeout, Report, main, ghosts
  <2> QED BY <1>1, <2>1 DEF RInv, Restoring
<1>3. CASE PowerLoss
  <2>1. resetOwed' = {}
    BY <1>3 DEF PowerLoss
  <2> QED
    BY <1>1, <2>1 DEF RInv, Restoring, CodesRestored, O1000Restored, O6000Restored, O6000Last
<1> QED BY <1>2, <1>3

\* A full reset restores every area, in the EEPROM and live, but for the pages ResetRestoresAll
\* excepts, whatever is asked for and fails meanwhile (ParaInit 0xfffD, the chain of the tasks
\* IIC_TASK_RESET, 1000UpWrFac, 6000UpWrFac of SV_I2c.c).
THEOREM ResetIsComplete == Spec => []ResetRestoresAll
<1>1. Init => RInv
  BY InitRInv
<1>2. RInv /\ [Next]_vars => RInv'
  BY TaskSelRInv, BeginRInv, PageStepRInv, FinishRInv, BootRInv, RequestRInv, FailureRInv
  DEF Next, Step
<1>3. RInv => ResetRestoresAll
  BY RInvRestores
<1> QED BY <1>1, <1>2, <1>3, PTL DEF Spec

(* -- The store comes to rest -------------------------------------------------- *)

\* The tasks asked for and the one that runs.
Open == need \cup {job.task}
Weight(t, w) == IF t \in Open THEN w ELSE 0

\* How many tasks each of these may still lead to, itself included.
InitWork ==
  Weight("FacWrite", 5) + Weight("Reset", 5) + Weight("WrFac1000", 4) + Weight("WrFac6000", 3)
    + Weight("WrFull", 2) + Weight("FaultSave1", 1)
ReadWork == Weight("PURead", 4) + Weight("Rd1000", 3) + Weight("Rd6000", 2) + Weight("FaultRead", 1)
SaveWork ==
  Weight("DefWrite", 1) + Weight("FaultClr", 1) + Weight("Wr1000", 1) + Weight("Wr6000", 1)
    + Weight("SaveUser", 1) + Weight("SaveMaker", 1)
\* The panel's slot and the queue may be asked for again while they are served.
PanelWork == (IF "Panel" \in need THEN 1 ELSE 0) + (IF job.task = "Panel" THEN 1 ELSE 0)
QueueWork == Len(queue) + (IF job.task = "Sci" /\ job.begun THEN 1 ELSE 0)
\* Each reading of everything, the initialisation and the report at the end of a power-up.
BootWork ==
  CASE boot = "read" -> 9 + 5 * (3 - tries)
    [] boot = "init" -> 3
    [] boot = "run" -> 0
\* records to be saved, and the one a stuck bus will make
RecordWork == (IF eepFlg THEN 2 ELSE 0) + (IF bus = "stuck" THEN 3 ELSE 0)

Load == InitWork + ReadWork + SaveWork + PanelWork + QueueWork + BootWork + RecordWork
\* Where the running task is: chosen next, to begin, and its pages.
Phase == IF job.task = "none" THEN 9 ELSE IF ~job.begun THEN 8 ELSE Len(job.left)
Rank == 10 * Load + Phase

\* Between two requests or failures the store does a bounded amount of work: every step of
\* the 1 ms interrupt, of the bus and of the waiting main program uses some of it up; no
\* chain of tasks leads back to a task before it, and none asks for itself (IIc_TaskSel).
StepsRunOut == [][ Step => Rank' < Rank ]_vars

\* What is left to do is always finite.
WorkIsFinite == Rank \in Nat

\* A power-up never waits for nothing: with no task asked for and none running, the waiting
\* main program goes on, unless the bus has failed and its time limit ends the wait.  On a
\* stuck bus it waits for nothing but the read of everything, whose time limit ends the wait,
\* and once it has gone on the fault is raised.
PowerUpGoesOn ==
  /\ need = {} /\ job = Idle => /\ boot = "read" => ~allRead \/ i2cErr
                                /\ boot = "init" => ~servoInit
  /\ bus # "ok" => (boot = "read" /\ allRead) \/ (boot = "run" /\ reported)

LEMMA LeftLengths ==
  ASSUME NEW t \in Works, NEW s \in Lefts(t)
  PROVE  Len(s) \in 0..4 /\ (s # <<>> => Len(Tail(s)) = Len(s) - 1)
<1>. DEFINE a == "user" b == "user2" c == "maker" d == "maker2"
<1>1. /\ Len(FuncCodes) = 4 /\ Len(Tail(FuncCodes)) = 3
      /\ Len(<<b, c, d>>) = 3 /\ Len(Tail(<<b, c, d>>)) = 2
      /\ Len(<<c, d>>) = 2 /\ Len(Tail(<<c, d>>)) = 1
      /\ Len(<<a, b>>) = 2 /\ Len(Tail(<<a, b>>)) = 1
      /\ Len(<<>>) = 0
  BY DEF FuncCodes
<1>2. \A p : Len(<<p>>) = 1 /\ Len(Tail(<<p>>)) = 0
  OBVIOUS
<1>3. s \in {<<>>, FuncCodes, <<b, c, d>>, <<c, d>>, <<a, b>>} \cup {<<p>> : p \in Pages}
  BY AllPages DEF Lefts, Works, Tasks
<1> QED BY <1>1, <1>2, <1>3

LEMMA PhaseRange == Typed => Phase \in 0..9
BY LeftLengths DEF Typed, Jobs, Phase

LEMMA WorkTyped ==
  ASSUME Typed
  PROVE  /\ InitWork \in Nat /\ ReadWork \in Nat /\ SaveWork \in Nat /\ PanelWork \in Nat
         /\ QueueWork \in Nat /\ BootWork \in Nat /\ RecordWork \in Nat /\ Load \in Nat
<1>1. InitWork \in Nat /\ ReadWork \in Nat /\ SaveWork \in Nat /\ PanelWork \in Nat /\ RecordWork \in Nat
  BY DEF InitWork, ReadWork, SaveWork, PanelWork, RecordWork, Weight
<1>2. QueueWork \in Nat
  BY DEF Typed, QueueWork
<1>3. BootWork \in Nat
  BY DEF Typed, BootWork
<1> QED BY <1>1, <1>2, <1>3 DEF Load

LEMMA SumOfSeven == \A a, b, c, d, e, f, g \in Nat : a + b + c + d + e + f + g \in Nat
OBVIOUS

LEMMA WorkTypedNext ==
  ASSUME Typed'
  PROVE  /\ InitWork' \in Nat /\ ReadWork' \in Nat /\ SaveWork' \in Nat /\ PanelWork' \in Nat
         /\ QueueWork' \in Nat /\ BootWork' \in Nat /\ RecordWork' \in Nat /\ Load' \in Nat
<1>1. InitWork' \in Nat /\ ReadWork' \in Nat /\ SaveWork' \in Nat /\ PanelWork' \in Nat /\ RecordWork' \in Nat
  BY DEF InitWork, ReadWork, SaveWork, PanelWork, RecordWork, Weight
<1>2. QueueWork' \in Nat
  BY DEF Typed, QueueWork
<1>3. BootWork' \in Nat
  BY DEF Typed, BootWork
<1>4. Load' = InitWork' + ReadWork' + SaveWork' + PanelWork' + QueueWork' + BootWork' + RecordWork'
  BY DEF Load
<1> QED BY <1>1, <1>2, <1>3, <1>4, SumOfSeven, ZenonT(60)

LEMMA PhaseRangeNext == Typed' => Phase' \in 0..9
BY LeftLengths DEF Typed, Jobs, Phase

LEMMA DigitsCompare ==
  \A a, b \in Nat, p, q \in 0..9 :
    /\ a < b => 10 * a + p < 10 * b + q
    /\ a <= b /\ p < q => 10 * a + p < 10 * b + q
OBVIOUS

\* A step that does part of the work, and one that brings the running task on.
LEMMA LessWork == ASSUME Typed, Typed', Load' < Load PROVE Rank' < Rank
<1>1. Load \in Nat /\ Load' \in Nat /\ Phase \in 0..9 /\ Phase' \in 0..9
  BY WorkTyped, WorkTypedNext, PhaseRange, PhaseRangeNext
<1>2. Rank = 10 * Load + Phase /\ Rank' = 10 * Load' + Phase'
  BY DEF Rank
<1> QED BY <1>1, <1>2, DigitsCompare, ZenonT(60)

LEMMA LaterPhase == ASSUME Typed, Typed', Load' <= Load, Phase' < Phase PROVE Rank' < Rank
<1>1. Load \in Nat /\ Load' \in Nat /\ Phase \in 0..9 /\ Phase' \in 0..9
  BY WorkTyped, WorkTypedNext, PhaseRange, PhaseRangeNext
<1>2. Rank = 10 * Load + Phase /\ Rank' = 10 * Load' + Phase'
  BY DEF Rank
<1> QED BY <1>1, <1>2, DigitsCompare, ZenonT(60)

\* No task opened, no more work; one task opened, the work it leads to.
LEMMA NothingOpened ==
  ASSUME Open' \cap Tasks \subseteq Open
  PROVE  InitWork' <= InitWork /\ ReadWork' <= ReadWork /\ SaveWork' <= SaveWork
<1>1. \A t \in Tasks : t \in Open' => t \in Open
  OBVIOUS
<1>2. InitWork' <= InitWork
  BY <1>1 DEF InitWork, Weight, Tasks
<1>3. ReadWork' <= ReadWork
  BY <1>1 DEF ReadWork, Weight, Tasks
<1>4. SaveWork' <= SaveWork
  BY <1>1 DEF SaveWork, Weight, Tasks
<1> QED BY <1>2, <1>3, <1>4

LEMMA OneOpened ==
  ASSUME NEW u \in {"PURead", "FacWrite", "FaultSave1"}, Open' \cap Tasks \subseteq Open \cup {u}
  PROVE  /\ InitWork' <= InitWork + (CASE u = "FacWrite" -> 5 [] u = "FaultSave1" -> 1 [] u = "PURead" -> 0)
         /\ ReadWork' <= ReadWork + (IF u = "PURead" THEN 4 ELSE 0)
         /\ SaveWork' <= SaveWork
<1>1. \A t \in Tasks : t \in Open' => t \in Open \/ t = u
  OBVIOUS
<1>2. InitWork' <= InitWork + (CASE u = "FacWrite" -> 5 [] u = "FaultSave1" -> 1 [] u = "PURead" -> 0)
  BY <1>1 DEF InitWork, Weight, Tasks
<1>3. ReadWork' <= ReadWork + (IF u = "PURead" THEN 4 ELSE 0)
  BY <1>1 DEF ReadWork, Weight, Tasks
<1>4. SaveWork' <= SaveWork
  BY <1>1 DEF SaveWork, Weight, Tasks
<1> QED BY <1>2, <1>3, <1>4

LEMMA TaskSelRuns == ASSUME Typed, Typed', TaskSel PROVE Rank' < Rank
<1>1. Open' \cap Tasks \subseteq Open
  BY Selected, AllTasks DEF Open, Taken
<1>2. PanelWork' <= PanelWork
  <2>1. CASE \E i \in DOMAIN Priority : /\ Priority[i] \in need /\ job' = Taken(Priority[i])
                                        /\ need' = need \ ({Priority[i]} \cap ClearedWhenTaken)
    <3>1. PICK q \in need : job' = Taken(q) /\ need' = need \ ({q} \cap ClearedWhenTaken)
      BY <2>1
    <3>2. CASE q = "Panel"
      BY <3>1, <3>2 DEF PanelWork, Taken, ClearedWhenTaken
    <3>3. CASE q # "Panel"
      BY <3>1, <3>3 DEF PanelWork, Taken
    <3> QED BY <3>2, <3>3
  <2>2. CASE job' = Taken("Sci") /\ UNCHANGED need
    BY <2>2 DEF PanelWork, Taken
  <2> QED BY <2>1, <2>2 DEF TaskSel
<1>3. QueueWork' = QueueWork /\ BootWork' = BootWork /\ RecordWork' = RecordWork
  BY Selected DEF TaskSel, QueueWork, BootWork, RecordWork, Idle, Taken, main, pending, flags
<1>4. Load' <= Load
  BY <1>1, <1>2, <1>3, NothingOpened, WorkTyped, WorkTypedNext DEF Load
<1>5. Phase = 9 /\ Phase' = 8
  BY Selected, AllTasks DEF Phase, Idle, Taken, Typed
<1> QED BY <1>4, <1>5, LaterPhase

LEMMA BeginRuns == ASSUME Typed, Typed', Begin PROVE Rank' < Rank
<1>1. /\ UNCHANGED <<need, boot, tries, eepFlg, bus>> /\ job'.task = job.task /\ job'.begun /\ ~job.begun
      /\ job.task # "none"
      /\ (queue' = IF job.task = "Sci" THEN Tail(queue) ELSE queue)
  BY DEF Begin, Typed, Jobs, main, flags
<1>2. Open' \cap Tasks \subseteq Open
  BY <1>1 DEF Open
<1>3. PanelWork' = PanelWork /\ BootWork' = BootWork /\ RecordWork' = RecordWork
  BY <1>1 DEF PanelWork, BootWork, RecordWork
<1>4. QueueWork' = QueueWork
  BY <1>1, QueueOfOne DEF QueueWork, Typed
<1>5. Load' <= Load
  BY <1>2, <1>3, <1>4, NothingOpened, WorkTyped, WorkTypedNext DEF Load
<1>6. Phase = 8 /\ Phase' \in 0..4
  BY <1>1, LeftLengths DEF Phase, Typed, Jobs
<1> QED BY <1>5, <1>6, LaterPhase

LEMMA PageStepRuns == ASSUME Typed, Typed', PageStep PROVE Rank' < Rank
<1>1. /\ UNCHANGED <<need, queue, boot, tries, eepFlg, bus>> /\ job'.task = job.task
      /\ job'.begun = job.begun /\ job.begun /\ job'.left = Tail(job.left) /\ job.left # <<>>
      /\ job.task # "none"
  BY DEF PageStep, Typed, Jobs, main, pending, flags
<1>2. Open' \cap Tasks \subseteq Open
  BY <1>1 DEF Open
<1>3. PanelWork' = PanelWork /\ QueueWork' = QueueWork /\ BootWork' = BootWork /\ RecordWork' = RecordWork
  BY <1>1 DEF PanelWork, QueueWork, BootWork, RecordWork
<1>4. Load' <= Load
  BY <1>2, <1>3, NothingOpened, WorkTyped, WorkTypedNext DEF Load
<1>5. Phase' < Phase
  BY <1>1, LeftLengths DEF Phase, Typed, Jobs
<1> QED BY <1>4, <1>5, LaterPhase

\* What the end of a task asks for lies after it in its chain.
LEMMA Successors ==
  /\ After("PURead") \subseteq {"Rd1000"} /\ After("Rd1000") \subseteq {"Rd6000"}
  /\ After("Rd6000") \subseteq {"FaultRead"} /\ After("WrFac6000") \subseteq {"WrFull"}
  /\ After("FacWrite") \subseteq {"WrFac1000"} /\ After("Reset") \subseteq {"WrFac1000"}
  /\ After("WrFac1000") \subseteq {"WrFac6000"} /\ After("WrFull") \subseteq {"FaultSave1"}
  /\ \A t \in Works \ {"PURead", "Rd1000", "Rd6000", "WrFac6000", "FacWrite", "Reset", "WrFac1000", "WrFull"} :
       After(t) = {}
BY DEF After, ReadChain, InitChain

LEMMA FinishRuns == ASSUME Typed, Typed', Finish PROVE Rank' < Rank
<1>. DEFINE t == job.task
<1>1. /\ t \in Works \ {"none"} /\ job.begun /\ job'.task = "none"
      /\ need' = (need \ ClearedAtEnd(t)) \cup After(t)
      /\ UNCHANGED <<queue, boot, tries, bus>> /\ (eepFlg' => eepFlg)
  BY DEF Finish, Idle, Typed, Jobs, pending
<1>2. BootWork' = BootWork /\ RecordWork' <= RecordWork
  BY <1>1 DEF BootWork, RecordWork
<1>3. CASE t \in Tasks
  <2>1. t \in Open /\ \A u \in Tasks : u \in Open' => (u \in Open /\ u # t) \/ u \in After(t)
    BY <1>1, <1>3 DEF Open, ClearedAtEnd, Tasks
  <2>2. PanelWork' = PanelWork /\ QueueWork' = QueueWork
    <3>1. "Panel" \notin After(t)
      BY AllTasks DEF After
    <3> QED BY <1>1, <1>3, <3>1, AllTasks DEF PanelWork, QueueWork, ClearedAtEnd
  <2>3. InitWork' <= InitWork /\ ReadWork' <= ReadWork /\ SaveWork' <= SaveWork
          /\ InitWork' + ReadWork' + SaveWork' < InitWork + ReadWork + SaveWork
    <3> USE <2>1, Successors DEF Weight, Tasks
    <3>1. CASE t \in {"FacWrite", "Reset", "WrFac1000", "WrFac6000", "WrFull", "FaultSave1"}
      <4>1. After(t) \subseteq {"WrFac1000", "WrFac6000", "WrFull", "FaultSave1"}
        BY <3>1 DEF Works
      <4>2. ReadWork' <= ReadWork /\ SaveWork' <= SaveWork
        BY <3>1, <4>1 DEF ReadWork, SaveWork
      <4>3. InitWork' < InitWork
        BY <3>1 DEF InitWork, Works
      <4> QED BY <4>2, <4>3, WorkTyped, WorkTypedNext
    <3>2. CASE t \in {"PURead", "Rd1000", "Rd6000", "FaultRead"}
      <4>1. After(t) \subseteq {"Rd1000", "Rd6000", "FaultRead"}
        BY <3>2 DEF Works
      <4>2. InitWork' <= InitWork /\ SaveWork' <= SaveWork
        BY <3>2, <4>1 DEF InitWork, SaveWork
      <4>3. ReadWork' < ReadWork
        BY <3>2 DEF ReadWork, Works
      <4> QED BY <4>2, <4>3, WorkTyped, WorkTypedNext
    <3>3. CASE t \in {"DefWrite", "FaultClr", "Wr1000", "Wr6000", "SaveUser", "SaveMaker"}
      <4>1. After(t) = {}
        BY <3>3 DEF Works
      <4>2. InitWork' <= InitWork /\ ReadWork' <= ReadWork
        BY <3>3, <4>1 DEF InitWork, ReadWork
      <4>3. SaveWork' < SaveWork
        BY <3>3, <4>1 DEF SaveWork
      <4> QED BY <4>2, <4>3, WorkTyped, WorkTypedNext
    <3> QED BY <1>3, <3>1, <3>2, <3>3
  <2> QED BY <1>2, <2>2, <2>3, WorkTyped, WorkTypedNext, LessWork DEF Load
<1>4. CASE t \in {"Panel", "Sci"}
  <2>1. After(t) = {} /\ ClearedAtEnd(t) = {}
    BY <1>4, Successors DEF ClearedAtEnd, Works
  <2>2. Open' \cap Tasks \subseteq Open
    BY <1>1, <2>1, AllTasks DEF Open
  <2>3. PanelWork' + QueueWork' < PanelWork + QueueWork
    <3>1. Len(queue) \in Nat /\ need' = need /\ queue' = queue
      BY <1>1, <2>1 DEF Typed
    <3>2. CASE t = "Panel"
      BY <1>1, <3>1, <3>2 DEF PanelWork, QueueWork
    <3>3. CASE t = "Sci"
      BY <1>1, <3>1, <3>3 DEF PanelWork, QueueWork
    <3> QED BY <1>4, <3>2, <3>3
  <2> QED BY <1>2, <2>2, <2>3, NothingOpened, WorkTyped, WorkTypedNext, LessWork DEF Load
<1> QED BY <1>1, <1>3, <1>4 DEF Works

LEMMA BootRuns == ASSUME Typed, Typed', BootCheck \/ InitDone \/ BootTimeout PROVE Rank' < Rank
<1>1. UNCHANGED <<job, queue, bus>>
  BY DEF BootCheck, InitDone, BootTimeout, tasks, pending
<1>2. QueueWork' = QueueWork /\ RecordWork' <= RecordWork + 2
  BY <1>1 DEF QueueWork, RecordWork
<1>3. CASE EmptyRead /\ tries < 3 /\ tries' = tries + 1 /\ need' = need \cup {"PURead"}
           /\ UNCHANGED <<boot, eepFlg>> /\ boot = "read"
  <2>1. Open' \cap Tasks \subseteq Open \cup {"PURead"} /\ PanelWork' = PanelWork
    BY <1>1, <1>3 DEF Open, PanelWork
  <2>2. BootWork' = BootWork - 5 /\ RecordWork' = RecordWork
    BY <1>1, <1>3 DEF BootWork, RecordWork, Typed
  <2>3. InitWork' <= InitWork /\ ReadWork' <= ReadWork + 4 /\ SaveWork' <= SaveWork
    BY <2>1, OneOpened, WorkTyped, WorkTypedNext
  <2>4. Load' < Load
    BY <1>2, <2>1, <2>2, <2>3, WorkTyped, WorkTypedNext DEF Load
  <2> QED BY <2>4, LessWork
<1>4. CASE boot = "read" /\ boot' = "init" /\ need' = need \cup {"FacWrite"} /\ UNCHANGED eepFlg
  <2>1. Open' \cap Tasks \subseteq Open \cup {"FacWrite"} /\ PanelWork' = PanelWork
    BY <1>1, <1>4 DEF Open, PanelWork
  <2>2. BootWork' <= BootWork - 6 /\ RecordWork' = RecordWork
    BY <1>1, <1>4 DEF BootWork, RecordWork, Typed
  <2>3. InitWork' <= InitWork + 5 /\ ReadWork' <= ReadWork /\ SaveWork' <= SaveWork
    BY <2>1, OneOpened, WorkTyped, WorkTypedNext
  <2>4. Load' < Load
    BY <1>2, <2>1, <2>2, <2>3, WorkTyped, WorkTypedNext DEF Load
  <2> QED BY <2>4, LessWork
<1>5. CASE boot \in {"read", "init"} /\ boot' = "run" /\ UNCHANGED need
  <2>1. Open' \cap Tasks \subseteq Open /\ PanelWork' = PanelWork
    BY <1>1, <1>5 DEF Open, PanelWork
  <2>2. BootWork' <= BootWork - 3
    BY <1>5 DEF BootWork, Typed
  <2>3. Load' < Load
    BY <1>2, <2>1, <2>2, NothingOpened, WorkTyped, WorkTypedNext DEF Load
  <2> QED BY <2>3, LessWork
<1> QED
  BY <1>3, <1>4, <1>5 DEF BootCheck, StartInit, PowerUpCheck, InitDone, BootTimeout, flags, tasks

LEMMA SaveDueRuns == ASSUME Typed, Typed', SaveDue PROVE Rank' < Rank
<1>1. /\ eepFlg /\ ~eepFlg' /\ need' = need \cup {"FaultSave1"} /\ UNCHANGED <<job, queue, boot, tries, bus>>
  BY DEF SaveDue, main, pending
<1>2. Open' \cap Tasks \subseteq Open \cup {"FaultSave1"}
  BY <1>1 DEF Open
<1>3. /\ PanelWork' = PanelWork /\ QueueWork' = QueueWork /\ BootWork' = BootWork
      /\ RecordWork' = RecordWork - 2
  BY <1>1 DEF PanelWork, QueueWork, BootWork, RecordWork
<1>4. InitWork' <= InitWork + 1 /\ ReadWork' <= ReadWork /\ SaveWork' <= SaveWork
  BY <1>2, OneOpened, WorkTyped, WorkTypedNext
<1>5. Load' < Load
  BY <1>3, <1>4, WorkTyped, WorkTypedNext DEF Load
<1> QED BY <1>5, LessWork

LEMMA BusInitErrRuns == ASSUME Typed, Typed', BusInitErr PROVE Rank' < Rank
<1>1. bus = "stuck" /\ bus' = "told" /\ UNCHANGED <<need, job, queue, boot, tries>>
  BY DEF BusInitErr, tasks, pending
<1>2. Open' \cap Tasks \subseteq Open /\ PanelWork' = PanelWork
  BY <1>1 DEF Open, PanelWork
<1>3. QueueWork' = QueueWork /\ BootWork' = BootWork /\ RecordWork' < RecordWork
  BY <1>1 DEF QueueWork, BootWork, RecordWork
<1>4. Load' < Load
  BY <1>2, <1>3, NothingOpened, WorkTyped, WorkTypedNext DEF Load
<1> QED BY <1>4, LessWork

\* Each step of the store is one of a finite number until the next request or failure, for
\* any number of them and every size of the queue.
THEOREM WorkRunsOut == Spec => StepsRunOut /\ []WorkIsFinite
<1>1. Init => Typed
  BY InitTyped
<1>2. Typed /\ [Next]_vars => Typed'
  BY TypedStep
<1>3. Typed /\ Typed' /\ [Next]_vars => [ Step => Rank' < Rank ]_vars
  BY TaskSelRuns, BeginRuns, PageStepRuns, FinishRuns, BootRuns, SaveDueRuns,
     BusInitErrRuns
  DEF Step
<1>4. Typed => WorkIsFinite
  BY WorkTyped, PhaseRange DEF WorkIsFinite, Rank
<1> QED BY <1>1, <1>2, <1>3, <1>4, PTL DEF Spec, StepsRunOut

(* -- A power-up ends -------------------------------------------------------- *)

\* While the main program waits for a chain of tasks, one of the chain is asked for or runs.
InitTasks == {"FacWrite", "Reset", "WrFac1000", "WrFac6000", "WrFull", "FaultSave1"}
WaitIn(chain) == \E u \in chain : u \in Open
ChainWaited ==
  /\ boot = "read" /\ allRead /\ ~i2cErr => WaitIn(Reads)
  /\ boot = "init" /\ servoInit => WaitIn(InitTasks)

\* On a stuck bus the read of everything is never got past: it is the first of the tasks and
\* transfers nothing.
StuckRead ==
  bus # "ok" =>
    /\ allRead /\ (boot = "read" \/ (boot = "run" /\ reported))
    /\ \/ job.task = "none" /\ "PURead" \in need
       \/ job.task = "PURead" /\ (job.begun => job.left # <<>>)

LEMMA StuckStep == Typed /\ StuckRead /\ [Next]_vars => StuckRead'
<1>. SUFFICES ASSUME Typed, StuckRead, [Next]_vars, bus' # "ok" PROVE StuckRead'
  BY DEF StuckRead
<1>1. CASE PowerLoss
  BY <1>1 DEF PowerLoss, StuckRead, Idle
<1>2. CASE TaskSel
  <2>1. bus # "ok" /\ job.task = "none" /\ "PURead" \in need /\ UNCHANGED <<bus, allRead, boot, reported>>
    BY <1>2 DEF TaskSel, Idle, StuckRead, main, flags
  <2>2. Priority[1] = "PURead" /\ DOMAIN Priority = 1..17
    BY DEF Priority
  <2>3. job' = Taken("PURead")
    <3>1. PICK i \in DOMAIN Priority : /\ \A j \in 1..(i - 1) : Priority[j] \notin need
                                       /\ job' = Taken(Priority[i])
      BY <1>2, <2>1 DEF TaskSel
    <3>2. i = 1
      BY <2>1, <2>2, <3>1
    <3> QED BY <2>2, <3>1, <3>2
  <2> QED BY <2>1, <2>3 DEF StuckRead, Taken
<1>3. CASE Begin
  <2>1. bus # "ok" /\ job.task = "PURead" /\ UNCHANGED <<bus, allRead, boot, reported>>
    BY <1>3 DEF Begin, StuckRead, main, flags
  <2>2. job' = [job EXCEPT !.begun = TRUE, !.left = FuncCodes]
    BY <1>3, <2>1 DEF Begin, Transfer
  <2>3. job'.task = "PURead" /\ job'.left # <<>>
    BY <2>1, <2>2 DEF Typed, Jobs, FuncCodes
  <2> QED BY <2>1, <2>3 DEF StuckRead
<1>4. CASE PageStep \/ BusTimeout \/ Finish \/ BootCheck \/ InitDone
  BY <1>4 DEF PageStep, BusTimeout, Finish, BootCheck, InitDone, StuckRead, Typed, flags
<1>5. CASE BusInitErr \/ BootTimeout
  BY <1>5 DEF BusInitErr, BootTimeout, Report, StuckRead, tasks
<1>6. CASE SaveDue \/ Request \/ UNCHANGED vars
  <2>1. UNCHANGED <<bus, job, allRead, boot, reported>> /\ need \subseteq need'
    BY <1>6 DEF SaveDue, Request, ParaInit, IIcFun, Edit, IIcInterfaceA, IIcInterfaceC, NetworkReset,
                MsgRecord, vars, main, tasks, flags
  <2> QED BY <2>1 DEF StuckRead
<1> QED BY <1>1, <1>2, <1>3, <1>4, <1>5, <1>6 DEF Next, Step

LEMMA ChainTasks == Reads \subseteq Tasks /\ InitTasks \subseteq Tasks
BY DEF Reads, InitTasks, Tasks

LEMMA ChainedGoesOn == Typed /\ ChainWaited /\ StuckRead => PowerUpGoesOn
<1>. SUFFICES ASSUME Typed, ChainWaited, need = {}, job = Idle PROVE ~WaitIn(Reads) /\ ~WaitIn(InitTasks)
  BY DEF ChainWaited, StuckRead, PowerUpGoesOn, Typed
<1>1. Open = {"none"}
  BY DEF Open, Idle
<1> QED BY <1>1 DEF WaitIn, Reads, InitTasks

\* A chain that waits goes on waiting for its tasks as long as none of them ends.
LEMMA KeepsChained ==
  ASSUME ChainWaited, Open \cap Tasks \subseteq Open',
         boot' = boot \/ boot' = "run", allRead' => allRead, servoInit' => servoInit, i2cErr => i2cErr'
  PROVE  ChainWaited'
<1>1. \A c \in {Reads, InitTasks} : WaitIn(c) => WaitIn(c)'
  BY ChainTasks DEF WaitIn
<1> QED BY <1>1 DEF ChainWaited

LEMMA InitChained == Init => ChainWaited
BY DEF Init, ChainWaited, WaitIn, Open, Reads

LEMMA TransferChained == Typed /\ ChainWaited /\ (TaskSel \/ Begin \/ PageStep) => ChainWaited'
<1>. SUFFICES ASSUME Typed, ChainWaited, TaskSel \/ Begin \/ PageStep PROVE ChainWaited'
  OBVIOUS
<1>1. UNCHANGED <<boot, allRead, servoInit, i2cErr>>
  BY DEF TaskSel, Begin, PageStep, main, flags
<1>2. CASE TaskSel
  <2>1. Open \cap Tasks \subseteq Open'
    BY <1>2, Selected, AllTasks DEF Open, Idle, Taken
  <2> QED BY <1>1, <2>1, KeepsChained
<1>3. CASE Begin \/ PageStep
  <2>1. need' = need /\ job'.task = job.task
    BY <1>3 DEF Begin, PageStep, Typed, Jobs
  <2>2. Open \cap Tasks \subseteq Open'
    BY <2>1 DEF Open
  <2> QED BY <1>1, <2>2, KeepsChained
<1> QED BY <1>2, <1>3

LEMMA FinishChained == Typed /\ ChainWaited /\ Finish => ChainWaited'
<1>. SUFFICES ASSUME Typed, ChainWaited, Finish PROVE ChainWaited'
  OBVIOUS
<1>. DEFINE t == job.task
<1>1. /\ UNCHANGED <<boot, i2cErr>> /\ need' = (need \ ClearedAtEnd(t)) \cup After(t)
      /\ (allRead' => allRead /\ t # "FaultRead") /\ (servoInit' => servoInit /\ t # "FaultSave1")
  BY DEF Finish
<1>2. \A u \in Open \ {t} : u \in Open'
  BY <1>1 DEF Open, ClearedAtEnd
<1>3. ASSUME boot' = "read", allRead', ~i2cErr' PROVE WaitIn(Reads)'
  <2>1. PICK u \in Reads : u \in Open
    BY <1>1, <1>3 DEF ChainWaited, WaitIn
  <2>2. CASE u = t
    <3>1. t \in {"PURead", "Rd1000", "Rd6000"} /\ ~i2cErr
      BY <1>1, <1>3, <2>2 DEF Reads
    <3>2. ReadChain[t] \in After(t) /\ ReadChain[t] \in Reads
      BY <3>1, AllTasks DEF After, ReadChain, Reads, Tasks
    <3> QED BY <1>1, <3>2 DEF WaitIn, Open
  <2> QED BY <1>2, <2>1, <2>2 DEF WaitIn
<1>4. ASSUME boot' = "init", servoInit' PROVE WaitIn(InitTasks)'
  <2>1. PICK u \in InitTasks : u \in Open
    BY <1>1, <1>4 DEF ChainWaited, WaitIn
  <2>2. CASE u = t
    <3>1. t \in {"FacWrite", "Reset", "WrFac1000", "WrFac6000", "WrFull"} /\ servoInit
      BY <1>1, <1>4, <2>2 DEF InitTasks
    <3>2. \E v \in InitTasks : v \in After(t)
      BY <3>1, AllTasks DEF After, InitChain, InitTasks, Tasks
    <3> QED BY <1>1, <3>2 DEF WaitIn, Open
  <2> QED BY <1>2, <2>1, <2>2 DEF WaitIn
<1> QED BY <1>3, <1>4 DEF ChainWaited

LEMMA BootChained == ChainWaited /\ (BootCheck \/ InitDone \/ BootTimeout) => ChainWaited'
<1>. SUFFICES ASSUME ChainWaited, BootCheck \/ InitDone \/ BootTimeout PROVE ChainWaited'
  OBVIOUS
<1>1. CASE boot' = boot /\ boot = "read" /\ need' = need \cup {"PURead"}
  BY <1>1 DEF ChainWaited, WaitIn, Open, Reads
<1>2. CASE boot' = "init" /\ need' = need \cup {"FacWrite"}
  BY <1>2 DEF ChainWaited, WaitIn, Open, InitTasks
<1>3. CASE boot' = "run"
  BY <1>3 DEF ChainWaited
<1> QED BY <1>1, <1>2, <1>3 DEF BootCheck, StartInit, PowerUpCheck, InitDone, BootTimeout, flags

LEMMA RequestChained == ChainWaited /\ (SaveDue \/ Request \/ UNCHANGED vars) => ChainWaited'
<1>. SUFFICES ASSUME ChainWaited, SaveDue \/ Request \/ UNCHANGED vars PROVE ChainWaited'
  OBVIOUS
<1>1. CASE SaveDue \/ UNCHANGED vars
  <2>1. UNCHANGED <<boot, allRead, servoInit, i2cErr, job>> /\ need \subseteq need'
    BY <1>1 DEF SaveDue, main, vars, tasks, flags
  <2>2. Open \cap Tasks \subseteq Open'
    BY <2>1 DEF Open
  <2> QED BY <2>1, <2>2, KeepsChained
<1>2. CASE Request
  <2>1. boot' = "run"
    BY <1>2 DEF Request, ParaInit, Edit, IIcInterfaceA, IIcInterfaceC, NetworkReset, MsgRecord, main
  <2> QED BY <2>1 DEF ChainWaited
<1> QED BY <1>1, <1>2

LEMMA FailureChained ==
  Typed /\ ChainWaited /\ StuckRead /\ (BusInitErr \/ BusTimeout \/ PowerLoss) => ChainWaited'
<1>. SUFFICES ASSUME Typed, ChainWaited, StuckRead, BusInitErr \/ BusTimeout \/ PowerLoss
              PROVE ChainWaited'
  OBVIOUS
<1>1. CASE BusTimeout
  <2>1. UNCHANGED <<boot, allRead, servoInit, need>> /\ i2cErr' /\ job'.task = job.task
    BY <1>1 DEF BusTimeout, main, Typed, Jobs
  <2>2. Open \cap Tasks \subseteq Open'
    BY <2>1 DEF Open
  <2> QED BY <2>1, <2>2, KeepsChained
<1>2. CASE PowerLoss
  <2>1. boot' = "read" /\ need' = {"PURead"}
    BY <1>2 DEF PowerLoss
  <2> QED BY <2>1 DEF ChainWaited, WaitIn, Open, Reads
<1>3. CASE BusInitErr
  <2>1. allRead /\ allRead' /\ UNCHANGED <<boot, servoInit, i2cErr, need, job>>
    BY <1>3 DEF BusInitErr, StuckRead, tasks
  <2>2. Open \cap Tasks \subseteq Open'
    BY <2>1 DEF Open
  <2> QED BY <2>1, <2>2, KeepsChained
<1> QED BY <1>1, <1>2, <1>3

\* PowerOnReadFunc never waits for a chain of which no task is left (its loops on ServoAllRead
\* and ServoInit): wherever power or the bus fails, the main program can go on or a task can.
THEOREM PowerUpsGoOn == Spec => []PowerUpGoesOn
<1>1. Init => Typed /\ ChainWaited /\ StuckRead
  BY InitTyped, InitChained DEF Init, StuckRead, Idle
<1>2. Typed /\ ChainWaited /\ StuckRead /\ [Next]_vars => (Typed /\ ChainWaited /\ StuckRead)'
  BY TypedStep, TransferChained, FinishChained, BootChained, RequestChained, FailureChained,
     StuckStep
  DEF Next, Step
<1>3. Typed /\ ChainWaited /\ StuckRead => PowerUpGoesOn
  BY ChainedGoesOn
<1> QED BY <1>1, <1>2, <1>3, PTL DEF Spec
=============================================================================
