-------------------------- MODULE CardInit_proofs ---------------------------
(***************************************************************************)
(* A CardDevice implements CardInit, for every value of the constants.     *)
(***************************************************************************)
EXTENDS CardDevice_proofs, CardInitRefinement

USE ObjAssumption, ConfAssumption, LineAssumption, SimAssumption, BoundAssumption

(* The kind of the only init command of the pipe is the stage. *)
LEMMA StageIs ==
  ASSUME InitToken, Initializing, NEW k \in InitCmds, InPipe(k)
  PROVE  Stage = k
<1>1. PICK i \in 0 .. Len(queue) : Slots(InitCmds) = {i}
  BY DEF InitToken
<1>2. \A j \in InitCmds : InPipe(j) => j = Slot(i).cmd
  BY <1>1 DEF InPipe, Slots
<1>3. \A j \in InitCmds : InPipe(j) => j = k
  BY <1>2
<1>4. (CHOOSE j \in InitCmds : InPipe(j)) = k
  BY <1>3
<1> QED
  BY <1>4 DEF Stage, Initializing

(* The same, after a step. *)
LEMMA StageBecomes ==
  ASSUME InitToken', Initializing', NEW k \in InitCmds, InPipe(k)'
  PROVE  Stage' = k
<1>1. PICK i \in (0 .. Len(queue))' : Slots(InitCmds)' = {i}
  BY DEF InitToken
<1>2. \A j \in InitCmds : InPipe(j)' => j = Slot(i)'.cmd
  BY <1>1 DEF InPipe, Slots
<1>3. \A j \in InitCmds : InPipe(j)' => j = k
  BY <1>2
<1>4. (CHOOSE j \in InitCmds : InPipe(j)') = k
  BY <1>3
<1> QED
  BY <1>4 DEF Stage, Initializing

(* While the session initialises there is an init command in the pipe. *)
LEMMA StageExists ==
  ASSUME InitToken, Initializing
  PROVE  \E k \in InitCmds : InPipe(k)
BY DEF InitToken, Slots, InPipe

(* The pipe of a session that is not initialising plays no part. *)
LEMMA StageOutside ==
  /\ initialized => Stage = "ready"
  /\ ~initialized /\ link # "up" => Stage = "off"
BY DEF Stage

-----------------------------------------------------------------------------
(* What a step of the card is for CardInit.                                *)

AbstractStep == [Abstract!Next]_(Abstract!vars)

(* Both modules chain the commands in the same way. *)
LEMMA SameChain ==
  /\ Abstract!ChainedCmds = ChainedCmds
  /\ \A k \in ChainedCmds, cf \in Confs : Abstract!NextInit(k, cf) = NextInit(k, cf)
<1>1. Abstract!ChainedCmds = ChainedCmds
  BY DEF Abstract!ChainedCmds, ChainedCmds, Abstract!InitCmds, InitCmds
<1>2. \A k \in ChainedCmds, cf \in Confs : Abstract!NextInit(k, cf) = NextInit(k, cf)
  BY DEF Abstract!NextInit, NextInit
<1> QED
  BY <1>1, <1>2

(* A step that keeps the session and the init command of the pipe.         *)
LEMMA StageKept ==
  ASSUME InitToken, InitToken', UNCHANGED <<conf, link, initialized, pincount>>,
         \A k \in InitCmds : InPipe(k) => InPipe(k)'
  PROVE  AbstractStep
<1>1. Stage' = Stage
  <2>1. CASE Initializing
    <3>1. PICK k \in InitCmds : InPipe(k)
      BY <2>1, StageExists
    <3>2. Initializing' /\ InPipe(k)'
      BY <2>1, <3>1 DEF Initializing
    <3> QED
      BY <2>1, <3>1, <3>2, StageIs, StageBecomes
  <2>2. CASE ~Initializing
    BY <2>2 DEF Initializing, Stage
  <2> QED
    BY <2>1, <2>2
<1>2. Entered' = Entered
  BY DEF Entered
<1> QED
  BY <1>1, <1>2 DEF AbstractStep, Abstract!vars

(* Appending service commands keeps the init command of the pipe.          *)
LEMMA EnqueueKeeps ==
  ASSUME TypeOK, NEW s \in Seq(Command), Enqueue(s),
         \/ lastcmd' = lastcmd
         \/ lastcmd.cmd \notin InitCmds
  PROVE  \A k \in InitCmds : InPipe(k) => InPipe(k)'
<1>1. queue \in Seq(Command) /\ queue' = queue \o s
  BY DEF TypeOK, Enqueue
<1>2. /\ Len(queue) \in Nat /\ Len(queue') \in Nat /\ Len(queue) <= Len(queue')
      /\ \A i \in 1 .. Len(queue) : queue'[i] = queue[i]
  BY <1>1
<1> SUFFICES ASSUME NEW k \in InitCmds, NEW i \in 0 .. Len(queue), Slot(i).cmd = k
             PROVE  InPipe(k)'
  BY DEF InPipe
<1>3. i \in (0 .. Len(queue))'
  BY <1>2
<1>4. Slot(i)'.cmd = k
  BY <1>2 DEF Slot
<1> QED
  BY <1>3, <1>4 DEF InPipe

(* A step of the pipe that appends service commands, in one session.       *)
LEMMA ServiceStutters ==
  ASSUME TypeOK, InitToken, InitToken', NEW s \in Seq(Command), Enqueue(s),
         lastcmd' = lastcmd \/ lastcmd.cmd \notin InitCmds,
         UNCHANGED <<conf, link, initialized, pincount>>
  PROVE  AbstractStep
BY EnqueueKeeps, StageKept

(* A step that leaves the pipe and the session alone. *)
LEMMA SameStage ==
  ASSUME UNCHANGED <<conf, link, initialized, pincount, pipe>>
  PROVE  AbstractStep
<1>1. Stage' = Stage /\ Entered' = Entered
  BY DEF Stage, Entered, InPipe, Slot, pipe
<1> QED
  BY <1>1 DEF AbstractStep, Abstract!vars

(* The token passes: the stage is the answered command, then the appended. *)
LEMMA StagePassed ==
  ASSUME TypeOK, InitToken, InitToken', lastcmd.cmd \in InitCmds, NEW k \in InitCmds,
         Answered(<<Plain(k)>>), UNCHANGED <<link, initialized>>
  PROVE  Stage = lastcmd.cmd /\ Stage' = k
<1>1. Initializing /\ Initializing'
  BY TokenHeld DEF Initializing
<1>2. InPipe(lastcmd.cmd)
  BY DEF InPipe, Slot, TypeOK
<1>3. InPipe(k)'
  <2>1. queue \in Seq(Command) /\ queue' = queue \o <<Plain(k)>> /\ Plain(k) \in Command
    BY CommandType DEF TypeOK, Answered, Enqueue
  <2>2. /\ Len(queue) + 1 \in (0 .. Len(queue))'
        /\ queue'[Len(queue) + 1] = Plain(k) /\ Len(queue) + 1 # 0
    BY <2>1
  <2> QED
    BY <2>2 DEF InPipe, Slot, Plain
<1> QED
  BY <1>1, <1>2, <1>3, StageIs, StageBecomes

(* The end of a session. *)
LEMMA StageDropped ==
  ASSUME InitToken, link = "up", Reset, link' # "up"
  PROVE  AbstractStep
<1>1. Stage # "off"
  <2>1. CASE initialized
    BY <2>1 DEF Stage
  <2>2. CASE ~initialized
    <3>1. Stage \in InitCmds
      BY <2>2, StageExists, StageIs DEF Initializing
    <3> QED
      BY <3>1 DEF InitCmds
  <2> QED
    BY <2>1, <2>2
<1>2. Stage' = "off" /\ Entered' = FALSE /\ conf' = conf
  BY DEF Reset, Stage, Entered
<1> QED
  BY <1>1, <1>2 DEF AbstractStep, Abstract!Next, Abstract!Drop

-----------------------------------------------------------------------------
(* A lemma per group of actions.                                           *)

(* Sending a command moves every slot down by one. *)
LEMMA SendKeeps ==
  ASSUME TypeOK, SendCommand
  PROVE  \A k \in InitCmds : InPipe(k) => InPipe(k)'
<1>1. queue \in Seq(Command) /\ queue # <<>> /\ queue' = Tail(queue) /\ lastcmd' = Head(queue)
  BY DEF TypeOK, SendCommand
<1>2. /\ Len(queue) \in Nat \ {0} /\ Len(queue') = Len(queue) - 1
      /\ \A i \in 1 .. Len(queue') : queue'[i] = queue[i + 1]
      /\ lastcmd' = queue[1]
  BY <1>1
<1>3. lastcmd.cmd \notin InitCmds
  BY CommandType DEF SendCommand, Awaiting
<1> SUFFICES ASSUME NEW k \in InitCmds, NEW i \in 0 .. Len(queue), Slot(i).cmd = k
             PROVE  InPipe(k)'
  BY DEF InPipe
<1>4. i \in 1 .. Len(queue)
  BY <1>2, <1>3 DEF Slot
<1>5. i - 1 \in (0 .. Len(queue))' /\ Slot(i - 1)'.cmd = k
  BY <1>2, <1>4 DEF Slot
<1> QED
  BY <1>5 DEF InPipe

(* Outside of a session no PIN is counted. *)
CountIdle == link # "up" => pincount = 0

(* disconnect clears the count, and only at_response raises it. *)
LEMMA CountIdleKept == TypeOK /\ CountIdle /\ [Next]_vars => CountIdle'
<1> SUFFICES ASSUME TypeOK, CountIdle, [Next]_vars PROVE CountIdle'
  OBVIOUS
<1>1. ASSUME UNCHANGED <<link, pincount>> \/ Reset \/ link' = "up" \/ (link # "up" /\ pincount' = pincount)
      PROVE  CountIdle'
  BY <1>1 DEF CountIdle, Reset
<1>2. CASE Monitor
  BY <1>1, <1>2
     DEF Monitor, TryConnect, MonitorStart, SendCommand, LostConnection, LostEarly, MonitorLate,
         MonitorLeave, Timeout, Disconnect, DropLink, session, sim
<1>3. CASE OkChained \/ OkCpin \/ OkCnmi \/ OkService
  BY <1>1, <1>3 DEF OkChained, OkCpin, OkCnmi, OkService, Hears, Disconnect, DropLink, session, sim
<1>4. CASE ErrorRequired \/ ErrorOptional \/ ErrorSmsProbe \/ ErrorService
  BY <1>1, <1>4
     DEF ErrorRequired, ErrorOptional, ErrorSmsProbe, ErrorService, Disconnect, DropLink, session, sim
<1>5. CASE Unsolicited
  BY <1>1, <1>5
     DEF Unsolicited, ResponseCpin, ResponseCreg, ResponseCmti, ResponseCmgr, ResponsePdu,
         MalformedLine, ResponseOrig, ResponseCend, ResponseClip, ResponseClipFails,
         ResponseRing, ResponseBusy, ResponseNoCarrier, Disconnect, DropLink, session, sim
<1>6. CASE Engine
  BY <1>1, <1>6
     DEF Engine, SendSms, SendUssd, Execute, SetConnection, NewCall, Routed, SendAnswer,
         SendDtmf, Destroy, session, sim
<1>7. CASE UNCHANGED vars
  BY <1>1, <1>7 DEF vars, session, sim
<1> QED
  BY <1>2, <1>3, <1>4, <1>5, <1>6, <1>7 DEF Next, Answer

(* The monitor thread begins the chain, drops it, or stutters. *)
LEMMA MonitorStage == IInv /\ IInv' /\ CountIdle /\ Monitor => AbstractStep
<1> SUFFICES ASSUME IInv, IInv', CountIdle, Monitor PROVE AbstractStep
  OBVIOUS
<1>0. TypeOK /\ InitToken /\ InitToken' /\ ReadyHasSms
  BY DEF IInv, PipeInv, ServiceInv
<1>1. CASE TryConnect
  <2>1. ~initialized /\ Stage = "off" /\ Stage' = "off"
    BY <1>0, <1>1 DEF TryConnect, ReadyHasSms, Stage
  <2>2. Entered' = Entered /\ conf' = conf
    BY <1>1 DEF TryConnect, Entered, sim
  <2> QED
    BY <2>1, <2>2 DEF AbstractStep, Abstract!vars
<1>2. CASE MonitorStart
  <2>1. ~initialized /\ Stage = "off"
    BY <1>0, <1>2 DEF MonitorStart, ReadyHasSms, Stage
  <2>2. Initializing'
    BY <1>2, <2>1 DEF MonitorStart, Initializing
  <2>3. InPipe("AT")'
    BY <1>2 DEF MonitorStart, InPipe, Slot, Plain
  <2>4. Stage' = "AT"
    BY <1>0, <2>2, <2>3, StageBecomes DEF InitCmds
  <2>5. Entered' = Entered /\ conf' = conf
    BY <1>2 DEF MonitorStart, Entered, sim
  <2> QED
    BY <2>1, <2>4, <2>5 DEF AbstractStep, Abstract!Next, Abstract!Begin
<1>3. CASE SendCommand
  BY <1>0, <1>3, SendKeeps, StageKept DEF SendCommand, session, sim
<1>4. CASE LostConnection \/ Timeout
  BY <1>0, <1>4, StageDropped DEF LostConnection, Timeout, Disconnect, DropLink
<1>5. CASE LostEarly \/ MonitorLate \/ MonitorLeave
  <2>1. ~initialized /\ Stage = "off"
    BY <1>0, <1>5 DEF LostEarly, MonitorLate, MonitorLeave, ReadyHasSms, Stage
  <2>2. link' # "up" /\ ~initialized'
    BY <1>5, <2>1 DEF LostEarly, MonitorLate, MonitorLeave, Reset
  <2>3. Stage' = "off"
    BY <2>2 DEF Stage
  <2>4. pincount = 0 /\ pincount' = 0 /\ conf' = conf
    BY <1>5 DEF LostEarly, MonitorLate, MonitorLeave, Reset, CountIdle, sim
  <2> QED
    BY <2>1, <2>3, <2>4 DEF AbstractStep, Abstract!vars, Entered
<1> QED
  BY <1>1, <1>2, <1>3, <1>4, <1>5 DEF Monitor

(* The answers to the commands of the chain advance it. *)
LEMMA ChainStage ==
  IInv /\ IInv' /\ Answer /\ lastcmd.cmd \in InitCmds => AbstractStep
<1> SUFFICES ASSUME IInv, IInv', Answer, lastcmd.cmd \in InitCmds PROVE AbstractStep
  OBVIOUS
<1>0. TypeOK /\ InitToken /\ InitToken' /\ link = "up" /\ ~initialized
  BY TokenHeld DEF IInv, PipeInv, Initializing
<1>1. CASE OkChained
  <2>1. /\ Answered(<<Plain(NextInit(lastcmd.cmd, conf))>>)
        /\ UNCHANGED <<conf, link, initialized, pincount>> /\ lastcmd.cmd \in ChainedCmds
    BY <1>0, <1>1 DEF OkChained, session, sim
  <2>2. Stage = lastcmd.cmd /\ Stage' = NextInit(lastcmd.cmd, conf)
    BY <1>0, <2>1, NextInitType, StagePassed
  <2> QED
    BY <1>0, <2>1, <2>2, SameChain
       DEF AbstractStep, Abstract!Next, Abstract!Advance, Entered, TypeOK
<1>2. CASE OkCpin
  <2>1. CASE simstatus = 0
    <3>1. Answered(<<Plain("CIMI")>>) /\ UNCHANGED <<conf, link, initialized, pincount>>
      BY <1>0, <1>2, <2>1 DEF OkCpin, session, sim
    <3>2. Stage = "CPIN" /\ Stage' = "CIMI"
      BY <1>0, <1>2, <3>1, StagePassed DEF OkCpin, InitCmds
    <3> QED
      BY <3>1, <3>2 DEF AbstractStep, Abstract!Next, Abstract!SimReady, Entered
  <2>2. CASE simstatus = 1 /\ conf.pin /\ pincount = 0
    <3>1. /\ Answered(<<Plain("CPIN_ENTER")>>) /\ UNCHANGED <<conf, link, initialized>>
          /\ pincount' = 1
      BY <1>0, <1>2, <2>2 DEF OkCpin
    <3>2. Stage = "CPIN" /\ Stage' = "CPIN_ENTER"
      BY <1>0, <1>2, <3>1, StagePassed DEF OkCpin, InitCmds
    <3> QED
      BY <2>2, <3>1, <3>2 DEF AbstractStep, Abstract!Next, Abstract!EnterPin, Entered
  <2>3. CASE simstatus # 0 /\ ~(simstatus = 1 /\ conf.pin /\ pincount = 0)
    BY <1>0, <1>2, <2>3, StageDropped DEF OkCpin, Disconnect, DropLink
  <2> QED
    BY <2>1, <2>2, <2>3
<1>3. CASE OkCnmi
  <2>1. Stage = "CNMI"
    <3>1. InPipe(lastcmd.cmd)
      BY <1>0 DEF InPipe, Slot, TypeOK
    <3> QED
      BY <1>0, <1>3, <3>1, StageIs DEF OkCnmi, Initializing
  <2>2. Stage' = "ready" /\ conf' = conf /\ Entered' = Entered
    BY <1>3 DEF OkCnmi, Stage, Entered, sim
  <2> QED
    BY <2>1, <2>2 DEF AbstractStep, Abstract!Next, Abstract!Finish
<1>4. CASE OkService \/ ErrorService
  BY <1>4, KindsDisjoint DEF OkService, ErrorService
<1>5. CASE ErrorRequired
  BY <1>0, <1>5, StageDropped DEF ErrorRequired, Disconnect, DropLink
<1>6. CASE ErrorOptional
  <2>1. UNCHANGED <<conf, link, initialized, pincount>> /\ lastcmd.cmd \in {"CREG", "CVOICE"}
    BY <1>6 DEF ErrorOptional, session, sim, OptionalCmds
  <2>2. Answered(<<Plain(IF lastcmd.cmd = "CREG" THEN "CNUM" ELSE "CMGF")>>)
    BY <1>0, <1>6 DEF ErrorOptional
  <2>3. (IF lastcmd.cmd = "CREG" THEN "CNUM" ELSE "CMGF") \in InitCmds
    BY DEF InitCmds
  <2>4. Stage = lastcmd.cmd /\ Stage' = IF lastcmd.cmd = "CREG" THEN "CNUM" ELSE "CMGF"
    BY <1>0, <2>1, <2>2, <2>3, StagePassed
  <2> QED
    BY <2>1, <2>4 DEF AbstractStep, Abstract!Next, Abstract!Skip, Entered
<1>7. CASE ErrorSmsProbe
  BY <1>0, <1>7, StageDropped DEF ErrorSmsProbe, Disconnect, DropLink
<1> QED
  BY <1>1, <1>2, <1>3, <1>4, <1>5, <1>6, <1>7 DEF Answer

(* The answers to the other commands leave the chain where it is. *)
LEMMA ServiceStage ==
  IInv /\ IInv' /\ Answer /\ lastcmd.cmd \notin InitCmds => AbstractStep
<1> SUFFICES ASSUME IInv, IInv', Answer, lastcmd.cmd \notin InitCmds PROVE AbstractStep
  OBVIOUS
<1>0. TypeOK /\ InitToken /\ InitToken'
  BY DEF IInv, PipeInv
<1>1. CASE OkChained \/ OkCpin \/ OkCnmi \/ ErrorOptional \/ ErrorSmsProbe
  BY <1>1 DEF OkChained, OkCpin, OkCnmi, ErrorOptional, ErrorSmsProbe, InitCmds, ChainedCmds,
              OptionalCmds, SmsProbes
<1>2. CASE OkService
  <2>1. lastcmd \in Command
    BY <1>0, <1>2, CommandType DEF TypeOK, OkService
  <2>2. OkFollows \in Seq(Command)
    <3>1. /\ Plain("DDSETEX") \in Command /\ Plain("CLVL") \in Command
          /\ With("D", lastcmd.obj) \in Command /\ With("CMGD", lastcmd.obj) \in Command
      BY <2>1, CommandType DEF ServiceCmds
    <3> QED
      BY <3>1, EmptyCommands, OneCommand DEF OkFollows
  <2>3. Enqueue(OkFollows) /\ UNCHANGED <<conf, link, initialized, pincount>>
    BY <1>2 DEF OkService, Answered, session, sim
  <2> QED
    BY <1>0, <2>2, <2>3, ServiceStutters
<1>3. CASE ErrorRequired
  BY <1>0, <1>3, StageDropped DEF ErrorRequired, Disconnect, DropLink, Hears
<1>4. CASE ErrorService
  <2>1. lastcmd \in Command
    BY <1>0, <1>4, CommandType DEF TypeOK, ErrorService
  <2>2. PICK s \in Seq(Command) : Enqueue(s)
    <3>1. <<>> \in Seq(Command) /\ <<Plain("CHUP")>> \in Seq(Command)
          /\ <<With("D", lastcmd.obj)>> \in Seq(Command)
      BY <2>1, CommandType, OneCommand, EmptyCommands DEF ServiceCmds
    <3>2. queue' = queue => Enqueue(<<>>)
      BY <1>0 DEF TypeOK, Enqueue
    <3> QED
      BY <1>4, <3>1, <3>2 DEF ErrorService, Hangup
  <2>3. UNCHANGED <<conf, link, initialized, pincount>>
    BY <1>4 DEF ErrorService, session, sim
  <2> QED
    BY <1>0, <2>2, <2>3, ServiceStutters
<1> QED
  BY <1>1, <1>2, <1>3, <1>4 DEF Answer

(* Unsolicited lines drop the session, or stutter. *)
LEMMA UnsolicitedStage == IInv /\ IInv' /\ Unsolicited => AbstractStep
<1> SUFFICES ASSUME IInv, IInv', Unsolicited PROVE AbstractStep
  OBVIOUS
<1>0. TypeOK /\ InitToken /\ InitToken'
  BY DEF IInv, PipeInv
<1>a. /\ <<>> \in Seq(Command)
      /\ \A k \in {"COPS", "CLVL", "CHUP"} : <<Plain(k)>> \in Seq(Command)
      /\ \A i \in SmsIndexes : <<With("CMGR", i)>> \in Seq(Command)
  BY CommandType, OneCommand, EmptyCommands DEF ServiceCmds
<1>b. queue' = queue => Enqueue(<<>>)
  BY <1>0 DEF TypeOK, Enqueue
<1>1. ASSUME NEW s \in SimReports, ResponseCpin(s) PROVE AbstractStep
  BY <1>1, SameStage DEF ResponseCpin
<1>2. ASSUME NEW reg \in BOOLEAN, ResponseCreg(reg) PROVE AbstractStep
  BY <1>0, <1>a, <1>2, ServiceStutters DEF ResponseCreg, sim
<1>3. ASSUME NEW i \in SmsIndexes, ResponseCmti(i) PROVE AbstractStep
  BY <1>0, <1>a, <1>3, ServiceStutters DEF ResponseCmti, session, sim
<1>4. CASE ResponseCmgr
  BY <1>4, SameStage DEF ResponseCmgr, sim
<1>5. ASSUME NEW parsed \in BOOLEAN, ResponsePdu(parsed) PROVE AbstractStep
  BY <1>0, <1>5, SameStage, StageDropped DEF ResponsePdu, Disconnect, DropLink, Hears, sim
<1>6. CASE MalformedLine
  BY <1>0, <1>6, StageDropped DEF MalformedLine, Disconnect, DropLink, Hears
<1>7. CASE ResponseOrig
  BY <1>0, <1>a, <1>7, ServiceStutters DEF ResponseOrig, SyncVolume, session, sim
<1>8. CASE ResponseCend
  <2>1. Enqueue(<<>>)
    BY <1>8, <1>b DEF ResponseCend, Hangup
  <2> QED
    BY <1>0, <1>a, <1>8, <2>1, ServiceStutters DEF ResponseCend, session, sim
<1>9. ASSUME NEW c \in Channels, ResponseClip(c) PROVE AbstractStep
  BY <1>9, SameStage DEF ResponseClip, session, sim
<1>10. CASE ResponseClipFails
  BY <1>0, <1>10, StageDropped DEF ResponseClipFails, DropLink, Hears
<1>11. CASE ResponseRing
  <2>1. PICK s \in Seq(Command) : Enqueue(s)
    BY <1>a, <1>b, <1>11 DEF ResponseRing, SyncVolume
  <2> QED
    BY <1>0, <1>11, <2>1, ServiceStutters DEF ResponseRing, session, sim
<1>12. CASE ResponseBusy
  <2>1. PICK s \in Seq(Command) : Enqueue(s)
    BY <1>a, <1>b, <1>12 DEF ResponseBusy, Hangup
  <2> QED
    BY <1>0, <1>12, <2>1, ServiceStutters DEF ResponseBusy, session, sim
<1>13. CASE ResponseNoCarrier
  <2>1. PICK s \in Seq(Command) : Enqueue(s)
    BY <1>a, <1>b, <1>13 DEF ResponseNoCarrier, Hangup
  <2>2. lastcmd' = lastcmd \/ lastcmd.cmd \notin InitCmds
    BY <1>13 DEF ResponseNoCarrier, InitCmds
  <2> QED
    BY <1>0, <1>13, <2>1, <2>2, ServiceStutters DEF ResponseNoCarrier, session, sim
<1> QED
  BY <1>1, <1>2, <1>3, <1>4, <1>5, <1>6, <1>7, <1>8, <1>9, <1>10, <1>11, <1>12, <1>13
     DEF Unsolicited

(* The engine's threads stutter. *)
LEMMA EngineStage == IInv /\ IInv' /\ Engine => AbstractStep
<1> SUFFICES ASSUME IInv, IInv', Engine PROVE AbstractStep
  OBVIOUS
<1>0. TypeOK /\ InitToken /\ InitToken'
  BY DEF IInv, PipeInv
<1>a. /\ <<>> \in Seq(Command)
      /\ \A k \in {"CMGS", "CUSD", "A", "DTMF", "CHUP"} : <<Plain(k)>> \in Seq(Command)
      /\ \A k \in {"CLIR", "D"}, c \in Channels : <<With(k, c)>> \in Seq(Command)
  BY CommandType, OneCommand, EmptyCommands DEF ServiceCmds
<1>1. CASE SendSms
  BY <1>0, <1>a, <1>1, ServiceStutters DEF SendSms, session, sim
<1>2. CASE SendUssd
  BY <1>0, <1>a, <1>2, ServiceStutters DEF SendUssd, session, sim
<1>3. ASSUME NEW c \in Channels, Execute(c) \/ SetConnection(c) \/ Routed(c) PROVE AbstractStep
  BY <1>3, SameStage DEF Execute, SetConnection, Routed, session, sim
<1>4. ASSUME NEW c \in Channels, NEW clir \in BOOLEAN, NewCall(c, clir) PROVE AbstractStep
  BY <1>0, <1>a, <1>4, ServiceStutters DEF NewCall, session, sim
<1>5. ASSUME NEW c \in Channels, SendAnswer(c) \/ SendDtmf(c) PROVE AbstractStep
  BY <1>0, <1>a, <1>5, ServiceStutters DEF SendAnswer, SendDtmf, session, sim
<1>6. ASSUME NEW c \in Channels, Destroy(c) PROVE AbstractStep
  BY <1>0, <1>a, <1>6, ServiceStutters DEF Destroy, Chup, session, sim
<1> QED
  BY <1>1, <1>2, <1>3, <1>4, <1>5, <1>6 DEF Engine

-----------------------------------------------------------------------------

(* A new card has not begun. *)
LEMMA AbstractInit == Init => Abstract!Init
BY DEF Init, Abstract!Init, Stage, Entered

(* Every step of the card is one of CardInit, or a stutter. *)
LEMMA AbstractNext == IInv /\ IInv' /\ CountIdle /\ [Next]_vars => AbstractStep
<1> SUFFICES ASSUME IInv, IInv', CountIdle, [Next]_vars PROVE AbstractStep
  OBVIOUS
<1>1. CASE UNCHANGED vars
  BY <1>1, SameStage DEF vars, session, sim
<1> QED
  BY <1>1, MonitorStage, ChainStage, ServiceStage, UnsolicitedStage, EngineStage DEF Next

(* The driver's queue of commands, shared by the monitor, the lines of the *)
(* modem and the engine's threads, carries out the sequential program of   *)
(* CardInit: init commands in order, none skipped, none repeated, the PIN  *)
(* at most once in a session, and service only after the last of them.     *)
THEOREM InitChainHolds == Spec => InitChain
<1>1. Init => IInv /\ CountIdle
  BY InitSafe DEF Init, CountIdle
<1>2. IInv /\ CountIdle /\ [Next]_vars => IInv' /\ CountIdle'
  BY NextSafe, CountIdleKept DEF IInv
<1>3. IInv /\ IInv' /\ CountIdle /\ [Next]_vars => [Abstract!Next]_(Abstract!vars)
  BY AbstractNext DEF AbstractStep
<1> QED
  BY <1>1, <1>2, <1>3, AbstractInit, PTL DEF Spec, InitChain, Abstract!Spec
=============================================================================
