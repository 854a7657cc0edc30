------------------------- MODULE CardDevice_proofs -------------------------
(***************************************************************************)
(* Proofs about CardDevice, for every set of channels and configurations,  *)
(* every bound and every modem.                                            *)
(***************************************************************************)
EXTENDS CardDeviceProps, TLAPS

USE ObjAssumption, ConfAssumption, LineAssumption, SimAssumption, BoundAssumption

(* The commands the actions create are commands. *)
LEMMA CommandType ==
  /\ \A k \in InitCmds \cup ServiceCmds : Plain(k) \in Command
  /\ \A k \in InitCmds \cup ServiceCmds, o \in Channels \cup SmsIndexes \cup {NoObj} :
        With(k, o) \in Command
  /\ \A x \in Command : x.obj \in Channels \cup SmsIndexes \cup {NoObj}
  /\ NoCmd \notin Command /\ NoCmd.cmd = "none" /\ NoCmd.cmd \notin InitCmds \cup ServiceCmds
BY DEF Command, Plain, With, NoCmd, InitCmds, ServiceCmds

(* What an OK or ERROR appends is a command. *)
LEMMA NextInitType ==
  ASSUME NEW k \in ChainedCmds, NEW cf
  PROVE  NextInit(k, cf) \in InitCmds
BY DEF NextInit, ChainedCmds, InitCmds

(* Appending commands to a queue gives a queue. *)
LEMMA EnqueueType ==
  ASSUME NEW q \in Seq(Command), NEW s \in Seq(Command)
  PROVE  q \o s \in Seq(Command)
OBVIOUS

(* A list of one command. *)
LEMMA OneCommand ==
  ASSUME NEW x \in Command
  PROVE  <<x>> \in Seq(Command)
OBVIOUS

(* The empty list. *)
LEMMA EmptyCommands == <<>> \in Seq(Command)
OBVIOUS

-----------------------------------------------------------------------------
(* The shared parts of the actions preserve types.                         *)

(* onHangup leaves an owner or none, and each channel a state. *)
LEMMA EndOwnerType ==
  ASSUME TypeOK, EndOwner
  PROVE  conn' \in Channels \cup {NoConn} /\ chan' \in [Channels -> ChanStates]
BY DEF TypeOK, EndOwner, ChanStates

(* Hangup, with or without an owner. *)
LEMMA HangupType ==
  ASSUME TypeOK, NEW chup \in BOOLEAN, Hangup(chup)
  PROVE  /\ needchup' \in BOOLEAN /\ queue' \in Seq(Command)
         /\ conn' \in Channels \cup {NoConn} /\ chan' \in [Channels -> ChanStates]
<1>1. CASE conn = NoConn
  BY <1>1 DEF TypeOK, Hangup
<1>2. CASE conn # NoConn
  <2>1. Plain("CHUP") \in Command
    BY CommandType DEF ServiceCmds
  <2>2. (IF chup THEN <<Plain("CHUP")>> ELSE <<>>) \in Seq(Command)
    BY <2>1
  <2>3. EndOwner /\ needchup' = FALSE
    BY <1>2 DEF Hangup
  <2>4. queue' = queue \o (IF chup THEN <<Plain("CHUP")>> ELSE <<>>)
    BY <1>2 DEF Hangup, Enqueue
  <2> QED
    BY <2>2, <2>3, <2>4, EndOwnerType, EnqueueType DEF TypeOK
<1> QED
  BY <1>1, <1>2

(* disconnect, for any owner the caller leaves. *)
LEMMA ResetType ==
  ASSUME TypeOK, Reset, link' \in LinkStates, conn' \in Channels \cup {NoConn}, chan' \in [Channels -> ChanStates],
         hasVoice' \in BOOLEAN, hasSms' \in BOOLEAN, volSync' \in BOOLEAN
  PROVE  TypeOK'
<1>1. conf' \in Confs /\ queue' \in Seq(Command) /\ lastcmd' \in Command \cup {NoCmd}
  BY EmptyCommands DEF TypeOK, Reset
<1>2. simstatus' \in SimStates /\ pincount' \in {0, 1}
  BY DEF Reset, SimStates
<1>3. /\ initialized' \in BOOLEAN /\ registered' \in BOOLEAN /\ incomingPdu' \in BOOLEAN
      /\ incoming' \in BOOLEAN /\ outgoing' \in BOOLEAN
      /\ needchup' \in BOOLEAN /\ needring' \in BOOLEAN
  BY DEF Reset
<1> QED
  BY <1>1, <1>2, <1>3 DEF TypeOK

(* disconnect, with its own treatment of the owner. *)
LEMMA DisconnectType ==
  ASSUME TypeOK, Disconnect, hasVoice' \in BOOLEAN, hasSms' \in BOOLEAN, volSync' \in BOOLEAN
  PROVE  TypeOK'
BY EndOwnerType, ResetType DEF Disconnect, DropLink, LinkStates

(* Appending a list of commands keeps the type of the queue. *)
LEMMA EnqueuedType ==
  ASSUME TypeOK, NEW cmds \in Seq(Command), Enqueue(cmds)
  PROVE  queue' \in Seq(Command)
BY EnqueueType DEF TypeOK, Enqueue

(* A short list of commands: none, or one. *)
LEMMA AnsweredType ==
  ASSUME TypeOK, NEW x \in Command, Answered(<<>>) \/ Answered(<<x>>)
  PROVE  queue' \in Seq(Command) /\ lastcmd' = NoCmd
BY EnqueueType, OneCommand, EmptyCommands DEF TypeOK, Answered, Enqueue

-----------------------------------------------------------------------------
(* Type correctness, a lemma per group of actions.                         *)

(* The discovery and monitor threads keep the types. *)
LEMMA MonitorType == TypeOK /\ Monitor => TypeOK'
<1> SUFFICES ASSUME TypeOK, Monitor PROVE TypeOK'
  OBVIOUS
<1>1. CASE TryConnect
  BY <1>1 DEF TypeOK, TryConnect, LinkStates, sim, sticky, pipe, flags
<1>2. CASE MonitorStart \/ MonitorLate
  <2>1. queue' \in Seq(Command) /\ link' \in LinkStates
    BY <1>2, CommandType, OneCommand DEF MonitorStart, MonitorLate, InitCmds, LinkStates
  <2> QED
    BY <1>2, <2>1 DEF TypeOK, MonitorStart, MonitorLate, sim, sticky, flags
<1>3. CASE SendCommand
  <2>1. queue' \in Seq(Command) /\ lastcmd' \in Command
    BY <1>3 DEF TypeOK, SendCommand
  <2> QED
    BY <1>3, <2>1 DEF TypeOK, SendCommand, session, sim, sticky, flags
<1>4. CASE LostConnection \/ LostEarly
  <2>1. /\ chan' \in [Channels -> ChanStates] /\ conn' \in Channels \cup {NoConn}
        /\ hasVoice' \in BOOLEAN /\ hasSms' \in BOOLEAN /\ volSync' \in BOOLEAN
    BY <1>4, EndOwnerType DEF TypeOK, LostConnection, LostEarly, sticky
  <2>2. Reset /\ link' \in LinkStates
    BY <1>4 DEF LostConnection, LostEarly, LinkStates
  <2> QED
    BY <2>1, <2>2, ResetType
<1>5. CASE Timeout
  BY <1>5, DisconnectType DEF TypeOK, Timeout, sticky
<1>6. CASE MonitorLeave
  <2>1. queue' \in Seq(Command) /\ lastcmd' \in Command \cup {NoCmd} /\ link' \in LinkStates
    BY <1>6 DEF TypeOK, MonitorLeave, pipe, LinkStates
  <2> QED
    BY <1>6, <2>1 DEF TypeOK, MonitorLeave, sim, sticky, flags
<1> QED
  BY <1>1, <1>2, <1>3, <1>4, <1>5, <1>6 DEF Monitor

(* The handlers of OK keep the types. *)
LEMMA OkType == TypeOK /\ (OkChained \/ OkCpin \/ OkCnmi \/ OkService) => TypeOK'
<1> SUFFICES ASSUME TypeOK, OkChained \/ OkCpin \/ OkCnmi \/ OkService PROVE TypeOK'
  OBVIOUS
<1>1. CASE OkChained
  <2>1. Plain(NextInit(lastcmd.cmd, conf)) \in Command
    BY <1>1, NextInitType, CommandType DEF OkChained
  <2>2. queue' \in Seq(Command) /\ lastcmd' = NoCmd
    BY <1>1, <2>1, AnsweredType DEF OkChained
  <2> QED
    BY <1>1, <2>2 DEF TypeOK, OkChained, session, sim, flags
<1>2. CASE OkCpin
  <2>1. Plain("CIMI") \in Command /\ Plain("CPIN_ENTER") \in Command
    BY CommandType DEF InitCmds
  <2>2. CASE Disconnect
    BY <1>2, <2>2, DisconnectType DEF TypeOK, OkCpin, sticky
  <2>3. CASE ~Disconnect
    <3>1. queue' \in Seq(Command) /\ lastcmd' = NoCmd
      BY <1>2, <2>1, <2>3, AnsweredType DEF OkCpin
    <3>2. pincount' \in {0, 1}
      BY <1>2, <2>3 DEF TypeOK, OkCpin, session, sim
    <3> QED
      BY <1>2, <2>3, <3>1, <3>2 DEF TypeOK, OkCpin, session, sim, sticky, flags
  <2> QED
    BY <2>2, <2>3
<1>3. CASE OkCnmi
  <2>1. Plain("CSQ") \in Command
    BY CommandType DEF ServiceCmds
  <2>2. queue' \in Seq(Command) /\ lastcmd' = NoCmd
    BY <1>3, <2>1, AnsweredType DEF OkCnmi
  <2> QED
    BY <1>3, <2>2 DEF TypeOK, OkCnmi, sim, flags
<1>4. CASE OkService
  <2>1. lastcmd \in Command
    BY <1>4, CommandType DEF TypeOK, OkService
  <2>2. /\ Plain("DDSETEX") \in Command /\ Plain("CLVL") \in Command
        /\ With("D", lastcmd.obj) \in Command /\ With("CMGD", lastcmd.obj) \in Command
    BY <2>1, CommandType DEF ServiceCmds
  <2>3. OkFollows \in Seq(Command)
    BY <2>2, EmptyCommands, OneCommand DEF OkFollows
  <2>4. queue' \in Seq(Command) /\ lastcmd' = NoCmd
    BY <1>4, <2>3, EnqueuedType DEF OkService, Answered
  <2> QED
    BY <1>4, <2>4 DEF TypeOK, OkService, session, sim, flags
<1> QED
  BY <1>1, <1>2, <1>3, <1>4

(* The handlers of ERROR keep the types. *)
LEMMA ErrorType ==
  TypeOK /\ (ErrorRequired \/ ErrorOptional \/ ErrorSmsProbe \/ ErrorService) => TypeOK'
<1> SUFFICES ASSUME TypeOK, ErrorRequired \/ ErrorOptional \/ ErrorSmsProbe \/ ErrorService
             PROVE  TypeOK'
  OBVIOUS
<1>1. CASE ErrorRequired
  BY <1>1, DisconnectType DEF TypeOK, ErrorRequired, sticky
<1>2. CASE ErrorOptional
  <2>1. Plain("CNUM") \in Command /\ Plain("CMGF") \in Command
    BY CommandType DEF InitCmds
  <2>2. queue' \in Seq(Command) /\ lastcmd' = NoCmd
    BY <1>2, <2>1, AnsweredType DEF ErrorOptional
  <2> QED
    BY <1>2, <2>2 DEF TypeOK, ErrorOptional, session, sim, flags
<1>3. CASE ErrorSmsProbe
  <2>1. CASE initialized
    <3>1. queue' \in Seq(Command) /\ lastcmd' = NoCmd
      BY <1>3, <2>1, EnqueuedType, EmptyCommands DEF ErrorSmsProbe, Answered
    <3> QED
      BY <1>3, <2>1, <3>1 DEF TypeOK, ErrorSmsProbe, session, sim, flags
  <2>2. CASE ~initialized
    BY <1>3, <2>2, DisconnectType DEF TypeOK, ErrorSmsProbe
  <2> QED
    BY <2>1, <2>2
<1>4. CASE ErrorService
  <2>1. lastcmd \in Command
    BY <1>4, CommandType DEF TypeOK, ErrorService
  <2>2. With("D", lastcmd.obj) \in Command
    BY <2>1, CommandType DEF ServiceCmds
  <2>3. /\ needchup' \in BOOLEAN /\ queue' \in Seq(Command) /\ outgoing' \in BOOLEAN
        /\ conn' \in Channels \cup {NoConn} /\ chan' \in [Channels -> ChanStates]
    BY <1>4, <2>2, OneCommand, EnqueuedType, HangupType DEF TypeOK, ErrorService
  <2> QED
    BY <1>4, <2>3 DEF TypeOK, ErrorService, session, sim
<1> QED
  BY <1>1, <1>2, <1>3, <1>4

(* The handlers of the other lines keep the types. *)
LEMMA UnsolicitedType == TypeOK /\ Unsolicited => TypeOK'
<1> SUFFICES ASSUME TypeOK, Unsolicited PROVE TypeOK'
  OBVIOUS
<1>0. /\ Plain("COPS") \in Command /\ Plain("CLVL") \in Command
      /\ \A i \in SmsIndexes : With("CMGR", i) \in Command
  BY CommandType DEF ServiceCmds
<1>1. ASSUME NEW s \in SimReports, ResponseCpin(s) PROVE TypeOK'
  BY <1>1 DEF TypeOK, ResponseCpin, sticky, pipe, flags
<1>2. ASSUME NEW reg \in BOOLEAN, ResponseCreg(reg) PROVE TypeOK'
  <2>1. queue' \in Seq(Command)
    BY <1>0, <1>2, OneCommand, EnqueuedType DEF ResponseCreg
  <2> QED
    BY <1>2, <2>1 DEF TypeOK, ResponseCreg, sim, sticky, flags
<1>3. ASSUME NEW i \in SmsIndexes, ResponseCmti(i) PROVE TypeOK'
  <2>1. queue' \in Seq(Command)
    BY <1>0, <1>3, OneCommand, EnqueuedType DEF ResponseCmti
  <2> QED
    BY <1>3, <2>1 DEF TypeOK, ResponseCmti, session, sim, sticky, flags
<1>4. CASE ResponseCmgr
  BY <1>4 DEF TypeOK, ResponseCmgr, sim, sticky, pipe, flags
<1>5. ASSUME NEW parsed \in BOOLEAN, ResponsePdu(parsed) PROVE TypeOK'
  <2>1. CASE parsed
    <3>1. UNCHANGED <<conf, link, initialized, registered, sim, pipe, conn, flags, chan, sticky>>
      BY <1>5, <2>1 DEF ResponsePdu
    <3>2. incomingPdu' \in BOOLEAN
      BY <1>5, <2>1 DEF ResponsePdu
    <3> QED
      BY <3>1, <3>2 DEF TypeOK, sim, sticky, pipe, flags
  <2>2. CASE ~parsed
    BY <1>5, <2>2, DisconnectType DEF TypeOK, ResponsePdu, sticky
  <2> QED
    BY <2>1, <2>2
<1>6. CASE MalformedLine
  BY <1>6, DisconnectType DEF TypeOK, MalformedLine, sticky
<1>7. CASE ResponseOrig
  <2>1. queue' \in Seq(Command)
    BY <1>0, <1>7, OneCommand, EnqueuedType DEF ResponseOrig, SyncVolume
  <2>2. volSync' \in BOOLEAN
    BY <1>7 DEF ResponseOrig, SyncVolume
  <2>3. UNCHANGED <<conf, session, hasVoice, hasSms, lastcmd, conn, flags, chan>>
    BY <1>7 DEF ResponseOrig
  <2> QED
    BY <2>1, <2>2, <2>3 DEF TypeOK, session, sim, flags
<1>8. CASE ResponseCend
  <2>1. /\ needchup' \in BOOLEAN /\ queue' \in Seq(Command)
        /\ conn' \in Channels \cup {NoConn} /\ chan' \in [Channels -> ChanStates]
    BY <1>8, HangupType DEF ResponseCend
  <2> QED
    BY <1>8, <2>1 DEF TypeOK, ResponseCend, session, sim, sticky
<1>9. ASSUME NEW c \in Channels, ResponseClip(c) PROVE TypeOK'
  <2>1. chan' \in [Channels -> ChanStates] /\ conn' \in Channels \cup {NoConn}
    BY <1>9 DEF TypeOK, ResponseClip, ChanStates
  <2> QED
    BY <1>9, <2>1 DEF TypeOK, ResponseClip, session, sim, sticky, pipe
<1>10. CASE ResponseClipFails
  <2>1. /\ chan' \in [Channels -> ChanStates] /\ conn' \in Channels \cup {NoConn}
        /\ hasVoice' \in BOOLEAN /\ hasSms' \in BOOLEAN /\ volSync' \in BOOLEAN
    BY <1>10 DEF TypeOK, ResponseClipFails, sticky
  <2> QED
    BY <1>10, <2>1, ResetType DEF ResponseClipFails, DropLink, LinkStates
<1>11. CASE ResponseRing
  <2>1. queue' \in Seq(Command) /\ volSync' \in BOOLEAN
    BY <1>0, <1>11, OneCommand, EnqueuedType DEF TypeOK, ResponseRing, SyncVolume
  <2> QED
    BY <1>11, <2>1 DEF TypeOK, ResponseRing, session, sim
<1>12. CASE ResponseBusy
  <2>1. /\ needchup' \in BOOLEAN /\ queue' \in Seq(Command)
        /\ conn' \in Channels \cup {NoConn} /\ chan' \in [Channels -> ChanStates]
    BY <1>12, HangupType DEF ResponseBusy
  <2> QED
    BY <1>12, <2>1 DEF TypeOK, ResponseBusy, session, sim, sticky
<1>13. CASE ResponseNoCarrier
  <2>1. /\ needchup' \in BOOLEAN /\ queue' \in Seq(Command)
        /\ conn' \in Channels \cup {NoConn} /\ chan' \in [Channels -> ChanStates]
    BY <1>13, HangupType DEF ResponseNoCarrier
  <2> QED
    BY <1>13, <2>1 DEF TypeOK, ResponseNoCarrier, session, sim, sticky
<1> QED
  BY <1>1, <1>2, <1>3, <1>4, <1>5, <1>6, <1>7, <1>8, <1>9, <1>10, <1>11, <1>12, <1>13
     DEF Unsolicited

(* The engine's threads keep the types. *)
LEMMA EngineType == TypeOK /\ Engine => TypeOK'
<1> SUFFICES ASSUME TypeOK, Engine PROVE TypeOK'
  OBVIOUS
<1>0. /\ \A k \in {"CMGS", "CUSD", "A", "DTMF", "CHUP"} : Plain(k) \in Command
      /\ \A c \in Channels : With("CLIR", c) \in Command /\ With("D", c) \in Command
  BY CommandType DEF ServiceCmds
<1>1. CASE SendSms
  <2>1. queue' \in Seq(Command)
    BY <1>0, <1>1, OneCommand, EnqueuedType DEF SendSms
  <2> QED
    BY <1>1, <2>1 DEF TypeOK, SendSms, session, sim, sticky, flags
<1>2. CASE SendUssd
  <2>1. queue' \in Seq(Command)
    BY <1>0, <1>2, OneCommand, EnqueuedType DEF SendUssd
  <2> QED
    BY <1>2, <2>1 DEF TypeOK, SendUssd, session, sim, sticky, flags
<1>3. ASSUME NEW c \in Channels, Execute(c) \/ SetConnection(c) \/ Routed(c) PROVE TypeOK'
  <2>1. chan' \in [Channels -> ChanStates] /\ conn' \in Channels \cup {NoConn}
    BY <1>3 DEF TypeOK, Execute, SetConnection, Routed, ChanStates
  <2> QED
    BY <1>3, <2>1 DEF TypeOK, Execute, SetConnection, Routed, session, sim, sticky, pipe, flags
<1>4. ASSUME NEW c \in Channels, NEW clir \in BOOLEAN, NewCall(c, clir) PROVE TypeOK'
  <2>1. chan' \in [Channels -> ChanStates]
    BY <1>4 DEF TypeOK, NewCall, ChanStates
  <2>2. queue' \in Seq(Command)
    BY <1>0, <1>4, OneCommand, EnqueuedType DEF NewCall
  <2> QED
    BY <1>4, <2>1, <2>2 DEF TypeOK, NewCall, session, sim, sticky
<1>5. ASSUME NEW c \in Channels, SendAnswer(c) \/ SendDtmf(c) PROVE TypeOK'
  <2>1. queue' \in Seq(Command)
    BY <1>0, <1>5, OneCommand, EnqueuedType DEF SendAnswer, SendDtmf
  <2> QED
    BY <1>5, <2>1 DEF TypeOK, SendAnswer, SendDtmf, session, sim, sticky, flags
<1>6. ASSUME NEW c \in Channels, Destroy(c) PROVE TypeOK'
  <2>1. chan' \in [Channels -> ChanStates] /\ conn' \in Channels \cup {NoConn}
    BY <1>6 DEF TypeOK, Destroy, ChanStates
  <2>2. Chup \in Seq(Command)
    BY <1>0, OneCommand, EmptyCommands DEF Chup
  <2>3. queue' \in Seq(Command)
    BY <1>6, <2>2, EnqueuedType DEF Destroy
  <2> QED
    BY <1>6, <2>1, <2>3 DEF TypeOK, Destroy, session, sim, sticky
<1> QED
  BY <1>1, <1>2, <1>3, <1>4, <1>5, <1>6 DEF Engine

(* A step that changes nothing keeps the types. *)
LEMMA StutterType == TypeOK /\ UNCHANGED vars => TypeOK'
BY DEF TypeOK, vars, session, sim, sticky, pipe, flags

(* A new CardDevice has the types. *)
LEMMA InitType == Init => TypeOK
<1> SUFFICES ASSUME Init PROVE TypeOK
  OBVIOUS
<1>1. /\ conf \in Confs /\ link \in LinkStates
      /\ queue \in Seq(Command) /\ lastcmd \in Command \cup {NoCmd}
  BY EmptyCommands DEF Init, LinkStates
<1>2. conn \in Channels \cup {NoConn} /\ chan \in [Channels -> ChanStates]
  BY DEF Init, ChanStates
<1>3. simstatus \in SimStates /\ pincount \in {0, 1}
  BY DEF Init, SimStates
<1>4. /\ initialized \in BOOLEAN /\ registered \in BOOLEAN /\ incomingPdu \in BOOLEAN
      /\ hasVoice \in BOOLEAN /\ hasSms \in BOOLEAN /\ volSync \in BOOLEAN
      /\ incoming \in BOOLEAN /\ outgoing \in BOOLEAN
      /\ needchup \in BOOLEAN /\ needring \in BOOLEAN
  BY DEF Init
<1> QED
  BY <1>1, <1>2, <1>3, <1>4 DEF TypeOK

(* Every field of the card keeps its declared type. *)
THEOREM TypeCorrect == Spec => []TypeOK
<1>1. TypeOK /\ [Next]_vars => TypeOK'
  BY MonitorType, OkType, ErrorType, UnsolicitedType, EngineType, StutterType DEF Next, Answer
<1> QED
  BY <1>1, InitType, PTL DEF Spec

-----------------------------------------------------------------------------
(* The pipe: which slots hold a command of the kinds K.                    *)

ServiceSeq == {s \in Seq(Command) : \A i \in 1 .. Len(s) : s[i].cmd \in ServiceCmds}

(* No command is both of the initialisation and of the service. *)
LEMMA KindsDisjoint == \A k \in ServiceCmds : k \notin InitCmds
BY DEF ServiceCmds, InitCmds

(* The lists of service commands the handlers append. *)
LEMMA ServiceSeqs ==
  /\ <<>> \in ServiceSeq
  /\ \A x \in Command : x.cmd \in ServiceCmds => <<x>> \in ServiceSeq
BY DEF ServiceSeq

(* Service commands are commands, with their kind. *)
LEMMA ServiceCommands ==
  /\ \A k \in ServiceCmds : Plain(k) \in Command /\ Plain(k).cmd \in ServiceCmds
  /\ \A k \in ServiceCmds, o \in Channels \cup SmsIndexes \cup {NoObj} :
        With(k, o) \in Command /\ With(k, o).cmd \in ServiceCmds
BY DEF Command, Plain, With

(* Appending service commands moves no init command, nor does an answer to *)
(* a command that is not of the kinds K.                                   *)
LEMMA ServicePipe ==
  ASSUME TypeOK, NEW s \in ServiceSeq, NEW K \in SUBSET InitCmds, Enqueue(s),
         \/ lastcmd' = lastcmd
         \/ lastcmd.cmd \notin K /\ lastcmd' = NoCmd
  PROVE  Slots(K)' = Slots(K)
<1>1. queue \in Seq(Command) /\ s \in Seq(Command) /\ queue' = queue \o s
  BY DEF TypeOK, Enqueue, ServiceSeq
<1>2. Len(queue') = Len(queue) + Len(s) /\ Len(queue) \in Nat /\ Len(s) \in Nat
  BY <1>1
<1>3. \A i \in 1 .. Len(queue) : queue'[i] = queue[i]
  BY <1>1
<1>4. \A i \in (Len(queue) + 1) .. Len(queue') : queue'[i].cmd \notin K
  <2> SUFFICES ASSUME NEW i \in (Len(queue) + 1) .. Len(queue')
               PROVE  queue'[i].cmd \notin K
    OBVIOUS
  <2>1. queue'[i] = s[i - Len(queue)] /\ i - Len(queue) \in 1 .. Len(s)
    BY <1>1, <1>2
  <2> QED
    BY <2>1, KindsDisjoint DEF ServiceSeq
<1>5. lastcmd'.cmd \in K <=> lastcmd.cmd \in K
  BY CommandType
<1>6. \A i \in 0 .. Len(queue') :
         i \in Slots(K)' <=> i \in Slots(K)
  <2> SUFFICES ASSUME NEW i \in 0 .. Len(queue') PROVE i \in Slots(K)' <=> i \in Slots(K)
    OBVIOUS
  <2>1. CASE i = 0
    BY <2>1, <1>2, <1>5 DEF Slots, Slot
  <2>2. CASE i \in 1 .. Len(queue)
    BY <2>2, <1>2, <1>3 DEF Slots, Slot
  <2>3. CASE i \in (Len(queue) + 1) .. Len(queue')
    BY <2>3, <1>2, <1>4 DEF Slots, Slot
  <2> QED
    BY <2>1, <2>2, <2>3, <1>2
<1> QED
  BY <1>2, <1>6 DEF Slots

(* The answer to a command of the kinds K, the only one in the pipe, that  *)
(* is followed by the command x.                                           *)
LEMMA FollowedPipe ==
  ASSUME TypeOK, NEW x \in Command, NEW K \in SUBSET InitCmds, Answered(<<x>>),
         Slots(K) \subseteq {0}
  PROVE  Slots(K)' = IF x.cmd \in K THEN {Len(queue) + 1} ELSE {}
<1>1. queue \in Seq(Command) /\ queue' = queue \o <<x>> /\ Len(queue) \in Nat
  BY DEF TypeOK, Answered, Enqueue
<1>2. /\ Len(queue') = Len(queue) + 1
      /\ queue'[Len(queue) + 1] = x
      /\ \A i \in 1 .. Len(queue) : queue'[i] = queue[i]
  BY <1>1
<1>3. lastcmd'.cmd \notin K
  BY CommandType DEF Answered
<1>4. \A i \in 1 .. Len(queue) : queue[i].cmd \notin K
  BY <1>1 DEF Slots, Slot
<1> QED
  BY <1>1, <1>2, <1>3, <1>4 DEF Slots, Slot

(* The head of the queue becomes the awaited command. *)
HeadTaken == /\ queue # <<>> /\ lastcmd' = Head(queue) /\ queue' = Tail(queue)

(* That shifts every slot by one. *)
LEMMA SentPipe ==
  ASSUME TypeOK, HeadTaken, NEW K \in SUBSET InitCmds, lastcmd.cmd \notin K
  PROVE  Slots(K)' = {i - 1 : i \in Slots(K)}
<1>1. /\ queue \in Seq(Command) /\ queue # <<>>
      /\ queue' = Tail(queue) /\ lastcmd' = Head(queue)
  BY DEF TypeOK, HeadTaken
<1>2. /\ Len(queue) \in Nat \ {0} /\ Len(queue') = Len(queue) - 1
      /\ \A i \in 1 .. Len(queue') : queue'[i] = queue[i + 1]
      /\ lastcmd' = queue[1]
  BY <1>1
<1>4. \A i \in 0 .. Len(queue') : i \in Slots(K)' <=> i + 1 \in Slots(K)
  BY <1>2 DEF Slots, Slot
<1>5. \A i \in Slots(K) : i \in 1 .. Len(queue)
  BY <1>2 DEF Slots, Slot
<1>6. \A i \in Slots(K) : i - 1 \in Slots(K)'
  BY <1>2, <1>4, <1>5
<1>7. \A j \in Slots(K)' : j + 1 \in Slots(K) /\ j = (j + 1) - 1
  BY <1>2, <1>4 DEF Slots
<1> QED
  BY <1>6, <1>7

(* A pipe with neither a queue nor an awaited command. *)
LEMMA EmptyPipe ==
  ASSUME queue' = <<>>, lastcmd' = NoCmd, NEW K \in SUBSET InitCmds
  PROVE  Slots(K)' = {}
BY CommandType DEF Slots, Slot

(* The sets of kinds the pipe is asked about. *)
LEMMA PinKind ==
  /\ PinCmds \in SUBSET InitCmds /\ InitCmds \in SUBSET InitCmds /\ {"AT"} \in SUBSET InitCmds
BY DEF InitCmds, PinCmds

-----------------------------------------------------------------------------
(* The part of the invariant that speaks of the pipe.                      *)

PipeInv == InitToken /\ PinCounted /\ NothingOutlives

(* What every step does for it. *)
PipeStep == PipeInv' /\ PinStep

(* The kinds that may be in a pipe outside of a session. *)
Outside == BlindCmds \cup {"AT", "none"}

(* Outside of a session no command of it is in the pipe, slot by slot. *)
LEMMA OutsideSlots ==
  ASSUME TypeOK
  PROVE  NothingOutlives <=>
           (link # "up" => /\ lastcmd.cmd \in Outside
                           /\ \A i \in 1 .. Len(queue) : queue[i].cmd \in Outside)
<1>1. Len(queue) \in Nat
  BY DEF TypeOK
<1>2. \A i \in 0 .. Len(queue) : i = 0 \/ i \in 1 .. Len(queue)
  BY <1>1
<1>3. 0 \in 0 .. Len(queue) /\ \A i \in 1 .. Len(queue) : i \in 0 .. Len(queue) /\ i # 0
  BY <1>1
<1> QED
  BY <1>2, <1>3 DEF NothingOutlives, Outside, Slot

(* A step that moves no init command and leaves the session alone. *)
LEMMA PipeKept ==
  ASSUME PipeInv, Slots(InitCmds)' = Slots(InitCmds), Slots(PinCmds)' = Slots(PinCmds),
         Slots({"AT"})' = Slots({"AT"}), NothingOutlives',
         UNCHANGED <<conf, link, initialized, pincount>>
  PROVE  PipeStep
<1>1. InitToken'
  BY DEF PipeInv, InitToken, Initializing, LeftBehind, Slots
<1>2. PinCounted'
  BY DEF PipeInv, PinCounted
<1> QED
  BY <1>1, <1>2 DEF PipeInv, PipeStep, PinStep

(* The same, for a step that appends service commands; outside of a        *)
(* session they are those the engine appends blindly.                      *)
LEMMA ServiceStep ==
  ASSUME TypeOK, PipeInv, NEW s \in ServiceSeq, Enqueue(s),
         \/ lastcmd' = lastcmd
         \/ lastcmd.cmd \notin InitCmds /\ lastcmd' = NoCmd,
         UNCHANGED <<conf, link, initialized, pincount>>,
         link = "up" \/ \A i \in 1 .. Len(s) : s[i].cmd \in BlindCmds
  PROVE  PipeStep
<1>1. /\ Slots(InitCmds)' = Slots(InitCmds) /\ Slots(PinCmds)' = Slots(PinCmds)
      /\ Slots({"AT"})' = Slots({"AT"})
  BY ServicePipe, PinKind DEF PinCmds, InitCmds
<1>2. NothingOutlives'
  <2>1. CASE link = "up"
    BY <2>1 DEF NothingOutlives
  <2>2. CASE link # "up"
    <3>1. /\ queue \in Seq(Command) /\ s \in Seq(Command) /\ queue' = queue \o s
          /\ lastcmd' \in Command \cup {NoCmd}
      BY DEF TypeOK, Enqueue, ServiceSeq
    <3>2. lastcmd.cmd \in Outside /\ \A i \in 1 .. Len(queue) : queue[i].cmd \in Outside
      BY <2>2, OutsideSlots DEF PipeInv
    <3>3. lastcmd'.cmd \in Outside
      BY <3>2, CommandType DEF Outside
    <3>4. ASSUME NEW i \in 1 .. Len(queue') PROVE queue'[i].cmd \in Outside
      <4>1. CASE i \in 1 .. Len(queue)
        BY <3>1, <3>2, <4>1
      <4>2. CASE i \notin 1 .. Len(queue)
        <5>1. i - Len(queue) \in 1 .. Len(s) /\ queue'[i] = s[i - Len(queue)]
          BY <3>1, <4>2
        <5> QED
          BY <2>2, <5>1 DEF Outside
      <4> QED
        BY <4>1, <4>2
    <3>5. \A i \in 0 .. Len(queue') : i = 0 \/ i \in 1 .. Len(queue')
      BY <3>1
    <3> QED
      BY <3>3, <3>4, <3>5 DEF NothingOutlives, Outside, Slot
  <2> QED
    BY <2>1, <2>2
<1> QED
  BY <1>1, <1>2, PipeKept

(* A step that leaves the pipe and the session alone. *)
LEMMA SamePipe ==
  ASSUME PipeInv, UNCHANGED <<conf, link, initialized, pincount, pipe>>
  PROVE  PipeStep
<1>1. /\ Slots(InitCmds)' = Slots(InitCmds) /\ Slots(PinCmds)' = Slots(PinCmds)
      /\ Slots({"AT"})' = Slots({"AT"})
  BY DEF pipe, Slots, Slot
<1>2. NothingOutlives'
  BY DEF pipe, PipeInv, NothingOutlives, Slot
<1> QED
  BY <1>1, <1>2, PipeKept

(* disconnect empties the pipe. *)
LEMMA DroppedPipe ==
  ASSUME Reset, link' # "up"
  PROVE  PipeStep
<1>1. Slots(InitCmds)' = {} /\ Slots(PinCmds)' = {}
  BY EmptyPipe, PinKind DEF Reset
<1>2. queue' = <<>> /\ lastcmd'.cmd = "none"
  BY CommandType DEF Reset
<1>3. NothingOutlives'
  BY <1>2 DEF NothingOutlives, Slot
<1>4. InitToken' /\ PinCounted' /\ PinStep
  BY <1>1 DEF PinStep, InitToken, Initializing, PinCounted
<1> QED
  BY <1>3, <1>4 DEF PipeStep, PipeInv

(* An init command is only answered while the session initialises, and it  *)
(* is then the only one in the pipe.                                       *)
LEMMA TokenHeld ==
  ASSUME TypeOK, InitToken, lastcmd.cmd \in InitCmds
  PROVE  Initializing /\ Slots(InitCmds) = {0}
<1>1. 0 \in Slots(InitCmds)
  BY DEF Slots, Slot, TypeOK
<1>2. Slots(InitCmds) # {1}
  BY <1>1
<1> QED
  BY <1>1, <1>2 DEF InitToken, LeftBehind

(* The token passes to the next command of the chain. *)
LEMMA TokenPassed ==
  ASSUME TypeOK, PipeInv, lastcmd.cmd \in InitCmds, NEW k \in InitCmds, Answered(<<Plain(k)>>),
         UNCHANGED <<conf, link, initialized>>,
         k = "CPIN_ENTER" => conf.pin /\ pincount' = 1 /\ pincount = 0 /\ simstatus = 1
  PROVE  PipeStep
<1>1. Plain(k) \in Command /\ Plain(k).cmd = k
  BY CommandType DEF Plain
<1>2. Initializing /\ Slots(InitCmds) = {0}
  BY TokenHeld DEF PipeInv
<1>3. Slots(InitCmds)' = {Len(queue) + 1}
  BY <1>1, <1>2, FollowedPipe, PinKind
<1>4. Slots(PinCmds) \subseteq {0}
  BY <1>2, PinKind DEF Slots
<1>5. Slots(PinCmds)' = IF k = "CPIN_ENTER" THEN {Len(queue) + 1} ELSE {}
  BY <1>1, <1>4, FollowedPipe, PinKind DEF PinCmds
<1>6. InitToken'
  <2>1. Len(queue) + 1 \in (0 .. Len(queue))'
    BY <1>3 DEF Slots
  <2> QED
    BY <1>2, <1>3, <2>1 DEF InitToken, Initializing
<1>7. PinCounted'
  BY <1>5 DEF PinCounted
<1>8. NothingOutlives'
  BY <1>2 DEF Initializing, NothingOutlives
<1>9. PinStep
  BY <1>5 DEF PinStep
<1> QED
  BY <1>6, <1>7, <1>8, <1>9 DEF PipeInv, PipeStep

-----------------------------------------------------------------------------
(* PipeInv, a lemma per group of actions.                                  *)

(* The prologue leaves one AT and nothing else. *)
LEMMA Prologue ==
  ASSUME queue' = <<Plain("AT")>>, lastcmd' = NoCmd
  PROVE  /\ Slots(InitCmds)' = {1} /\ Slots({"AT"})' = {1} /\ Slots(PinCmds)' = {}
         /\ 1 \in (0 .. Len(queue))'
         /\ NothingOutlives'
<1>1. Len(queue') = 1 /\ queue'[1].cmd = "AT" /\ lastcmd'.cmd = "none"
  BY CommandType DEF Plain
<1>2. Slots(InitCmds)' = {1} /\ Slots({"AT"})' = {1} /\ Slots(PinCmds)' = {}
  BY <1>1 DEF Slots, Slot, InitCmds, PinCmds
<1>3. \A i \in 0 .. Len(queue') : i = 0 \/ i = 1
  BY <1>1
<1>4. NothingOutlives'
  BY <1>1, <1>3 DEF NothingOutlives, Slot
<1> QED
  BY <1>1, <1>2, <1>4

(* The first command is written, or goes to a closed descriptor. *)
LEMMA TakenPipe ==
  ASSUME TypeOK, PipeInv, HeadTaken, ~Awaiting \/ link = "leaving", link \in {"up", "leaving"},
         UNCHANGED <<conf, initialized, pincount>>,
         link' = IF link = "up" THEN "up" ELSE "down"
  PROVE  PipeStep
<1>1. lastcmd.cmd \notin InitCmds
  <2>1. CASE ~Awaiting
    BY <2>1, CommandType DEF Awaiting
  <2>2. CASE link = "leaving"
    <3>1. Slots(InitCmds) = {}
      BY <2>2 DEF PipeInv, InitToken, Initializing, LeftBehind
    <3>2. 0 \in 0 .. Len(queue)
      BY DEF TypeOK
    <3> QED
      BY <3>1, <3>2 DEF Slots, Slot
  <2> QED
    BY <2>1, <2>2
<1>2. \A K \in SUBSET InitCmds : Slots(K)' = {i - 1 : i \in Slots(K)}
  BY <1>1, SentPipe
<1>3. InitToken'
  <2>1. CASE Initializing
    <3>1. PICK i \in 0 .. Len(queue) : Slots(InitCmds) = {i}
      BY <2>1 DEF PipeInv, InitToken
    <3>2. Slots(InitCmds)' = {i - 1}
      BY <1>2, <3>1, PinKind
    <3>3. i - 1 \in (0 .. Len(queue))'
      BY <3>2 DEF Slots
    <3> QED
      BY <2>1, <3>2, <3>3 DEF InitToken, Initializing
  <2>2. CASE ~Initializing
    <3>1. Slots(InitCmds) = {}
      BY <2>2 DEF PipeInv, InitToken, LeftBehind
    <3>2. Slots(InitCmds)' = {}
      BY <1>2, <3>1, PinKind
    <3> QED
      BY <2>2, <3>2 DEF InitToken, Initializing
  <2> QED
    BY <2>1, <2>2
<1>4. Slots(PinCmds)' # {} => Slots(PinCmds) # {}
  BY <1>2, PinKind
<1>5. PinCounted' /\ PinStep
  BY <1>4 DEF PipeInv, PinCounted, PinStep
<1>6. NothingOutlives'
  <2>1. CASE link = "up"
    BY <2>1 DEF NothingOutlives
  <2>2. CASE link = "leaving"
    <3>1. \A i \in 1 .. Len(queue) : queue[i].cmd \in Outside
      BY <2>2, OutsideSlots DEF PipeInv
    <3>2. /\ queue \in Seq(Command) /\ queue # <<>>
          /\ queue' = Tail(queue) /\ lastcmd' = Head(queue)
      BY DEF TypeOK, HeadTaken
    <3>3. /\ Len(queue) \in Nat \ {0} /\ Len(queue') = Len(queue) - 1
          /\ \A i \in 1 .. Len(queue') : queue'[i] = queue[i + 1]
          /\ lastcmd' = queue[1]
      BY <3>2
    <3>4. lastcmd'.cmd \in Outside
      BY <3>1, <3>3
    <3>5. \A i \in 1 .. Len(queue') : queue'[i].cmd \in Outside
      BY <3>1, <3>3
    <3>6. \A i \in 0 .. Len(queue') : i = 0 \/ i \in 1 .. Len(queue')
      BY <3>3
    <3> QED
      BY <3>4, <3>5, <3>6 DEF NothingOutlives, Outside, Slot
  <2> QED
    BY <2>1, <2>2
<1> QED
  BY <1>3, <1>5, <1>6 DEF PipeInv, PipeStep

(* The monitor thread moves the token, starts it or drops it. *)
LEMMA MonitorPipe == TypeOK /\ PipeInv /\ ReadyHasSms /\ Monitor => PipeStep
<1> SUFFICES ASSUME TypeOK, PipeInv, ReadyHasSms, Monitor PROVE PipeStep
  OBVIOUS
<1>1. CASE TryConnect
  <2>1. /\ Slots(InitCmds)' = Slots(InitCmds) /\ Slots(PinCmds)' = Slots(PinCmds)
        /\ Slots({"AT"})' = Slots({"AT"})
    BY <1>1 DEF TryConnect, pipe, Slots, Slot
  <2>2. InitToken'
    BY <1>1, <2>1 DEF PipeInv, TryConnect, InitToken, Initializing, LeftBehind
  <2>3. PinCounted'
    BY <1>1, <2>1 DEF PipeInv, TryConnect, PinCounted, sim
  <2>4. NothingOutlives'
    BY <1>1 DEF PipeInv, TryConnect, NothingOutlives, Slot, pipe
  <2> QED
    BY <2>1, <2>2, <2>3, <2>4 DEF PipeInv, PipeStep, PinStep
<1>2. CASE MonitorStart
  <2>1. queue' = <<Plain("AT")>> /\ lastcmd' = NoCmd /\ link' = "up"
    BY <1>2 DEF MonitorStart
  <2>2. Initializing'
    BY <1>2 DEF MonitorStart, ReadyHasSms, Initializing
  <2>3. InitToken'
    BY <2>1, <2>2, Prologue DEF InitToken
  <2> QED
    BY <2>1, <2>3, Prologue DEF PipeStep, PinStep, PipeInv, PinCounted
<1>3. CASE SendCommand
  <2>1. /\ HeadTaken /\ ~Awaiting /\ link = "up" /\ link' = "up"
        /\ UNCHANGED <<conf, initialized, pincount>>
    BY <1>3 DEF SendCommand, HeadTaken, session, sim
  <2> QED
    BY <2>1, TakenPipe
<1>4. CASE LostConnection \/ LostEarly
  <2>1. Reset /\ link' # "up"
    BY <1>4 DEF LostConnection, LostEarly
  <2> QED
    BY <2>1, DroppedPipe
<1>5. CASE Timeout
  BY <1>5, DroppedPipe DEF Timeout, Disconnect, DropLink
<1>6. CASE MonitorLate
  <2>1. queue' = <<Plain("AT")>> /\ lastcmd' = NoCmd /\ link' = "down"
    BY <1>6 DEF MonitorLate
  <2>2. InitToken'
    BY <2>1, Prologue DEF InitToken, Initializing, LeftBehind
  <2> QED
    BY <2>1, <2>2, Prologue DEF PipeStep, PinStep, PipeInv, PinCounted
<1>7. CASE MonitorLeave
  <2>1. link = "leaving" /\ link' = "down" /\ UNCHANGED <<conf, initialized, pincount>>
    BY <1>7 DEF MonitorLeave, sim
  <2>2. CASE HeadTaken
    BY <2>1, <2>2, TakenPipe
  <2>3. CASE UNCHANGED pipe
    <3>1. Slots(InitCmds)' = Slots(InitCmds) /\ Slots(PinCmds)' = Slots(PinCmds)
      BY <2>3 DEF pipe, Slots, Slot
    <3>2. InitToken'
      BY <2>1, <3>1 DEF PipeInv, InitToken, Initializing, LeftBehind
    <3>3. NothingOutlives'
      BY <2>1, <2>3 DEF PipeInv, NothingOutlives, Slot, pipe
    <3>4. PinCounted' /\ PinStep
      BY <2>1, <3>1 DEF PipeInv, PinCounted, PinStep
    <3> QED
      BY <3>2, <3>3, <3>4 DEF PipeInv, PipeStep
  <2> QED
    BY <1>7, <2>2, <2>3 DEF MonitorLeave, HeadTaken
<1> QED
  BY <1>1, <1>2, <1>3, <1>4, <1>5, <1>6, <1>7 DEF Monitor

(* An answer passes the token on, ends the chain or drops it. *)
LEMMA AnswerPipe == TypeOK /\ PipeInv /\ Answer => PipeStep
<1> SUFFICES ASSUME TypeOK, PipeInv, Answer PROVE PipeStep
  OBVIOUS
<1>0. ASSUME lastcmd.cmd \in InitCmds PROVE link = "up" /\ ~initialized
  BY <1>0, TokenHeld DEF PipeInv, Initializing
<1>1. CASE OkChained
  <2>1. lastcmd.cmd \in InitCmds /\ lastcmd.cmd \in ChainedCmds
    BY <1>1 DEF OkChained, ChainedCmds
  <2>2. /\ Answered(<<Plain(NextInit(lastcmd.cmd, conf))>>)
        /\ UNCHANGED <<conf, link, initialized>>
    BY <1>0, <1>1, <2>1 DEF OkChained, session
  <2>3. NextInit(lastcmd.cmd, conf) \in InitCmds /\ NextInit(lastcmd.cmd, conf) # "CPIN_ENTER"
    BY <2>1, NextInitType DEF NextInit
  <2> QED
    BY <2>1, <2>2, <2>3, TokenPassed
<1>2. CASE OkCpin
  <2>1. lastcmd.cmd \in InitCmds /\ "CIMI" \in InitCmds /\ "CPIN_ENTER" \in InitCmds
    BY <1>2 DEF OkCpin, InitCmds
  <2>2. ~initialized
    BY <1>0, <2>1
  <2>3. CASE simstatus = 0
    <3>1. Answered(<<Plain("CIMI")>>) /\ UNCHANGED <<conf, link, initialized>>
      BY <1>2, <2>2, <2>3 DEF OkCpin, session
    <3> QED
      BY <2>1, <3>1, TokenPassed
  <2>4. CASE simstatus = 1 /\ conf.pin /\ pincount = 0
    <3>1. /\ Answered(<<Plain("CPIN_ENTER")>>) /\ UNCHANGED <<conf, link, initialized>>
          /\ pincount' = 1
      BY <1>2, <2>2, <2>4 DEF OkCpin, session
    <3> QED
      BY <2>1, <2>4, <3>1, TokenPassed
  <2>5. CASE simstatus # 0 /\ ~(simstatus = 1 /\ conf.pin /\ pincount = 0)
    BY <1>2, <2>2, <2>5, DroppedPipe DEF OkCpin, Disconnect, DropLink
  <2> QED
    BY <2>3, <2>4, <2>5
<1>3. CASE OkCnmi
  <2>1. lastcmd.cmd \in InitCmds
    BY <1>3 DEF OkCnmi, InitCmds
  <2>2. Initializing /\ Slots(InitCmds) = {0}
    BY <2>1, TokenHeld DEF PipeInv
  <2>3. Answered(<<Plain("CSQ")>>) /\ initialized' = TRUE /\ UNCHANGED <<conf, link, sim>>
    BY <1>3, <2>2 DEF OkCnmi, Initializing
  <2>4. Plain("CSQ") \in Command /\ Plain("CSQ").cmd \notin InitCmds
    BY CommandType DEF Plain, ServiceCmds, InitCmds
  <2>5. Slots(InitCmds)' = {}
    BY <2>2, <2>3, <2>4, FollowedPipe, PinKind
  <2>6. Slots(PinCmds)' = {}
    BY <2>5, PinKind DEF Slots
  <2> QED
    BY <2>2, <2>3, <2>5, <2>6
       DEF PipeStep, PinStep, PipeInv, InitToken, Initializing, PinCounted, NothingOutlives,
           LeftBehind
<1>4. CASE OkService
  <2>1. lastcmd \in Command /\ lastcmd.cmd \notin InitCmds
    BY <1>4, CommandType, KindsDisjoint DEF TypeOK, OkService
  <2>2. OkFollows \in ServiceSeq
    <3>1. lastcmd.obj \in Channels \cup SmsIndexes \cup {NoObj}
      BY <2>1, CommandType
    <3>2. \A k \in {"DDSETEX", "CLVL"} : <<Plain(k)>> \in ServiceSeq
      BY ServiceSeqs, ServiceCommands DEF ServiceCmds
    <3>3. \A k \in {"D", "CMGD"} : <<With(k, lastcmd.obj)>> \in ServiceSeq
      BY <3>1, ServiceSeqs, ServiceCommands DEF ServiceCmds
    <3> QED
      BY <3>2, <3>3, ServiceSeqs DEF OkFollows
  <2>3. /\ Enqueue(OkFollows) /\ lastcmd' = NoCmd /\ link = "up"
        /\ UNCHANGED <<conf, link, initialized, pincount>>
    BY <1>4 DEF OkService, Hears, Answered, session, sim
  <2> QED
    BY <2>1, <2>2, <2>3, ServiceStep
<1>5. CASE ErrorRequired
  BY <1>5, DroppedPipe DEF ErrorRequired, Disconnect, DropLink
<1>6. CASE ErrorOptional
  <2>1. lastcmd.cmd \in InitCmds /\ "CNUM" \in InitCmds /\ "CMGF" \in InitCmds
    BY <1>6 DEF ErrorOptional, OptionalCmds, InitCmds
  <2>2. PICK k \in {"CNUM", "CMGF"} : Answered(<<Plain(k)>>)
    BY <1>0, <1>6, <2>1 DEF ErrorOptional
  <2>3. UNCHANGED <<conf, link, initialized>>
    BY <1>6 DEF ErrorOptional, session
  <2> QED
    BY <2>1, <2>2, <2>3, TokenPassed
<1>7. CASE ErrorSmsProbe
  <2>1. lastcmd.cmd \in InitCmds
    BY <1>7 DEF ErrorSmsProbe, SmsProbes, InitCmds
  <2> QED
    BY <1>0, <1>7, <2>1, DroppedPipe DEF ErrorSmsProbe, Disconnect, DropLink
<1>8. CASE ErrorService
  <2>1. lastcmd \in Command /\ lastcmd.cmd \notin InitCmds
    BY <1>8, CommandType, KindsDisjoint DEF TypeOK, ErrorService
  <2>2. PICK s \in ServiceSeq : Enqueue(s)
    <3>1. <<>> \in ServiceSeq /\ <<Plain("CHUP")>> \in ServiceSeq
          /\ <<With("D", lastcmd.obj)>> \in ServiceSeq
      BY <2>1, CommandType, ServiceSeqs, ServiceCommands DEF ServiceCmds
    <3>2. queue' = queue => Enqueue(<<>>)
      BY DEF TypeOK, Enqueue
    <3> QED
      BY <1>8, <3>1, <3>2 DEF ErrorService, Hangup
  <2>3. lastcmd' = NoCmd /\ link = "up" /\ UNCHANGED <<conf, link, initialized, pincount>>
    BY <1>8 DEF ErrorService, Hears, session, sim
  <2> QED
    BY <2>1, <2>2, <2>3, ServiceStep
<1> QED
  BY <1>1, <1>2, <1>3, <1>4, <1>5, <1>6, <1>7, <1>8 DEF Answer

(* Unsolicited lines append service commands or drop the session. *)
LEMMA UnsolicitedPipe == TypeOK /\ PipeInv /\ Unsolicited => PipeStep
<1> SUFFICES ASSUME TypeOK, PipeInv, Unsolicited PROVE PipeStep
  OBVIOUS
<1>0. /\ <<>> \in ServiceSeq
      /\ \A k \in {"COPS", "CLVL", "CHUP"} : <<Plain(k)>> \in ServiceSeq
      /\ \A i \in SmsIndexes : <<With("CMGR", i)>> \in ServiceSeq
  BY ServiceSeqs, ServiceCommands DEF ServiceCmds
<1>a. queue' = queue => Enqueue(<<>>)
  BY DEF TypeOK, Enqueue
<1>1. ASSUME NEW s \in SimReports, ResponseCpin(s) PROVE PipeStep
  BY <1>1, SamePipe DEF ResponseCpin
<1>2. ASSUME NEW reg \in BOOLEAN, ResponseCreg(reg) PROVE PipeStep
  BY <1>0, <1>2, ServiceStep DEF ResponseCreg, Hears, sim
<1>3. ASSUME NEW i \in SmsIndexes, ResponseCmti(i) PROVE PipeStep
  BY <1>0, <1>3, ServiceStep DEF ResponseCmti, Hears, session, sim
<1>4. CASE ResponseCmgr
  BY <1>4, SamePipe DEF ResponseCmgr, sim
<1>5. ASSUME NEW parsed \in BOOLEAN, ResponsePdu(parsed) PROVE PipeStep
  BY <1>5, SamePipe, DroppedPipe DEF ResponsePdu, Disconnect, DropLink, sim
<1>6. CASE MalformedLine
  BY <1>6, DroppedPipe DEF MalformedLine, Disconnect, DropLink
<1>7. CASE ResponseOrig
  BY <1>0, <1>7, ServiceStep DEF ResponseOrig, Hears, SyncVolume, session, sim
<1>8. CASE ResponseCend
  <2>1. Enqueue(<<>>)
    BY <1>8, <1>a DEF ResponseCend, Hangup
  <2> QED
    BY <1>0, <1>8, <2>1, ServiceStep DEF ResponseCend, Hears, session, sim
<1>9. ASSUME NEW c \in Channels, ResponseClip(c) PROVE PipeStep
  BY <1>9, SamePipe DEF ResponseClip, session, sim
<1>10. CASE ResponseClipFails
  BY <1>10, DroppedPipe DEF ResponseClipFails, DropLink
<1>11. CASE ResponseRing
  <2>1. PICK s \in ServiceSeq : Enqueue(s)
    BY <1>0, <1>11, <1>a DEF ResponseRing, SyncVolume
  <2> QED
    BY <1>11, <2>1, ServiceStep DEF ResponseRing, Hears, session, sim
<1>12. CASE ResponseBusy
  <2>1. PICK s \in ServiceSeq : Enqueue(s)
    BY <1>0, <1>12, <1>a DEF ResponseBusy, Hangup
  <2> QED
    BY <1>12, <2>1, ServiceStep DEF ResponseBusy, Hears, session, sim
<1>13. CASE ResponseNoCarrier
  <2>1. PICK s \in ServiceSeq : Enqueue(s)
    BY <1>0, <1>13, <1>a DEF ResponseNoCarrier, Hangup
  <2>2. \/ lastcmd' = lastcmd
        \/ lastcmd.cmd \notin InitCmds /\ lastcmd' = NoCmd
    BY <1>13 DEF ResponseNoCarrier, InitCmds
  <2> QED
    BY <1>13, <2>1, <2>2, ServiceStep DEF ResponseNoCarrier, Hears, session, sim
<1> QED
  BY <1>1, <1>2, <1>3, <1>4, <1>5, <1>6, <1>7, <1>8, <1>9, <1>10, <1>11, <1>12, <1>13
     DEF Unsolicited

(* The engine's threads append service commands, outside of a session only *)
(* the blind ones.                                                         *)
LEMMA EnginePipe ==
  TypeOK /\ PipeInv /\ ReadyHasSms /\ IncomingInService /\ Engine => PipeStep
<1> SUFFICES ASSUME TypeOK, PipeInv, ReadyHasSms, IncomingInService, Engine PROVE PipeStep
  OBVIOUS
<1>0. /\ <<>> \in ServiceSeq
      /\ \A k \in {"CMGS", "CUSD", "A", "DTMF", "CHUP"} : <<Plain(k)>> \in ServiceSeq
      /\ \A k \in {"CLIR", "D"}, c \in Channels : <<With(k, c)>> \in ServiceSeq
  BY ServiceSeqs, ServiceCommands DEF ServiceCmds
<1>b. ASSUME NEW x \in Command, x.cmd \in BlindCmds
      PROVE  \A i \in 1 .. Len(<<x>>) : <<x>>[i].cmd \in BlindCmds
  BY <1>b
<1>1. CASE SendSms \/ SendUssd
  <2>1. link = "up"
    BY <1>1 DEF SendSms, SendUssd, ReadyHasSms
  <2> QED
    BY <1>0, <1>1, <2>1, ServiceStep DEF SendSms, SendUssd, session, sim
<1>3. ASSUME NEW c \in Channels, Execute(c) \/ SetConnection(c) \/ Routed(c) PROVE PipeStep
  BY <1>3, SamePipe DEF Execute, SetConnection, Routed, session, sim
<1>4. ASSUME NEW c \in Channels, NEW clir \in BOOLEAN, NewCall(c, clir) PROVE PipeStep
  <2> DEFINE x == With(IF clir THEN "CLIR" ELSE "D", c)
  <2>1. x \in Command /\ x.cmd \in BlindCmds
    BY ServiceCommands DEF ServiceCmds, BlindCmds, With
  <2>2. <<x>> \in ServiceSeq
    BY <1>0
  <2>3. Enqueue(<<x>>) /\ lastcmd' = lastcmd /\ UNCHANGED <<conf, link, initialized, pincount>>
    BY <1>4 DEF NewCall, session, sim
  <2> HIDE DEF x
  <2> QED
    BY <1>b, <2>1, <2>2, <2>3, ServiceStep
<1>5. ASSUME NEW c \in Channels, SendAnswer(c) PROVE PipeStep
  <2>1. link = "up"
    BY <1>5 DEF SendAnswer, ReadyHasSms, IncomingInService
  <2> QED
    BY <1>0, <1>5, <2>1, ServiceStep DEF SendAnswer, session, sim
<1>6. ASSUME NEW c \in Channels, SendDtmf(c) PROVE PipeStep
  <2>1. Plain("DTMF") \in Command /\ Plain("DTMF").cmd \in BlindCmds
    BY ServiceCommands DEF ServiceCmds, BlindCmds, Plain
  <2>2. /\ Enqueue(<<Plain("DTMF")>>) /\ lastcmd' = lastcmd
        /\ UNCHANGED <<conf, link, initialized, pincount>>
    BY <1>6 DEF SendDtmf, session, sim
  <2> QED
    BY <1>0, <1>b, <2>1, <2>2, ServiceStep
<1>7. ASSUME NEW c \in Channels, Destroy(c) PROVE PipeStep
  <2>1. Plain("CHUP") \in Command /\ Plain("CHUP").cmd \in BlindCmds
    BY ServiceCommands DEF ServiceCmds, BlindCmds, Plain
  <2>2. Chup \in ServiceSeq /\ \A i \in 1 .. Len(Chup) : Chup[i].cmd \in BlindCmds
    BY <1>0, <1>b, <2>1 DEF Chup
  <2>3. Enqueue(Chup) /\ lastcmd' = lastcmd /\ UNCHANGED <<conf, link, initialized, pincount>>
    BY <1>7 DEF Destroy, session, sim
  <2> QED
    BY <2>2, <2>3, ServiceStep
<1> QED
  BY <1>1, <1>3, <1>4, <1>5, <1>6, <1>7 DEF Engine

-----------------------------------------------------------------------------
(* The part of the invariant that speaks of the service and its calls.     *)

ServiceInv == ReadyHasSms /\ IncomingInService

(* disconnect takes the card out of service with its flags. *)
LEMMA DroppedService ==
  ASSUME Reset
  PROVE  ServiceInv'
BY DEF Reset, ServiceInv, ReadyHasSms, IncomingInService

(* A step that leaves the session and its incoming flags alone. *)
LEMMA ServiceKept ==
  ASSUME ServiceInv, UNCHANGED <<link, initialized, hasSms, incoming, needring>>
  PROVE  ServiceInv'
BY DEF ServiceInv, ReadyHasSms, IncomingInService

(* The monitor thread only takes the card out of service. *)
LEMMA MonitorService == TypeOK /\ ServiceInv /\ Monitor => ServiceInv'
<1> SUFFICES ASSUME TypeOK, ServiceInv, Monitor PROVE ServiceInv'
  OBVIOUS
<1>1. CASE TryConnect
  BY <1>1 DEF TryConnect, ServiceInv, ReadyHasSms, IncomingInService, sticky, flags
<1>2. CASE MonitorStart
  BY <1>2 DEF MonitorStart, ServiceInv, ReadyHasSms, IncomingInService, sticky, flags
<1>3. CASE SendCommand
  BY <1>3, ServiceKept DEF SendCommand, session, sticky, flags
<1>4. CASE LostConnection \/ LostEarly \/ Timeout
  BY <1>4, DroppedService DEF LostConnection, LostEarly, Timeout, Disconnect, DropLink
<1>5. CASE MonitorLate \/ MonitorLeave
  BY <1>5 DEF MonitorLate, MonitorLeave, ServiceInv, ReadyHasSms, IncomingInService, sticky, flags
<1> QED
  BY <1>1, <1>2, <1>3, <1>4, <1>5 DEF Monitor

(* An SMS probe is only awaited before the card is in service, so that its *)
(* failure never takes m_has_sms away from a card in service.              *)
LEMMA AnswerService == TypeOK /\ InitToken /\ ServiceInv /\ Answer => ServiceInv'
<1> SUFFICES ASSUME TypeOK, InitToken, ServiceInv, Answer PROVE ServiceInv'
  OBVIOUS
<1>1. CASE OkChained
  BY <1>1, ServiceKept DEF OkChained, session, flags
<1>2. CASE OkCpin
  BY <1>2, ServiceKept, DroppedService DEF OkCpin, session, sticky, flags, Disconnect, DropLink
<1>3. CASE OkCnmi
  <2>1. Initializing
    BY <1>3, TokenHeld DEF OkCnmi, InitCmds
  <2> QED
    BY <1>3, <2>1
       DEF OkCnmi, Initializing, ServiceInv, ReadyHasSms, IncomingInService, flags
<1>4. CASE OkService
  BY <1>4, ServiceKept DEF OkService, session, flags
<1>5. CASE ErrorRequired
  BY <1>5, DroppedService DEF ErrorRequired, Disconnect, DropLink
<1>6. CASE ErrorOptional
  BY <1>6, ServiceKept DEF ErrorOptional, session, flags
<1>7. CASE ErrorSmsProbe
  <2>1. ~initialized
    BY <1>7, TokenHeld DEF ErrorSmsProbe, SmsProbes, InitCmds, Initializing
  <2> QED
    BY <1>7, <2>1, DroppedService DEF ErrorSmsProbe, Disconnect, DropLink
<1>8. CASE ErrorService
  BY <1>8, ServiceKept DEF ErrorService, session
<1> QED
  BY <1>1, <1>2, <1>3, <1>4, <1>5, <1>6, <1>7, <1>8 DEF Answer

(* A call is announced only to a card in service. *)
LEMMA UnsolicitedService == TypeOK /\ ServiceInv /\ Unsolicited => ServiceInv'
<1> SUFFICES ASSUME TypeOK, ServiceInv, Unsolicited PROVE ServiceInv'
  OBVIOUS
<1>1. ASSUME NEW s \in SimReports, ResponseCpin(s) PROVE ServiceInv'
  BY <1>1, ServiceKept DEF ResponseCpin, sticky, flags
<1>2. ASSUME NEW reg \in BOOLEAN, ResponseCreg(reg) PROVE ServiceInv'
  BY <1>2, ServiceKept DEF ResponseCreg, sticky, flags
<1>3. ASSUME NEW i \in SmsIndexes, ResponseCmti(i) PROVE ServiceInv'
  BY <1>3, ServiceKept DEF ResponseCmti, session, sticky, flags
<1>4. CASE ResponseCmgr
  BY <1>4, ServiceKept DEF ResponseCmgr, sticky, flags
<1>5. ASSUME NEW parsed \in BOOLEAN, ResponsePdu(parsed) PROVE ServiceInv'
  BY <1>5, ServiceKept, DroppedService DEF ResponsePdu, Disconnect, DropLink, sticky, flags
<1>6. CASE MalformedLine
  BY <1>6, DroppedService DEF MalformedLine, Disconnect, DropLink
<1>7. CASE ResponseOrig
  BY <1>7, ServiceKept DEF ResponseOrig, session, flags
<1>8. CASE ResponseCend
  BY <1>8 DEF ResponseCend, ServiceInv, ReadyHasSms, IncomingInService, session, sticky
<1>9. ASSUME NEW c \in Channels, ResponseClip(c) PROVE ServiceInv'
  BY <1>9 DEF ResponseClip, ServiceInv, ReadyHasSms, IncomingInService, session, sticky
<1>10. CASE ResponseClipFails
  BY <1>10, DroppedService DEF ResponseClipFails, DropLink
<1>11. CASE ResponseRing
  BY <1>11 DEF ResponseRing, ServiceInv, ReadyHasSms, IncomingInService, session
<1>12. CASE ResponseBusy
  BY <1>12, ServiceKept DEF ResponseBusy, session, sticky
<1>13. CASE ResponseNoCarrier
  BY <1>13, ServiceKept DEF ResponseNoCarrier, session, sticky
<1> QED
  BY <1>1, <1>2, <1>3, <1>4, <1>5, <1>6, <1>7, <1>8, <1>9, <1>10, <1>11, <1>12, <1>13
     DEF Unsolicited

(* The engine's threads never announce an incoming call. *)
LEMMA EngineService == TypeOK /\ ServiceInv /\ Engine => ServiceInv'
<1> SUFFICES ASSUME TypeOK, ServiceInv, Engine PROVE ServiceInv'
  OBVIOUS
<1>1. CASE SendSms \/ SendUssd
  BY <1>1, ServiceKept DEF SendSms, SendUssd, session, sticky, flags
<1>2. ASSUME NEW c \in Channels,
             Execute(c) \/ SetConnection(c) \/ Routed(c) \/ SendAnswer(c) \/ SendDtmf(c)
      PROVE  ServiceInv'
  BY <1>2, ServiceKept
     DEF Execute, SetConnection, Routed, SendAnswer, SendDtmf, session, sticky, flags
<1>3. ASSUME NEW c \in Channels, NEW clir \in BOOLEAN, NewCall(c, clir) PROVE ServiceInv'
  BY <1>3, ServiceKept DEF NewCall, session, sticky
<1>4. ASSUME NEW c \in Channels, Destroy(c) PROVE ServiceInv'
  BY <1>4 DEF Destroy, ServiceInv, ReadyHasSms, IncomingInService, session, sticky
<1> QED
  BY <1>1, <1>2, <1>3, <1>4 DEF Engine

-----------------------------------------------------------------------------
(* The owner of the card.                                                  *)

(* A step that touches neither m_conn nor a channel. *)
LEMMA OwnerKept ==
  ASSUME OwnerAlive, UNCHANGED <<conn, chan>>
  PROVE  OwnerAlive'
BY DEF OwnerAlive

(* A step that clears m_conn. *)
LEMMA OwnerGone ==
  ASSUME conn' = NoConn
  PROVE  OwnerAlive'
BY DEF OwnerAlive

(* onHangup clears m_conn, and so does disconnect. *)
LEMMA OwnerDropped == EndOwner \/ Disconnect => OwnerAlive'
BY OwnerGone DEF Disconnect, EndOwner

(* Hangup clears m_conn, or has none to clear. *)
LEMMA OwnerHungUp ==
  ASSUME OwnerAlive, NEW chup \in BOOLEAN, Hangup(chup)
  PROVE  OwnerAlive'
BY OwnerKept, OwnerGone DEF Hangup, EndOwner

(* The monitor thread leaves the owner alone or clears it. *)
LEMMA MonitorOwner == OwnerAlive /\ Monitor => OwnerAlive'
<1> SUFFICES ASSUME OwnerAlive, Monitor PROVE OwnerAlive'
  OBVIOUS
<1>1. CASE TryConnect \/ MonitorStart \/ SendCommand \/ MonitorLate \/ MonitorLeave
  BY <1>1, OwnerKept DEF TryConnect, MonitorStart, SendCommand, MonitorLate, MonitorLeave
<1>2. CASE LostConnection \/ LostEarly \/ Timeout
  BY <1>2, OwnerDropped DEF LostConnection, LostEarly, Timeout
<1> QED
  BY <1>1, <1>2 DEF Monitor

(* So do the handlers of answers. *)
LEMMA AnswerOwner == TypeOK /\ OwnerAlive /\ Answer => OwnerAlive'
<1> SUFFICES ASSUME TypeOK, OwnerAlive, Answer PROVE OwnerAlive'
  OBVIOUS
<1>1. CASE OkChained \/ OkCpin \/ OkCnmi \/ OkService
  BY <1>1, OwnerKept, OwnerDropped DEF OkChained, OkCpin, OkCnmi, OkService
<1>2. CASE ErrorRequired \/ ErrorOptional \/ ErrorSmsProbe
  BY <1>2, OwnerKept, OwnerDropped DEF ErrorRequired, ErrorOptional, ErrorSmsProbe
<1>3. CASE ErrorService
  BY <1>3, OwnerKept, OwnerHungUp DEF ErrorService, TypeOK
<1> QED
  BY <1>1, <1>2, <1>3 DEF Answer

(* An unsolicited line clears the owner, or sets a new channel. *)
LEMMA UnsolicitedOwner == TypeOK /\ OwnerAlive /\ Unsolicited => OwnerAlive'
<1> SUFFICES ASSUME TypeOK, OwnerAlive, Unsolicited PROVE OwnerAlive'
  OBVIOUS
<1>1. CASE (\E s \in SimReports : ResponseCpin(s)) \/ (\E reg \in BOOLEAN : ResponseCreg(reg))
  BY <1>1, OwnerKept DEF ResponseCpin, ResponseCreg
<1>2. CASE (\E i \in SmsIndexes : ResponseCmti(i)) \/ ResponseCmgr \/ ResponseOrig \/ ResponseRing
  BY <1>2, OwnerKept DEF ResponseCmti, ResponseCmgr, ResponseOrig, ResponseRing
<1>3. ASSUME NEW parsed \in BOOLEAN, ResponsePdu(parsed) PROVE OwnerAlive'
  BY <1>3, OwnerKept, OwnerDropped DEF ResponsePdu
<1>4. CASE MalformedLine
  BY <1>4, OwnerDropped DEF MalformedLine
<1>5. CASE ResponseCend \/ ResponseBusy \/ ResponseNoCarrier
  BY <1>5, OwnerHungUp DEF ResponseCend, ResponseBusy, ResponseNoCarrier
<1>6. ASSUME NEW c \in Channels, ResponseClip(c) PROVE OwnerAlive'
  BY <1>6 DEF ResponseClip, OwnerAlive, Owning, TypeOK
<1>7. CASE ResponseClipFails
  BY <1>7, OwnerGone DEF ResponseClipFails
<1> QED
  BY <1>1, <1>2, <1>3, <1>4, <1>5, <1>6, <1>7 DEF Unsolicited

(* No step takes a channel that owns the card out of its life unnoticed:   *)
(* only its own destructor does, and that clears m_conn.                   *)
LEMMA EngineOwner == TypeOK /\ OwnerAlive /\ Engine => OwnerAlive'
<1> SUFFICES ASSUME TypeOK, OwnerAlive, Engine PROVE OwnerAlive'
  OBVIOUS
<1>1. CASE SendSms \/ SendUssd
  BY <1>1, OwnerKept DEF SendSms, SendUssd
<1>2. ASSUME NEW c \in Channels, Execute(c) PROVE OwnerAlive'
  BY <1>2 DEF Execute, OwnerAlive, Owning, TypeOK
<1>3. ASSUME NEW c \in Channels, SetConnection(c) PROVE OwnerAlive'
  BY <1>3 DEF SetConnection, OwnerAlive, Owning, TypeOK
<1>4. ASSUME NEW c \in Channels, NEW clir \in BOOLEAN, NewCall(c, clir) PROVE OwnerAlive'
  BY <1>4 DEF NewCall, OwnerAlive, Owning, TypeOK
<1>5. ASSUME NEW c \in Channels, Routed(c) PROVE OwnerAlive'
  BY <1>5 DEF Routed, OwnerAlive, Owning, TypeOK
<1>6. ASSUME NEW c \in Channels, SendAnswer(c) \/ SendDtmf(c) PROVE OwnerAlive'
  BY <1>6, OwnerKept DEF SendAnswer, SendDtmf
<1>7. ASSUME NEW c \in Channels, Destroy(c) PROVE OwnerAlive'
  BY <1>7, OwnerGone DEF Destroy
<1> QED
  BY <1>1, <1>2, <1>3, <1>4, <1>5, <1>6, <1>7 DEF Engine

-----------------------------------------------------------------------------
(* The inductive invariant, and what follows from it.                      *)

IInv == TypeOK /\ PipeInv /\ ServiceInv /\ OwnerAlive

(* The invariant holds of a new CardDevice. *)
LEMMA InitSafe == Init => IInv
<1> SUFFICES ASSUME Init PROVE IInv
  OBVIOUS
<1>1. queue = <<>> /\ lastcmd = NoCmd /\ link = "down"
  BY DEF Init
<1>2. Slots(InitCmds) = {} /\ Slots(PinCmds) = {}
  BY <1>1, CommandType, PinKind DEF Slots, Slot
<1>3. PipeInv
  <2>1. NothingOutlives
    BY <1>1, CommandType DEF NothingOutlives, Slot
  <2> QED
    BY <1>1, <1>2, <2>1 DEF PipeInv, InitToken, Initializing, PinCounted
<1>4. ServiceInv
  BY DEF Init, ServiceInv, ReadyHasSms, IncomingInService
<1>5. OwnerAlive
  BY DEF Init, OwnerAlive
<1> QED
  BY <1>3, <1>4, <1>5, InitType DEF IInv

(* Every step keeps the invariant, and obeys PinStep. *)
LEMMA NextSafe == IInv /\ [Next]_vars => IInv' /\ PinStep
<1> SUFFICES ASSUME IInv, [Next]_vars PROVE IInv' /\ PinStep
  OBVIOUS
<1>1. CASE Monitor
  BY <1>1, MonitorType, MonitorPipe, MonitorService, MonitorOwner
     DEF IInv, ServiceInv, PipeStep
<1>2. CASE Answer
  BY <1>2, OkType, ErrorType, AnswerPipe, AnswerService, AnswerOwner
     DEF IInv, PipeInv, PipeStep, Answer
<1>3. CASE Unsolicited
  BY <1>3, UnsolicitedType, UnsolicitedPipe, UnsolicitedService, UnsolicitedOwner
     DEF IInv, PipeStep
<1>4. CASE Engine
  BY <1>4, EngineType, EnginePipe, EngineService, EngineOwner DEF IInv, ServiceInv, PipeStep
<1>5. CASE UNCHANGED vars
  <2>1. UNCHANGED <<conf, link, initialized, pincount, pipe, hasSms, incoming, needring,
                    conn, chan>>
    BY <1>5 DEF vars, session, sim, sticky, flags
  <2> QED
    BY <1>5, <2>1, StutterType, SamePipe, ServiceKept, OwnerKept DEF IInv, PipeStep
<1> QED
  BY <1>1, <1>2, <1>3, <1>4, <1>5 DEF Next

(* Whatever the modem sends, the engine asks, and whichever thread loses   *)
(* the card: one init command in the pipe while the card initialises and   *)
(* none at any other time but an AT that is never sent, the PIN counted,   *)
(* SMS support on every card in service, incoming calls only on a card in  *)
(* service, m_conn never dangling, no command of a session in the pipe     *)
(* after it.                                                               *)
THEOREM SafetyHolds == Spec => []Safety
<1>1. IInv => Safety
  BY DEF IInv, PipeInv, ServiceInv, Safety
<1> QED
  BY <1>1, InitSafe, NextSafe, PTL DEF Spec

(* The parts of Safety, one by one.                                        *)

(* Exactly one command of the chain is in the pipe while the card          *)
(* initialises; at any other time there is none, or the AT of a prologue   *)
(* that came too late.                                                     *)
COROLLARY InitTokenHolds == Spec => []InitToken
<1>1. Safety => InitToken
  BY DEF Safety
<1> QED
  BY <1>1, SafetyHolds, PTL

(* A card in service supports SMS, and its monitor is in the loop. *)
COROLLARY ReadyHasSmsHolds == Spec => []ReadyHasSms
<1>1. Safety => ReadyHasSms
  BY DEF Safety
<1> QED
  BY <1>1, SafetyHolds, PTL

(* The PIN is in the pipe only when it is configured and counted. *)
COROLLARY PinCountedHolds == Spec => []PinCounted
<1>1. Safety => PinCounted
  BY DEF Safety
<1> QED
  BY <1>1, SafetyHolds, PTL

(* m_incoming and m_needring are only set on a card in service. *)
COROLLARY IncomingInServiceHolds == Spec => []IncomingInService
<1>1. Safety => IncomingInService
  BY DEF Safety
<1> QED
  BY <1>1, SafetyHolds, PTL

(* m_conn never points to a channel that has ended. *)
COROLLARY OwnerAliveHolds == Spec => []OwnerAlive
<1>1. Safety => OwnerAlive
  BY DEF Safety
<1> QED
  BY <1>1, SafetyHolds, PTL

(* No command of a session is in the pipe after it. *)
COROLLARY NothingOutlivesHolds == Spec => []NothingOutlives
<1>1. Safety => NothingOutlives
  BY DEF Safety
<1> QED
  BY <1>1, SafetyHolds, PTL

(* Only disconnect lowers the count of PIN entries. *)
LEMMA CountStepHolds == TypeOK /\ [Next]_vars => CountStep
<1> SUFFICES ASSUME TypeOK, [Next]_vars PROVE CountStep
  OBVIOUS
<1>1. ASSUME UNCHANGED pincount PROVE CountStep
  BY <1>1 DEF CountStep, TypeOK
<1>2. ASSUME DropLink \/ link' \notin {"starting", "up"} PROVE CountStep
  BY <1>2 DEF CountStep, Connected, DropLink
<1>3. CASE Monitor
  BY <1>1, <1>2, <1>3
     DEF Monitor, TryConnect, MonitorStart, SendCommand, LostConnection, LostEarly, MonitorLate,
         MonitorLeave, Timeout, Disconnect, session, sim
<1>4. CASE OkCpin
  <2>1. pincount' = pincount + 1 => CountStep
    BY DEF CountStep, TypeOK
  <2> QED
    BY <1>1, <1>2, <1>4, <2>1 DEF OkCpin, Disconnect, session, sim
<1>5. CASE OkChained \/ OkCnmi \/ OkService
  BY <1>1, <1>5 DEF OkChained, OkCnmi, OkService, session, sim
<1>6. CASE ErrorRequired \/ ErrorOptional \/ ErrorSmsProbe \/ ErrorService
  BY <1>1, <1>2, <1>6
     DEF ErrorRequired, ErrorOptional, ErrorSmsProbe, ErrorService, Disconnect, session, sim
<1>7. CASE Unsolicited
  BY <1>1, <1>2, <1>7
     DEF Unsolicited, ResponseCpin, ResponseCreg, ResponseCmti, ResponseCmgr, ResponsePdu,
         MalformedLine, ResponseOrig, ResponseCend, ResponseClip, ResponseClipFails,
         ResponseRing, ResponseBusy, ResponseNoCarrier, Disconnect, session, sim
<1>8. CASE Engine
  BY <1>1, <1>8
     DEF Engine, SendSms, SendUssd, Execute, SetConnection, NewCall, Routed, SendAnswer,
         SendDtmf, Destroy, session, sim
<1>9. CASE UNCHANGED vars
  BY <1>1, <1>9 DEF vars, session, sim
<1> QED
  BY <1>3, <1>4, <1>5, <1>6, <1>7, <1>8, <1>9 DEF Next, Answer

(* The driver enters the PIN at most once between two connections.         *)
THEOREM PinOnceHolds == Spec => PinOncePerSession
<1>1. IInv /\ [Next]_vars => PinStep /\ CountStep
  BY NextSafe, CountStepHolds DEF IInv
<1> QED
  BY <1>1, InitSafe, NextSafe, PTL DEF Spec, PinOncePerSession
=============================================================================
