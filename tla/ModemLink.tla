------------------------------ MODULE ModemLink ------------------------------
(***************************************************************************)
(* A CardDevice and the modem it talks to, over two first-in first-out     *)
(* lines: the commands written to the data tty and the lines read from it. *)
(* The modem executes each command once and answers it with its data lines *)
(* and one final result, unless the answer is lost; it reports messages    *)
(* that arrive, and may interpose lines the driver does not know.  There   *)
(* are no calls here (Channels is empty in the instances).                 *)
(***************************************************************************)
EXTENDS CardDeviceProps, SequencesExt

CONSTANTS
  Refuses,      \* the init commands this modem answers with ERROR
  SimAtStart,   \* what +CPIN may report when the card is powered
  PinGood,      \* whether the configured PIN is that of the SIM
  LateAnswers,  \* whether an answer may take more than the second of poll,
                \* and so reach the session that follows
  MaxEvents     \* bound: faults, reports of the network, requests of the engine

ASSUME ModemAssumption ==
  /\ Refuses \subseteq InitCmds
  /\ SimAtStart \subseteq {0, 1} /\ SimAtStart \cup {0} \subseteq SimReports
  /\ PinGood \in BOOLEAN /\ LateAnswers \in BOOLEAN /\ MaxEvents \in Nat

VARIABLES
  tx,         \* commands written and not yet executed
  rx,         \* lines the driver has not read
  card,       \* what the SIM is: 0 ready, 1 waiting for its PIN, 2 for the PUK
  arrived,    \* messages the network has delivered to the card
  store,      \* messages in the memory of the card
  reported,   \* messages passed to the engine by onReceiveSMS
  missed,     \* history: messages not reported when their session ended, or
              \* when one of its answers was lost
  events      \* how many of MaxEvents have happened

modem == <<tx, rx, card, arrived, store, reported, missed, events>>
all   == <<vars, modem>>

Line(res, arg) == [res |-> res, arg |-> arg]
Ok    == Line("OK", NoObj)
Error == Line("ERROR", NoObj)
Creg  == Line("CREG", TRUE)

ModemInit ==
  /\ Init
  /\ tx = <<>> /\ rx = <<>>
  /\ card \in SimAtStart
  /\ arrived = {} /\ store = {} /\ reported = {} /\ missed = {}
  /\ events = 0

Final(line) == line.res \in {"OK", "ERROR"}

(* The awaited command has no answer on its way. *)
Unanswered == Awaiting /\ tx = <<>> /\ \A k \in DOMAIN rx : ~Final(rx[k])

Miss(lost) == missed' = IF lost THEN missed \cup (arrived' \ reported') ELSE missed

Event == events < MaxEvents /\ events' = events + 1

-----------------------------------------------------------------------------
(* at_response: the handler of one line.                                   *)

Ignored(line) ==
  \/ line.res \in {"OK", "ERROR"} /\ ~Awaiting
  \/ line.res = "CMTI" /\ conf.disablesms
  \/ line.res = "PDU" /\ ~(lastcmd.cmd = "CMGR" /\ incomingPdu)

AtResponse(line) ==
  \/ line.res = "OK" /\ (OkChained \/ OkCpin \/ OkCnmi \/ OkService)
  \/ line.res = "ERROR" /\ (ErrorRequired \/ ErrorOptional \/ ErrorSmsProbe \/ ErrorService)
  \/ line.res = "CPIN" /\ ResponseCpin(line.arg)
  \/ line.res = "CREG" /\ ResponseCreg(line.arg)
  \/ line.res = "CMTI" /\ ResponseCmti(line.arg)
  \/ line.res = "CMGR" /\ ResponseCmgr
  \/ line.res = "PDU" /\ ResponsePdu(line.arg # NoObj)
  \/ Ignored(line) /\ UNCHANGED vars

-----------------------------------------------------------------------------
(* The driver.                                                             *)

Connect == TryConnect /\ UNCHANGED modem

Start == MonitorStart /\ UNCHANGED modem

(* POLLIN is served before POLLOUT. *)
Write ==
  /\ rx = <<>>
  /\ SendCommand
  /\ tx' = Append(tx, Head(queue))
  /\ UNCHANGED <<rx, card, arrived, store, reported, missed, events>>

(* The monitor of a lost session leaves. *)
Leave == (MonitorLate \/ MonitorLeave) /\ UNCHANGED modem

(* What is lost with the session: the lines not read, and the answers that *)
(* were still to come unless they may be late.                             *)
Hung(lines, cmds) ==
  /\ rx' = IF link' = "down" THEN <<>> ELSE lines
  /\ tx' = IF link' = "down" /\ ~LateAnswers THEN <<>> ELSE cmds

Read ==
  /\ link = "up" /\ rx # <<>>
  /\ AtResponse(Head(rx))
  /\ Hung(Tail(rx), tx)
  /\ reported' = IF Head(rx).res = "PDU" /\ lastcmd.cmd = "CMGR" /\ incomingPdu
                 THEN reported \cup ({Head(rx).arg} \ {NoObj}) ELSE reported
  /\ UNCHANGED <<card, arrived, store, events>>
  /\ Miss(link' = "down")

(* poll returns 0: the queue has nothing to write, and nothing has come. *)
Silence ==
  /\ rx = <<>> /\ (Awaiting \/ queue = <<>>)
  /\ tx = <<>> \/ LateAnswers
  /\ Timeout
  /\ Hung(rx, tx)
  /\ UNCHANGED <<card, arrived, store, reported, events>>
  /\ Miss(TRUE)

Request == Event /\ SendSms /\ UNCHANGED <<tx, rx, card, arrived, store, reported, missed>>

-----------------------------------------------------------------------------
(* The modem.                                                              *)

(* The answer to a command, in the state the command leaves the card. *)
Data(cmd, pinState) ==
  CASE cmd.cmd = "CPIN"                            -> <<Line("CPIN", pinState)>>
    [] cmd.cmd = "CREG"                            -> <<Creg>>
    [] cmd.cmd = "CMGR" /\ cmd.obj \in store       -> <<Line("CMGR", NoObj), Line("PDU", cmd.obj)>>
    [] OTHER                                       -> <<>>

Accepted(cmd) ==
  /\ cmd.cmd \notin Refuses
  /\ cmd.cmd \in {"CMGR", "CMGD"} => cmd.obj \in store
  /\ cmd.cmd = "CPIN_ENTER" => PinGood /\ card = 1

Answers(cmd) == Data(cmd, card) \o IF Accepted(cmd) THEN <<Ok>> ELSE <<Error>>

(* Execute the next command.  An answer goes nowhere while the tty is      *)
(* closed, and may be lost when it is open.                                *)
Serve ==
  /\ tx # <<>>
  /\ LET cmd == Head(tx) IN
       /\ card' = IF cmd.cmd = "CPIN_ENTER" /\ Accepted(cmd) THEN 0 ELSE card
       /\ store' = IF cmd.cmd = "CMGD" THEN store \ {cmd.obj} ELSE store
       /\ \/ Connected /\ rx' = rx \o Answers(cmd) /\ UNCHANGED events
          \/ ~Connected /\ UNCHANGED <<rx, events>>
          \/ Connected /\ Event /\ UNCHANGED rx
  /\ tx' = Tail(tx)
  /\ UNCHANGED <<vars, arrived, reported>>
  /\ Miss(Connected /\ UNCHANGED rx)   \* an answer is never empty

(* A message arrives; the card tells the driver if it listens. *)
MessageArrives(i) ==
  /\ i \notin arrived
  /\ arrived' = arrived \cup {i} /\ store' = store \cup {i}
  /\ rx' = IF link = "up" THEN Append(rx, Line("CMTI", i)) ELSE rx
  /\ UNCHANGED <<vars, tx, card, reported, events>>
  /\ Miss(link # "up" \/ Unanswered)

(* A report the driver has no prefix for, between any two lines. *)
UnknownLine ==
  /\ link = "up" /\ Event
  /\ \E k \in 0 .. Len(rx) : rx' = InsertAt(rx, k + 1, Line("PDU", NoObj))
  /\ UNCHANGED <<vars, tx, card, arrived, store, reported, missed>>

(* The card is pulled out, or resets itself. *)
Unplug ==
  /\ Event
  /\ LostConnection \/ LostEarly
  /\ tx' = <<>> /\ rx' = <<>>
  /\ card' \in SimAtStart
  /\ UNCHANGED <<arrived, store, reported>>
  /\ Miss(TRUE)

-----------------------------------------------------------------------------

ModemNext ==
  \/ Connect \/ Start \/ Write \/ Read \/ Silence \/ Leave \/ Request
  \/ Serve \/ UnknownLine \/ Unplug
  \/ \E i \in SmsIndexes : MessageArrives(i)

(* The discovery thread and the monitor thread run, and the modem executes *)
(* what it is sent.                                                        *)
Fairness ==
  /\ WF_all(Connect) /\ WF_all(Start) /\ WF_all(Write) /\ WF_all(Read) /\ WF_all(Silence)
  /\ WF_all(Leave) /\ WF_all(Serve)

ModemSpec == ModemInit /\ [][ModemNext]_all /\ Fairness

-----------------------------------------------------------------------------

(* An OK or ERROR is read only for the command it answers: at most one is  *)
(* on its way, that of the awaited command, and none when nothing is       *)
(* awaited.  at_response relies on it: a final result names no command.    *)
AnswersMatch ==
  /\ tx # <<>> => Awaiting /\ tx = <<lastcmd>>
  /\ \A k \in DOMAIN rx :
       Final(rx[k]) =>
         /\ Awaiting /\ tx = <<>>
         /\ \A l \in DOMAIN rx : Final(rx[l]) => l = k

(* A message the network delivered is in the memory of the card until the  *)
(* engine has it: AT+CMGD never overtakes the PDU of the message.          *)
MessageKept == arrived \subseteq store \cup reported

(* A message that arrives while a session lasts is given to the engine,    *)
(* whatever the session does meanwhile: the queue comes to its AT+CMGR,    *)
(* unless an answer is lost, and its PDU is taken for what it is.          *)
MessageReported ==
  \A i \in SmsIndexes : i \in arrived ~> i \in reported \cup missed \/ conf.disablesms

(* A session that initialises ends in service or is dropped: it never      *)
(* waits for ever for an answer of the init chain.                         *)
InitEnds == Initializing ~> ~Initializing

(* After any finite number of faults the card is back in service.          *)
ServiceReached == []<>initialized

(* An SMS the driver has accepted leaves the queue: it is written to the   *)
(* modem, or dropped with the session.                                     *)
QueuedSms == \E i \in 1 .. Len(queue) : queue[i].cmd = "CMGS"
SmsLeaves == QueuedSms ~> ~QueuedSms
=============================================================================
