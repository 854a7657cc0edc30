-------------------------- MODULE ModemLink_proofs --------------------------
(***************************************************************************)
(* Proofs about a card and its modem, for every set of messages, every     *)
(* modem and any number of faults, of messages and of requests, when an    *)
(* answer comes within the second of poll or not at all (~LateAnswers).    *)
(***************************************************************************)
EXTENDS ModemLink, CardDevice_proofs, SequenceTheorems

USE ModemAssumption

(* What the modem sends. *)
ModemLine ==
  [res : {"OK", "ERROR", "CMGR"}, arg : {NoObj}]
    \cup [res : {"CPIN"}, arg : SimReports]
    \cup [res : {"CREG"}, arg : BOOLEAN]
    \cup [res : {"CMTI"}, arg : SmsIndexes]
    \cup [res : {"PDU"}, arg : SmsIndexes \cup {NoObj}]

ModemType ==
  /\ tx \in Seq(Command) /\ rx \in Seq(ModemLine)
  /\ card \in SimReports /\ store \subseteq SmsIndexes

(* Only a message the engine has is deleted. *)
Deletes(cmd) == cmd.cmd = "CMGD" => cmd.obj \in reported
DeletesReported ==
  /\ Deletes(lastcmd)
  /\ \A n \in DOMAIN queue : Deletes(queue[n])

(* The PDU of a stored message comes before the result of its AT+CMGR. *)
IsMessage(line) == line.res = "PDU" /\ line.arg # NoObj
PduAnswered ==
  \A n \in DOMAIN rx : IsMessage(rx[n]) => \E k \in DOMAIN rx : n < k /\ Final(rx[k])

(* rx[j] will be taken for the PDU of message i. *)
PduAt(j, i) ==
  /\ rx[j].res = "PDU" /\ rx[j].arg = i /\ i # NoObj
  /\ \A l \in 1 .. j - 1 : ~IsMessage(rx[l])
  /\ incomingPdu \/ \E m \in 1 .. j - 1 : rx[m].res = "CMGR"

(* When the OK of AT+CMGR is read the engine has the message. *)
ReadFirst ==
  lastcmd.cmd = "CMGR" /\ lastcmd.obj \notin reported =>
    \A k \in DOMAIN rx : rx[k].res = "OK" => \E j \in 1 .. k - 1 : PduAt(j, lastcmd.obj)

(* Nothing is on its way on a tty that no monitor reads. *)
LinesIdle == link # "up" => tx = <<>> /\ rx = <<>>

Owed    == AnswersMatch /\ DeletesReported /\ PduAnswered /\ ReadFirst
LinkInv == IInv /\ ModemType /\ LinesIdle /\ Owed /\ MessageKept

-----------------------------------------------------------------------------
(* Every step of the composition is a step of the card, or none.           *)

(* What a line carries. *)
LEMMA LineArg ==
  ASSUME NEW line \in ModemLine
  PROVE  /\ line.res = "CPIN" => line.arg \in SimReports
         /\ line.res = "CREG" => line.arg \in BOOLEAN
         /\ line.res = "CMTI" => line.arg \in SmsIndexes
         /\ line.res = "PDU" => line.arg \in SmsIndexes \cup {NoObj}
BY DEF ModemLine

(* The line about to be read. *)
LEMMA HeadLine ==
  ASSUME ModemType, rx # <<>>
  PROVE  /\ Head(rx) \in ModemLine /\ Tail(rx) \in Seq(ModemLine) /\ Head(rx) = rx[1]
         /\ Len(rx) \in Nat /\ Len(Tail(rx)) = Len(rx) - 1
         /\ \A n \in 1 .. Len(rx) - 1 : Tail(rx)[n] = rx[n + 1]
BY DEF ModemType

(* The handler of a line is an action of the card. *)
LEMMA HandlerStep ==
  ASSUME NEW line \in ModemLine, AtResponse(line)
  PROVE  [Next]_vars
<1>1. ASSUME line.res = "CPIN" /\ ResponseCpin(line.arg) PROVE Unsolicited
  BY <1>1, LineArg DEF Unsolicited
<1>2. ASSUME line.res = "CREG" /\ ResponseCreg(line.arg) PROVE Unsolicited
  BY <1>2, LineArg DEF Unsolicited
<1>3. ASSUME line.res = "CMTI" /\ ResponseCmti(line.arg) PROVE Unsolicited
  BY <1>3, LineArg DEF Unsolicited
<1>4. ASSUME ResponseCmgr PROVE Unsolicited
  BY <1>4 DEF Unsolicited
<1>5. ASSUME ResponsePdu(line.arg # NoObj) PROVE Unsolicited
  BY <1>5 DEF Unsolicited
<1>6. ASSUME \/ OkChained \/ OkCpin \/ OkCnmi \/ OkService
             \/ ErrorRequired \/ ErrorOptional \/ ErrorSmsProbe \/ ErrorService
      PROVE  Answer
  BY <1>6 DEF Answer
<1>7. Answer \/ Unsolicited \/ UNCHANGED vars
  BY <1>1, <1>2, <1>3, <1>4, <1>5, <1>6 DEF AtResponse
<1> QED
  BY <1>7 DEF Next

(* Every step of the composition. *)
LEMMA CardStep == ModemType /\ [ModemNext]_all => [Next]_vars
<1> SUFFICES ASSUME ModemType, [ModemNext]_all PROVE [Next]_vars
  OBVIOUS
<1>1. CASE Connect \/ Start \/ Write \/ Silence \/ Leave \/ Unplug
  BY <1>1 DEF Connect, Start, Write, Silence, Leave, Unplug, Next, Monitor
<1>2. CASE Request
  BY <1>2 DEF Request, Next, Engine
<1>3. CASE Read
  BY <1>3, HeadLine, HandlerStep DEF Read
<1>4. CASE Serve \/ UnknownLine \/ \E i \in SmsIndexes : MessageArrives(i)
  BY <1>4 DEF Serve, UnknownLine, MessageArrives
<1>5. CASE UNCHANGED all
  BY <1>5 DEF all
<1> QED
  BY <1>1, <1>2, <1>3, <1>4, <1>5 DEF ModemNext

-----------------------------------------------------------------------------
(* What reading a line does to the pipe.                                   *)

Quiet == {s \in Seq(Command) : \A n \in 1 .. Len(s) : s[n].cmd # "CMGD"}

(* The lists of commands a result appends: at most the deletion of the     *)
(* message that AT+CMGR read.                                              *)
AfterResult(line) ==
  {s \in Seq(Command) : \A n \in 1 .. Len(s) :
     s[n].cmd = "CMGD" => /\ line.res = "OK" /\ lastcmd.cmd = "CMGR"
                          /\ s[n].obj = lastcmd.obj}

Dropped  == link' = "down" /\ lastcmd' = NoCmd /\ queue' = <<>>
Resulted(line) ==
  /\ Final(line) /\ Awaiting /\ lastcmd' = NoCmd /\ UNCHANGED <<link, incomingPdu>>
  /\ \E s \in AfterResult(line) : queue' = queue \o s
Noted(line) ==
  /\ Final(line) => ~Awaiting
  /\ UNCHANGED <<link, lastcmd>>
  /\ \E s \in Quiet : queue' = queue \o s
  /\ line.res = "CMGR" => incomingPdu'
  /\ incomingPdu => incomingPdu' \/ (IsMessage(line) /\ lastcmd.cmd = "CMGR")

(* No command, or one that deletes nothing. *)
LEMMA QuietLists ==
  /\ <<>> \in Quiet
  /\ \A x \in Command : x.cmd # "CMGD" => <<x>> \in Quiet
  /\ \A line : Quiet \subseteq AfterResult(line)
BY DEF Quiet, AfterResult

(* The commands the handlers append. *)
LEMMA QuietCommands ==
  /\ \A k \in (InitCmds \cup ServiceCmds) \ {"CMGD"} : <<Plain(k)>> \in Quiet
  /\ \A k \in (InitCmds \cup ServiceCmds) \ {"CMGD"},
        o \in Channels \cup SmsIndexes \cup {NoObj} : <<With(k, o)>> \in Quiet
<1>1. \A k : Plain(k).cmd = k
  BY DEF Plain
<1>2. \A k, o : With(k, o).cmd = k
  BY DEF With
<1> QED
  BY <1>1, <1>2, CommandType, QuietLists

(* The commands of the initialisation delete nothing. *)
LEMMA QuietInit ==
  /\ InitCmds \subseteq (InitCmds \cup ServiceCmds) \ {"CMGD"}
  /\ {"CSQ", "COPS", "CLVL", "CMGR", "CMGS", "CUSD", "D", "DDSETEX", "CHUP"}
       \subseteq (InitCmds \cup ServiceCmds) \ {"CMGD"}
  /\ NoCmd.cmd \notin InitCmds \cup ServiceCmds
BY DEF InitCmds, ServiceCmds, NoCmd

(* Hangup, when no channel or some channel owns the card. *)
LEMMA HangupAppends ==
  ASSUME TypeOK, NEW chup \in BOOLEAN, Hangup(chup)
  PROVE  \E s \in Quiet : queue' = queue \o s
<1>1. queue \in Seq(Command)
  BY DEF TypeOK
<1>2. queue = queue \o <<>>
  BY <1>1
<1>3. CASE conn = NoConn
  BY <1>2, <1>3, QuietLists DEF Hangup
<1>4. CASE conn # NoConn
  <2>1. queue' = queue \o (IF chup THEN <<Plain("CHUP")>> ELSE <<>>)
    BY <1>4 DEF Hangup, Enqueue
  <2>2. (IF chup THEN <<Plain("CHUP")>> ELSE <<>>) \in Quiet
    BY QuietLists, QuietCommands, QuietInit
  <2> QED
    BY <2>1, <2>2
<1> QED
  BY <1>3, <1>4

(* The answer OK. *)
LEMMA OkPipe ==
  ASSUME TypeOK, NEW line \in ModemLine, line.res = "OK",
         OkChained \/ OkCpin \/ OkCnmi \/ OkService
  PROVE  Dropped \/ Resulted(line)
<1>1. queue \in Seq(Command) /\ lastcmd \in Command \cup {NoCmd} /\ Final(line)
  BY DEF TypeOK, Final
<1>2. ASSUME NEW s \in AfterResult(line), Answered(s), Awaiting,
             UNCHANGED <<link, incomingPdu>>
      PROVE  Resulted(line)
  BY <1>1, <1>2 DEF Resulted, Answered, Enqueue
<1>3. CASE OkChained
  <2>1. lastcmd.cmd \in ChainedCmds /\ Awaiting
    BY <1>3, QuietInit DEF OkChained, ChainedCmds, Awaiting
  <2>2. NextInit(lastcmd.cmd, conf) \in InitCmds
    BY <2>1, NextInitType
  <2>3. (IF lastcmd.cmd = "Z" \/ ~initialized
         THEN <<Plain(NextInit(lastcmd.cmd, conf))>> ELSE <<>>) \in AfterResult(line)
    BY <2>2, QuietLists, QuietCommands, QuietInit
  <2> QED
    BY <1>2, <1>3, <2>1, <2>3 DEF OkChained, session
<1>4. CASE OkCpin
  <2>1. Awaiting
    BY <1>4, QuietInit DEF OkCpin, InitCmds, Awaiting
  <2>2. /\ <<Plain("CIMI")>> \in AfterResult(line)
        /\ <<Plain("CPIN_ENTER")>> \in AfterResult(line)
        /\ <<>> \in AfterResult(line)
    BY QuietLists, QuietCommands, QuietInit DEF InitCmds
  <2> QED
    BY <1>2, <1>4, <2>1, <2>2 DEF OkCpin, session, Disconnect, DropLink, Reset, Dropped
<1>5. CASE OkCnmi
  <2>1. Awaiting
    BY <1>5, QuietInit DEF OkCnmi, InitCmds, Awaiting
  <2>2. (IF initialized THEN <<>> ELSE <<Plain("CSQ")>>) \in AfterResult(line)
    BY QuietLists, QuietCommands, QuietInit
  <2> QED
    BY <1>2, <1>5, <2>1, <2>2 DEF OkCnmi
<1>6. CASE OkService
  <2>1. Awaiting /\ lastcmd \in Command
    BY <1>1, <1>6, QuietInit DEF OkService, Awaiting
  <2>2. lastcmd.obj \in Channels \cup SmsIndexes \cup {NoObj}
    BY <2>1, CommandType
  <2>3. OkFollows \in AfterResult(line)
    <3>1. /\ <<Plain("DDSETEX")>> \in AfterResult(line)
          /\ <<With("D", lastcmd.obj)>> \in AfterResult(line)
          /\ <<Plain("CLVL")>> \in AfterResult(line)
          /\ <<>> \in AfterResult(line)
      BY <2>2, QuietLists, QuietCommands, QuietInit
    <3>2. lastcmd.cmd = "CMGR" => <<With("CMGD", lastcmd.obj)>> \in AfterResult(line)
      <4>1. With("CMGD", lastcmd.obj) \in Command
        BY <2>2, CommandType DEF ServiceCmds
      <4>2. With("CMGD", lastcmd.obj).obj = lastcmd.obj
        BY DEF With
      <4> QED
        BY <4>1, <4>2 DEF AfterResult
    <3> QED
      BY <3>1, <3>2 DEF OkFollows
  <2> QED
    BY <1>2, <1>6, <2>1, <2>3 DEF OkService, session
<1> QED
  BY <1>3, <1>4, <1>5, <1>6

(* The answer ERROR. *)
LEMMA ErrorPipe ==
  ASSUME TypeOK, NEW line \in ModemLine, line.res = "ERROR",
         ErrorRequired \/ ErrorOptional \/ ErrorSmsProbe \/ ErrorService
  PROVE  Dropped \/ Resulted(line)
<1>1. queue \in Seq(Command) /\ lastcmd \in Command \cup {NoCmd} /\ Final(line)
  BY DEF TypeOK, Final
<1>2. ASSUME NEW s \in Quiet, lastcmd' = NoCmd, queue' = queue \o s, Awaiting,
             UNCHANGED <<link, incomingPdu>>
      PROVE  Resulted(line)
  BY <1>1, <1>2, QuietLists DEF Resulted
<1>3. CASE ErrorRequired
  BY <1>3 DEF ErrorRequired, Disconnect, DropLink, Reset, Dropped
<1>4. CASE ErrorOptional
  <2>1. Awaiting
    BY <1>4, QuietInit DEF ErrorOptional, OptionalCmds, InitCmds, Awaiting
  <2>2. (IF initialized THEN <<>>
         ELSE <<Plain(IF lastcmd.cmd = "CREG" THEN "CNUM" ELSE "CMGF")>>) \in Quiet
    BY QuietLists, QuietCommands, QuietInit DEF InitCmds
  <2> QED
    BY <1>2, <1>4, <2>1, <2>2 DEF ErrorOptional, Answered, Enqueue, session
<1>5. CASE ErrorSmsProbe
  <2>1. Awaiting
    BY <1>5, QuietInit DEF ErrorSmsProbe, SmsProbes, InitCmds, Awaiting
  <2> QED
    BY <1>2, <1>5, <2>1, QuietLists
       DEF ErrorSmsProbe, Answered, Enqueue, session, Disconnect, DropLink, Reset, Dropped
<1>6. CASE ErrorService
  <2>1. Awaiting /\ lastcmd \in Command /\ lastcmd' = NoCmd /\ UNCHANGED <<link, incomingPdu>>
    BY <1>1, <1>6, QuietInit DEF ErrorService, Awaiting, session
  <2>2. \E s \in Quiet : queue' = queue \o s
    <3>1. CASE Hangup(needchup) \/ Hangup(FALSE)
      BY <3>1, HangupAppends DEF TypeOK
    <3>2. CASE Enqueue(<<With("D", lastcmd.obj)>>)
      BY <2>1, <3>2, CommandType, QuietCommands, QuietInit DEF Enqueue
    <3>3. CASE UNCHANGED queue
      BY <1>1, <3>3, QuietLists
    <3> QED
      BY <1>6, <3>1, <3>2, <3>3 DEF ErrorService
  <2> QED
    BY <1>2, <2>1, <2>2
<1> QED
  BY <1>3, <1>4, <1>5, <1>6

(* Any line. *)
LEMMA LinePipe ==
  ASSUME TypeOK, NEW line \in ModemLine, AtResponse(line)
  PROVE  Dropped \/ Resulted(line) \/ Noted(line)
<1>1. queue \in Seq(Command) /\ queue \o <<>> = queue
  BY DEF TypeOK
<1>2. CASE line.res = "OK" /\ (OkChained \/ OkCpin \/ OkCnmi \/ OkService)
  BY <1>2, OkPipe
<1>3. CASE line.res = "ERROR"
            /\ (ErrorRequired \/ ErrorOptional \/ ErrorSmsProbe \/ ErrorService)
  BY <1>3, ErrorPipe
<1>4. CASE line.res = "CPIN" /\ ResponseCpin(line.arg)
  BY <1>1, <1>4, QuietLists DEF ResponseCpin, Noted, Final, pipe
<1>5. CASE line.res = "CREG" /\ ResponseCreg(line.arg)
  BY <1>5, QuietCommands, QuietInit DEF ResponseCreg, Enqueue, Noted, Final
<1>6. CASE line.res = "CMTI" /\ ResponseCmti(line.arg)
  <2>1. <<With("CMGR", line.arg)>> \in Quiet
    BY <1>6, LineArg, QuietCommands, QuietInit
  <2> QED
    BY <1>6, <2>1 DEF ResponseCmti, Enqueue, Noted, Final, session
<1>7. CASE line.res = "CMGR" /\ ResponseCmgr
  BY <1>1, <1>7, QuietLists DEF ResponseCmgr, Noted, Final, pipe
<1>8. CASE line.res = "PDU" /\ ResponsePdu(line.arg # NoObj)
  BY <1>1, <1>8, QuietLists
     DEF ResponsePdu, Noted, Final, IsMessage, pipe, Dropped, Disconnect, DropLink, Reset
<1>9. CASE Ignored(line) /\ UNCHANGED vars
  BY <1>1, <1>9, QuietLists DEF Ignored, Noted, Final, vars, session, pipe
<1> QED
  BY <1>2, <1>3, <1>4, <1>5, <1>6, <1>7, <1>8, <1>9 DEF AtResponse

-----------------------------------------------------------------------------
(* What each step does to what is owed: the final result to the command    *)
(* awaited, and the PDU of a message to the engine before its deletion.    *)

(* No command asks for anything, or is a deletion. *)
LEMMA NoCmdPlain == NoCmd.cmd = "none" /\ NoCmd.cmd # "CMGR" /\ Deletes(NoCmd)
BY DEF NoCmd, Deletes

(* A session that is dropped owes nothing. *)
LEMMA NothingOwedDropped ==
  ASSUME tx' = <<>>, rx' = <<>>, queue' = <<>>, lastcmd' = NoCmd
  PROVE  Owed'
BY NoCmdPlain
   DEF Owed, AnswersMatch, DeletesReported, Deletes, PduAnswered, ReadFirst

(* The commands appended delete only what the engine has. *)
LEMMA QueueDeletes ==
  ASSUME TypeOK, DeletesReported, reported \subseteq reported',
         NEW s \in Seq(Command), queue' = queue \o s,
         \A n \in 1 .. Len(s) : s[n].cmd = "CMGD" => s[n].obj \in reported'
  PROVE  \A n \in DOMAIN queue' : Deletes(queue[n])'
<1>1. queue \in Seq(Command)
  BY DEF TypeOK
<1> SUFFICES ASSUME NEW n \in DOMAIN queue' PROVE Deletes(queue[n])'
  OBVIOUS
<1>2. n \in 1 .. Len(queue) + Len(s)
  BY <1>1
<1>3. CASE n \in 1 .. Len(queue)
  <2>1. queue'[n] = queue[n] /\ n \in DOMAIN queue
    BY <1>1, <1>3
  <2> QED
    BY <2>1 DEF DeletesReported, Deletes
<1>4. CASE n \notin 1 .. Len(queue)
  <2>1. queue'[n] = s[n - Len(queue)] /\ n - Len(queue) \in 1 .. Len(s)
    BY <1>1, <1>2, <1>4
  <2> QED
    BY <2>1 DEF Deletes
<1> QED
  BY <1>3, <1>4

(* Quiet commands are appended, and the lines are as they were. *)
LEMMA QueueGrows ==
  ASSUME TypeOK, Owed, NEW s \in Quiet, queue' = queue \o s,
         UNCHANGED <<tx, rx, lastcmd, reported, incomingPdu>>
  PROVE  Owed'
<1>1. \A n \in DOMAIN queue' : Deletes(queue[n])'
  BY QueueDeletes DEF Owed, Quiet
<1>2. DeletesReported'
  BY <1>1 DEF Owed, DeletesReported, Deletes
<1>3. AnswersMatch' /\ PduAnswered' /\ ReadFirst'
  BY DEF Owed, AnswersMatch, Awaiting, PduAnswered, ReadFirst, PduAt
<1> QED
  BY <1>2, <1>3 DEF Owed

(* Nothing of it changes. *)
LEMMA OwedSame ==
  ASSUME Owed, UNCHANGED <<tx, rx, lastcmd, queue, reported, incomingPdu>>
  PROVE  Owed'
BY DEF Owed, AnswersMatch, Awaiting, PduAnswered, ReadFirst, PduAt, DeletesReported, Deletes

(* A line that is no result and no PDU is inserted. *)
LEMMA NoiseKept ==
  ASSUME ModemType, Owed, UNCHANGED <<tx, lastcmd, queue, reported, incomingPdu>>,
         NEW p \in 0 .. Len(rx), rx' \in Seq(ModemLine), Len(rx') = Len(rx) + 1,
         \A n \in 1 .. p : rx'[n] = rx[n],
         \A n \in p + 1 .. Len(rx) : rx'[n + 1] = rx[n],
         ~Final(rx'[p + 1]), ~IsMessage(rx'[p + 1])
  PROVE  Owed'
<1> DEFINE at(n) == IF n <= p THEN n ELSE n + 1
<1>1. /\ DOMAIN rx = 1 .. Len(rx) /\ DOMAIN rx' = 1 .. Len(rx') /\ Len(rx) \in Nat
      /\ DOMAIN rx \subseteq Nat
  BY DEF ModemType
<1>2. \A n \in DOMAIN rx : at(n) \in DOMAIN rx' /\ rx'[at(n)] = rx[n] /\ at(n) # p + 1
  BY <1>1
<1>3. \A n \in DOMAIN rx' : n # p + 1 => \E o \in DOMAIN rx : n = at(o)
  <2> SUFFICES ASSUME NEW n \in DOMAIN rx', n # p + 1 PROVE \E o \in DOMAIN rx : n = at(o)
    OBVIOUS
  <2>1. CASE n <= p
    BY <1>1, <2>1
  <2>2. CASE n > p
    <3>1. n - 1 \in DOMAIN rx /\ n = at(n - 1)
      BY <1>1, <2>2
    <3> QED
      BY <3>1
  <2> QED
    BY <1>1, <2>1, <2>2
<1>4. \A m, n \in DOMAIN rx : m < n <=> at(m) < at(n)
  BY <1>1
<1> HIDE DEF at
<1>5. AnswersMatch'
  <2>1. tx' # <<>> => (Awaiting /\ tx = <<lastcmd>>)'
    BY DEF Owed, AnswersMatch, Awaiting
  <2>2. ASSUME NEW k \in DOMAIN rx', Final(rx'[k])
        PROVE  Awaiting' /\ tx' = <<>> /\ \A l \in DOMAIN rx' : Final(rx'[l]) => l = k
    <3>1. PICK o \in DOMAIN rx : k = at(o)
      BY <1>3, <2>2
    <3>2. Final(rx[o])
      BY <1>2, <2>2, <3>1
    <3>3. ASSUME NEW l \in DOMAIN rx', Final(rx'[l]) PROVE l = k
      <4>1. PICK q \in DOMAIN rx : l = at(q)
        BY <1>3, <3>3
      <4>2. Final(rx[q])
        BY <1>2, <3>3, <4>1
      <4> QED
        BY <3>1, <3>2, <4>1, <4>2 DEF Owed, AnswersMatch
    <3> QED
      BY <3>2, <3>3 DEF Owed, AnswersMatch, Awaiting
  <2> QED
    BY <2>1, <2>2 DEF AnswersMatch, Final
<1>6. PduAnswered'
  <2> SUFFICES ASSUME NEW n \in DOMAIN rx', IsMessage(rx'[n])
               PROVE  \E k \in DOMAIN rx' : n < k /\ Final(rx'[k])
    BY DEF PduAnswered, IsMessage, Final
  <2>1. PICK o \in DOMAIN rx : n = at(o)
    BY <1>3
  <2>2. IsMessage(rx[o])
    BY <1>2, <2>1
  <2>3. PICK k \in DOMAIN rx : o < k /\ Final(rx[k])
    BY <2>2 DEF Owed, PduAnswered
  <2> QED
    BY <1>2, <1>4, <2>1, <2>3
<1>7. ReadFirst'
  <2> SUFFICES ASSUME lastcmd.cmd = "CMGR", lastcmd.obj \notin reported,
                      NEW k \in DOMAIN rx', rx'[k].res = "OK"
               PROVE  \E j \in 1 .. k - 1 : PduAt(j, lastcmd.obj)'
    BY DEF ReadFirst
  <2>1. PICK o \in DOMAIN rx : k = at(o)
    BY <1>3 DEF Final
  <2>2. rx[o].res = "OK"
    BY <1>2, <2>1
  <2>3. PICK j \in 1 .. o - 1 : PduAt(j, lastcmd.obj)
    BY <2>2 DEF Owed, ReadFirst
  <2>4. j \in DOMAIN rx /\ j < o
    BY <1>1
  <2>5. at(j) \in 1 .. k - 1
    BY <1>1, <1>2, <1>4, <2>1, <2>4
  <2>6. ASSUME NEW l \in 1 .. at(j) - 1 PROVE ~IsMessage(rx'[l])
    <3>1. CASE l = p + 1
      BY <3>1
    <3>2. CASE l # p + 1
      <4>1. l \in DOMAIN rx' /\ l < at(j)
        BY <1>1, <1>2, <2>4
      <4>2. PICK q \in DOMAIN rx : l = at(q)
        BY <1>3, <3>2, <4>1
      <4>3. q \in 1 .. j - 1
        BY <1>1, <1>4, <2>4, <4>1, <4>2
      <4> QED
        BY <1>2, <2>3, <4>2, <4>3 DEF PduAt
    <3> QED
      BY <3>1, <3>2
  <2>7. incomingPdu \/ \E m \in 1 .. at(j) - 1 : rx'[m].res = "CMGR"
    <3>1. CASE incomingPdu
      BY <3>1
    <3>2. CASE ~incomingPdu
      <4>1. PICK m \in 1 .. j - 1 : rx[m].res = "CMGR"
        BY <2>3, <3>2 DEF PduAt
      <4>2. m \in DOMAIN rx /\ m < j
        BY <1>1, <2>4
      <4>3. at(m) \in 1 .. at(j) - 1 /\ rx'[at(m)].res = "CMGR"
        BY <1>1, <1>2, <1>4, <2>4, <4>1, <4>2
      <4> QED
        BY <4>3
    <3> QED
      BY <3>1, <3>2
  <2>8. rx'[at(j)] = rx[j]
    BY <1>2, <2>4
  <2> QED
    BY <2>3, <2>5, <2>6, <2>7, <2>8 DEF PduAt, IsMessage
<1>8. DeletesReported'
  BY DEF Owed, DeletesReported, Deletes
<1> QED
  BY <1>5, <1>6, <1>7, <1>8 DEF Owed

(* A result is read: it answers the command awaited, and nothing is owed. *)
LEMMA ReadResult ==
  ASSUME TypeOK, ModemType, Owed, rx # <<>>, Resulted(Head(rx)),
         rx' = Tail(rx), tx' = tx, reported \subseteq reported'
  PROVE  Owed'
<1>1. DOMAIN rx = 1 .. Len(rx) /\ DOMAIN rx' = 1 .. Len(rx) - 1 /\ Len(rx) \in Nat
      /\ 1 \in DOMAIN rx
  BY HeadLine DEF ModemType
<1>2. /\ Final(rx[1]) /\ tx = <<>>
      /\ \A l \in DOMAIN rx : Final(rx[l]) => l = 1
  BY <1>1, HeadLine DEF Resulted, Owed, AnswersMatch
<1>3. \A n \in DOMAIN rx' : ~Final(rx'[n])
  BY <1>1, <1>2, HeadLine
<1>4. \A n \in DOMAIN rx' : ~IsMessage(rx'[n])
  <2> SUFFICES ASSUME NEW n \in DOMAIN rx', IsMessage(rx'[n]) PROVE FALSE
    OBVIOUS
  <2>1. n + 1 \in DOMAIN rx /\ rx'[n] = rx[n + 1]
    BY <1>1, HeadLine
  <2>2. PICK k \in DOMAIN rx : n + 1 < k /\ Final(rx[k])
    BY <2>1 DEF Owed, PduAnswered
  <2> QED
    BY <1>1, <1>2, <2>2
<1>5. PICK s \in AfterResult(Head(rx)) : queue' = queue \o s
  BY DEF Resulted
<1>6. \A n \in 1 .. Len(s) : s[n].cmd = "CMGD" => s[n].obj \in reported'
  <2> SUFFICES ASSUME NEW n \in 1 .. Len(s), s[n].cmd = "CMGD" PROVE s[n].obj \in reported
    OBVIOUS
  <2>1. rx[1].res = "OK" /\ lastcmd.cmd = "CMGR" /\ s[n].obj = lastcmd.obj
    BY <1>5, HeadLine DEF AfterResult
  <2>2. lastcmd.obj \notin reported => \E j \in 1 .. 1 - 1 : PduAt(j, lastcmd.obj)
    BY <1>1, <2>1 DEF Owed, ReadFirst
  <2> QED
    BY <2>1, <2>2
<1>7. \A n \in DOMAIN queue' : Deletes(queue[n])'
  BY <1>5, <1>6, QueueDeletes DEF Owed, AfterResult
<1>8. lastcmd' = NoCmd
  BY DEF Resulted
<1>9. DeletesReported'
  BY <1>7, <1>8, NoCmdPlain DEF DeletesReported, Deletes
<1>10. AnswersMatch' /\ PduAnswered' /\ ReadFirst'
  BY <1>2, <1>3, <1>4, <1>8, NoCmdPlain DEF AnswersMatch, PduAnswered, ReadFirst, Final, IsMessage
<1> QED
  BY <1>9, <1>10 DEF Owed

(* Another line is read. *)
LEMMA ReadNote ==
  ASSUME TypeOK, ModemType, Owed, rx # <<>>, Noted(Head(rx)),
         rx' = Tail(rx), tx' = tx,
         reported' = IF Head(rx).res = "PDU" /\ lastcmd.cmd = "CMGR" /\ incomingPdu
                     THEN reported \cup ({Head(rx).arg} \ {NoObj}) ELSE reported
  PROVE  Owed'
<1>1. /\ DOMAIN rx = 1 .. Len(rx) /\ DOMAIN rx' = 1 .. Len(rx) - 1 /\ Len(rx) \in Nat
      /\ 1 \in DOMAIN rx
  BY HeadLine DEF ModemType
<1>2. \A n \in DOMAIN rx' : n + 1 \in DOMAIN rx /\ rx'[n] = rx[n + 1]
  BY <1>1, HeadLine
<1>3. lastcmd' = lastcmd /\ reported \subseteq reported'
  BY DEF Noted
<1>4. AnswersMatch'
  <2>1. ASSUME NEW k \in DOMAIN rx', Final(rx'[k])
        PROVE  Awaiting' /\ tx' = <<>> /\ \A l \in DOMAIN rx' : Final(rx'[l]) => l = k
    <3>1. Final(rx[k + 1]) /\ k + 1 \in DOMAIN rx
      BY <1>2, <2>1
    <3>2. ASSUME NEW l \in DOMAIN rx', Final(rx'[l]) PROVE l = k
      <4>1. Final(rx[l + 1]) /\ l + 1 \in DOMAIN rx
        BY <1>2, <3>2
      <4>2. l + 1 = k + 1
        BY <3>1, <4>1 DEF Owed, AnswersMatch
      <4> QED
        BY <1>1, <4>2
    <3> QED
      BY <1>3, <3>1, <3>2 DEF Owed, AnswersMatch, Awaiting
  <2>2. tx' # <<>> => Awaiting' /\ tx' = <<lastcmd'>>
    BY <1>3 DEF Owed, AnswersMatch, Awaiting
  <2> QED
    BY <2>1, <2>2 DEF AnswersMatch, Final
<1>5. PduAnswered'
  <2> SUFFICES ASSUME NEW n \in DOMAIN rx', IsMessage(rx'[n])
               PROVE  \E k \in DOMAIN rx' : n < k /\ Final(rx'[k])
    BY DEF PduAnswered, IsMessage, Final
  <2>1. PICK k \in DOMAIN rx : n + 1 < k /\ Final(rx[k])
    BY <1>2 DEF Owed, PduAnswered
  <2>2. k - 1 \in DOMAIN rx' /\ n < k - 1 /\ (k - 1) + 1 = k
    BY <1>1, <2>1
  <2>3. Final(rx'[k - 1])
    BY <1>2, <2>1, <2>2
  <2> QED
    BY <2>2, <2>3
<1>6. ReadFirst'
  <2> SUFFICES ASSUME lastcmd.cmd = "CMGR", lastcmd.obj \notin reported',
                      NEW k \in DOMAIN rx', rx'[k].res = "OK"
               PROVE  \E j \in 1 .. k - 1 : PduAt(j, lastcmd.obj)'
    BY <1>3 DEF ReadFirst
  <2>1. rx[k + 1].res = "OK" /\ k + 1 \in DOMAIN rx /\ k \in Nat
    BY <1>1, <1>2
  <2>2. PICK j \in 1 .. (k + 1) - 1 : PduAt(j, lastcmd.obj)
    BY <1>3, <2>1 DEF Owed, ReadFirst
  <2>3. j # 1
    <3> SUFFICES ASSUME j = 1 PROVE FALSE
      OBVIOUS
    <3>1. incomingPdu /\ rx[1].res = "PDU" /\ rx[1].arg = lastcmd.obj /\ lastcmd.obj # NoObj
      BY <2>2 DEF PduAt
    <3> QED
      BY <3>1, HeadLine
  <2> DEFINE i == j - 1
  <2>4. i \in 1 .. k - 1 /\ i \in DOMAIN rx' /\ i + 1 = j
    BY <1>1, <2>1, <2>3
  <2>5. \A l \in 1 .. i - 1 : l \in DOMAIN rx' /\ l + 1 \in 1 .. j - 1
    BY <1>1, <2>1, <2>4
  <2>6. \A l \in 1 .. i - 1 : ~IsMessage(rx'[l])
    BY <1>2, <2>2, <2>5 DEF PduAt
  <2>7. incomingPdu' \/ \E m \in 1 .. i - 1 : rx'[m].res = "CMGR"
    <3>1. CASE incomingPdu
      <4>1. ~IsMessage(rx[1])
        <5>1. 1 \in 1 .. j - 1
          BY <2>1, <2>3
        <5> QED
          BY <2>2, <5>1 DEF PduAt
      <4> QED
        BY <3>1, <4>1, HeadLine DEF Noted
    <3>2. CASE ~incomingPdu
      <4>1. PICK m \in 1 .. j - 1 : rx[m].res = "CMGR"
        BY <2>2, <3>2 DEF PduAt
      <4>2. CASE m = 1
        BY <4>1, <4>2, HeadLine DEF Noted
      <4>3. CASE m # 1
        <5>1. m - 1 \in 1 .. i - 1 /\ (m - 1) + 1 = m
          BY <2>1, <4>3
        <5> QED
          BY <1>2, <2>5, <4>1, <5>1
      <4> QED
        BY <4>2, <4>3
    <3> QED
      BY <3>1, <3>2
  <2>8. rx'[i] = rx[j]
    BY <1>2, <2>4
  <2>9. PduAt(i, lastcmd.obj)'
    BY <1>3, <2>2, <2>6, <2>7, <2>8 DEF PduAt, IsMessage
  <2> QED
    BY <2>4, <2>9
<1>7. PICK s \in Quiet : queue' = queue \o s
  BY DEF Noted
<1>8. \A n \in DOMAIN queue' : Deletes(queue[n])'
  BY <1>3, <1>7, QueueDeletes DEF Owed, Quiet
<1>9. DeletesReported'
  BY <1>3, <1>8 DEF Owed, DeletesReported, Deletes
<1> QED
  BY <1>4, <1>5, <1>6, <1>9 DEF Owed

(* Reading keeps what is owed. *)
LEMMA ReadOwed == ~LateAnswers /\ TypeOK /\ ModemType /\ Owed /\ Read => Owed'
<1> SUFFICES ASSUME ~LateAnswers, TypeOK, ModemType, Owed, Read PROVE Owed'
  OBVIOUS
<1>1. Head(rx) \in ModemLine /\ AtResponse(Head(rx)) /\ link = "up"
  BY HeadLine DEF Read
<1>2. CASE Dropped
  <2>1. rx' = <<>> /\ tx' = <<>>
    BY <1>2 DEF Read, Hung, Dropped
  <2> QED
    BY <1>2, <2>1, NothingOwedDropped DEF Dropped
<1>3. CASE Resulted(Head(rx))
  <2>1. rx' = Tail(rx) /\ tx' = tx /\ reported \subseteq reported'
    BY <1>1, <1>3 DEF Read, Hung, Resulted
  <2> QED
    BY <1>3, <2>1, ReadResult DEF Read
<1>4. CASE Noted(Head(rx))
  <2>1. rx' = Tail(rx) /\ tx' = tx
    BY <1>1, <1>4 DEF Read, Hung, Noted
  <2> QED
    BY <1>4, <2>1, ReadNote DEF Read
<1> QED
  BY <1>1, <1>2, <1>3, <1>4, LinePipe

(* The command written is the one awaited. *)
LEMMA WriteOwed == TypeOK /\ ModemType /\ Owed /\ Write => Owed'
<1> SUFFICES ASSUME TypeOK, ModemType, Owed, Write PROVE Owed'
  OBVIOUS
<1>1. /\ queue \in Seq(Command) /\ queue # <<>> /\ ~Awaiting /\ rx = <<>> /\ rx' = <<>>
      /\ lastcmd' = Head(queue) /\ queue' = Tail(queue) /\ reported' = reported
      /\ tx' = Append(tx, Head(queue))
  BY DEF Write, SendCommand, TypeOK
<1>2. Head(queue) = queue[1] /\ 1 \in DOMAIN queue /\ Head(queue) \in Command
  BY <1>1
<1>3. tx = <<>> /\ tx' = <<lastcmd'>> /\ Awaiting'
  <2>1. tx = <<>>
    BY <1>1 DEF Owed, AnswersMatch
  <2>2. tx' = <<lastcmd'>>
    BY <1>1, <2>1
  <2>3. Awaiting'
    BY <1>1, <1>2, CommandType DEF Awaiting
  <2> QED
    BY <2>1, <2>2, <2>3
<1>4. \A n \in DOMAIN queue' : n + 1 \in DOMAIN queue /\ queue'[n] = queue[n + 1]
  BY <1>1
<1>5. DeletesReported'
  BY <1>1, <1>2, <1>4 DEF Owed, DeletesReported, Deletes
<1>6. AnswersMatch' /\ PduAnswered' /\ ReadFirst'
  BY <1>1, <1>3 DEF AnswersMatch, PduAnswered, ReadFirst
<1> QED
  BY <1>5, <1>6 DEF Owed

(* A list followed by one more element. *)
LEMMA OneMore ==
  ASSUME NEW S, NEW s \in Seq(S), NEW t \in Seq(S), Len(t) = 1
  PROVE  /\ s \o t \in Seq(S) /\ Len(s \o t) = Len(s) + 1
         /\ \A n \in 1 .. Len(s) : (s \o t)[n] = s[n]
         /\ (s \o t)[Len(s \o t)] = t[1]
<1>1. s \o t \in Seq(S) /\ Len(s \o t) = Len(s) + Len(t) /\ Len(s) \in Nat
  BY ConcatProperties, LenProperties
<1>2. \A n \in 1 .. Len(s) : (s \o t)[n] = s[n]
  OBVIOUS
<1>3. (s \o t)[Len(s) + 1] = t[1]
  <2>1. \A n \in Len(s) + 1 .. Len(s) + Len(t) : (s \o t)[n] = t[n - Len(s)]
    OBVIOUS
  <2>2. Len(s) + 1 \in Len(s) + 1 .. Len(s) + Len(t) /\ (Len(s) + 1) - Len(s) = 1
    BY <1>1
  <2> QED
    BY <2>1, <2>2
<1> QED
  BY <1>1, <1>2, <1>3

(* The last index of a short list is one of its indexes. *)
LEMMA LastIndex == \A n \in 1 .. 3 : n \in 1 .. n
OBVIOUS

(* The answer to a command: data lines, then one final result; the OK of   *)
(* AT+CMGR comes after the message.                                        *)
LEMMA AnswerShape ==
  ASSUME ModemType, NEW cmd \in Command
  PROVE  /\ Answers(cmd) \in Seq(ModemLine) /\ Len(Answers(cmd)) \in 1 .. 3
         /\ \A n \in 1 .. Len(Answers(cmd)) :
              Final(Answers(cmd)[n]) <=> n = Len(Answers(cmd))
         /\ \A n \in 1 .. Len(Answers(cmd)) :
              /\ Answers(cmd)[n].res = "OK" /\ cmd.cmd = "CMGR"
              => /\ n = 3 /\ Answers(cmd)[1].res = "CMGR" /\ Answers(cmd)[2].res = "PDU"
                 /\ Answers(cmd)[2].arg = cmd.obj /\ cmd.obj # NoObj
<1> DEFINE last == IF Accepted(cmd) THEN <<Ok>> ELSE <<Error>>
<1>1. /\ last \in Seq(ModemLine) /\ Len(last) = 1 /\ Final(last[1])
      /\ last[1].res = "OK" => Accepted(cmd)
  <2>1. /\ Ok \in ModemLine /\ Error \in ModemLine /\ Final(Ok) /\ Final(Error)
        /\ Error.res # "OK"
    BY DEF Ok, Error, Line, ModemLine, Final
  <2> QED
    BY <2>1
<1>2. /\ Data(cmd, card) \in Seq(ModemLine) /\ Len(Data(cmd, card)) \in 0 .. 2
      /\ \A n \in 1 .. Len(Data(cmd, card)) : ~Final(Data(cmd, card)[n])
  <2>1. CASE cmd.cmd = "CPIN"
    <3>1. Line("CPIN", card) \in ModemLine /\ ~Final(Line("CPIN", card))
      BY DEF ModemType, Line, ModemLine, Final
    <3> QED
      BY <2>1, <3>1 DEF Data
  <2>2. CASE cmd.cmd = "CREG"
    <3>1. Creg \in ModemLine /\ ~Final(Creg)
      BY DEF Creg, Line, ModemLine, Final
    <3> QED
      BY <2>2, <3>1 DEF Data
  <2>3. CASE cmd.cmd = "CMGR" /\ cmd.obj \in store
    <3>1. /\ Line("CMGR", NoObj) \in ModemLine /\ ~Final(Line("CMGR", NoObj))
          /\ Line("PDU", cmd.obj) \in ModemLine /\ ~Final(Line("PDU", cmd.obj))
      BY <2>3 DEF ModemType, Line, ModemLine, Final
    <3> QED
      BY <2>3, <3>1 DEF Data
  <2>4. CASE ~(cmd.cmd = "CMGR" /\ cmd.obj \in store) /\ cmd.cmd \notin {"CPIN", "CREG"}
    <3>1. Data(cmd, card) = <<>>
      BY <2>4 DEF Data
    <3> QED
      BY <3>1
  <2> QED
    BY <2>1, <2>2, <2>3, <2>4
<1>3. Answers(cmd) = Data(cmd, card) \o last
  BY DEF Answers
<1> HIDE DEF last
<1>4. /\ Answers(cmd) \in Seq(ModemLine)
      /\ Len(Answers(cmd)) = Len(Data(cmd, card)) + 1
      /\ \A n \in 1 .. Len(Data(cmd, card)) : Answers(cmd)[n] = Data(cmd, card)[n]
      /\ Answers(cmd)[Len(Answers(cmd))] = last[1]
  <2> DEFINE data == Data(cmd, card)
  <2>1. data \in Seq(ModemLine) /\ last \in Seq(ModemLine) /\ Answers(cmd) = data \o last
        /\ Len(last) = 1 /\ Len(data) \in Nat
    BY <1>1, <1>2, <1>3
  <2> QED
    BY <2>1, OneMore
<1>5. ASSUME NEW n \in 1 .. Len(Answers(cmd))
      PROVE  Final(Answers(cmd)[n]) <=> n = Len(Answers(cmd))
  <2>1. CASE n = Len(Answers(cmd))
    BY <1>1, <1>4, <2>1
  <2>2. CASE n # Len(Answers(cmd))
    <3>1. n \in 1 .. Len(Data(cmd, card))
      BY <1>2, <1>4, <2>2
    <3> QED
      BY <1>2, <1>4, <2>2, <3>1
  <2> QED
    BY <2>1, <2>2
<1>6. ASSUME NEW n \in 1 .. Len(Answers(cmd)), Answers(cmd)[n].res = "OK", cmd.cmd = "CMGR"
      PROVE  /\ n = 3 /\ Answers(cmd)[1].res = "CMGR" /\ Answers(cmd)[2].res = "PDU"
             /\ Answers(cmd)[2].arg = cmd.obj /\ cmd.obj # NoObj
  <2>1. n = Len(Answers(cmd))
    BY <1>5, <1>6 DEF Final
  <2>2. Accepted(cmd)
    BY <1>1, <1>4, <1>6, <2>1
  <2>3. cmd.obj \in store /\ cmd.obj # NoObj
    BY <1>6, <2>2, ObjAssumption DEF Accepted, ModemType
  <2>4. Data(cmd, card) = <<Line("CMGR", NoObj), Line("PDU", cmd.obj)>>
    BY <1>6, <2>3 DEF Data
  <2>5. Len(Data(cmd, card)) = 2 /\ Answers(cmd)[1] = Line("CMGR", NoObj)
        /\ Answers(cmd)[2] = Line("PDU", cmd.obj)
    BY <1>4, <2>4
  <2> QED
    BY <1>4, <2>1, <2>3, <2>5 DEF Line
<1> QED
  BY <1>2, <1>4, <1>5, <1>6

(* The modem answers the one command it has. *)
LEMMA ServeOwed == TypeOK /\ ModemType /\ Owed /\ Serve => Owed'
<1> SUFFICES ASSUME TypeOK, ModemType, Owed, Serve PROVE Owed'
  OBVIOUS
<1>1. /\ tx = <<lastcmd>> /\ Awaiting /\ Head(tx) = lastcmd /\ tx' = <<>>
      /\ UNCHANGED <<lastcmd, queue, reported, incomingPdu>>
      /\ lastcmd \in Command
  <2>1. tx = <<lastcmd>> /\ Awaiting
    BY DEF Serve, Owed, AnswersMatch
  <2>2. Head(tx) = lastcmd /\ Tail(tx) = <<>>
    BY <2>1
  <2>3. tx' = Tail(tx) /\ UNCHANGED vars /\ UNCHANGED reported
    BY DEF Serve
  <2>4. UNCHANGED <<lastcmd, queue, incomingPdu>>
    BY <2>3 DEF vars, session, pipe
  <2> QED
    BY <2>1, <2>2, <2>3, <2>4 DEF TypeOK, Awaiting
<1>2. \A n \in DOMAIN rx : ~Final(rx[n])
  BY <1>1 DEF Owed, AnswersMatch
<1>3. \A n \in DOMAIN rx : ~IsMessage(rx[n])
  BY <1>2 DEF Owed, PduAnswered
<1>4. DeletesReported'
  BY <1>1 DEF Owed, DeletesReported, Deletes
<1>5. CASE rx' = rx
  <2>1. \A n \in DOMAIN rx : rx[n].res # "OK"
    BY <1>2 DEF Final
  <2>2. AnswersMatch' /\ PduAnswered' /\ ReadFirst'
    BY <1>1, <1>2, <1>3, <1>5, <2>1 DEF AnswersMatch, PduAnswered, ReadFirst, Final, IsMessage
  <2> QED
    BY <1>4, <2>2 DEF Owed
<1>6. CASE rx' = rx \o Answers(lastcmd)
  <2> DEFINE answer == Answers(lastcmd)
  <2>1. /\ answer \in Seq(ModemLine) /\ Len(answer) \in 1 .. 3
        /\ \A n \in 1 .. Len(answer) : Final(answer[n]) <=> n = Len(answer)
        /\ \A n \in 1 .. Len(answer) :
              answer[n].res = "OK" /\ lastcmd.cmd = "CMGR"
              => /\ n = 3 /\ answer[1].res = "CMGR" /\ answer[2].res = "PDU"
                 /\ answer[2].arg = lastcmd.obj /\ lastcmd.obj # NoObj
    BY <1>1, AnswerShape
  <2> HIDE DEF answer
  <2>2. rx \in Seq(ModemLine) /\ rx' = rx \o answer /\ Len(rx) \in Nat
    BY <1>6 DEF ModemType, answer
  <2>3. /\ DOMAIN rx = 1 .. Len(rx) /\ DOMAIN rx' = 1 .. Len(rx) + Len(answer)
        /\ \A n \in 1 .. Len(rx) : rx'[n] = rx[n]
        /\ \A n \in 1 .. Len(answer) : rx'[Len(rx) + n] = answer[n]
    BY <2>1, <2>2
  <2>4. \A n \in DOMAIN rx' : n \in DOMAIN rx
          \/ (n - Len(rx) \in 1 .. Len(answer) /\ rx'[n] = answer[n - Len(rx)])
    BY <2>1, <2>2, <2>3
  <2>5. \A n \in DOMAIN rx' : Final(rx'[n]) <=> n = Len(rx) + Len(answer)
    <3> SUFFICES ASSUME NEW n \in DOMAIN rx'
                 PROVE  Final(rx'[n]) <=> n = Len(rx) + Len(answer)
      OBVIOUS
    <3>1. CASE n \in DOMAIN rx
      BY <1>2, <2>1, <2>2, <2>3, <3>1
    <3>2. CASE n - Len(rx) \in 1 .. Len(answer) /\ rx'[n] = answer[n - Len(rx)]
      BY <2>1, <2>2, <2>3, <3>2
    <3> QED
      BY <2>4, <3>1, <3>2
  <2>6. AnswersMatch'
    <3>1. \A k \in DOMAIN rx' : Final(rx'[k]) => \A l \in DOMAIN rx' : Final(rx'[l]) => l = k
      BY <2>5
    <3> QED
      BY <1>1, <3>1 DEF AnswersMatch, Awaiting, Final
  <2>7. PduAnswered'
    <3> SUFFICES ASSUME NEW n \in DOMAIN rx', IsMessage(rx'[n])
                 PROVE  \E k \in DOMAIN rx' : n < k /\ Final(rx'[k])
      BY DEF PduAnswered, IsMessage, Final
    <3>1. ~Final(rx'[n])
      BY DEF IsMessage, Final
    <3>2. Len(rx) + Len(answer) \in DOMAIN rx' /\ n < Len(rx) + Len(answer)
      BY <2>1, <2>2, <2>3, <2>5, <3>1
    <3> QED
      BY <2>5, <3>2
  <2>8. ReadFirst'
    <3> SUFFICES ASSUME lastcmd.cmd = "CMGR", NEW k \in DOMAIN rx', rx'[k].res = "OK"
                 PROVE  \E j \in 1 .. k - 1 : PduAt(j, lastcmd.obj)'
      BY <1>1 DEF ReadFirst
    <3>1. k = Len(rx) + Len(answer)
      BY <2>5 DEF Final
    <3>2. answer[Len(answer)].res = "OK"
      <4>1. Len(answer) \in 1 .. Len(answer)
        BY <2>1, LastIndex
      <4> QED
        BY <2>3, <3>1, <4>1
    <3>3. /\ Len(answer) = 3 /\ answer[1].res = "CMGR" /\ answer[2].res = "PDU"
          /\ answer[2].arg = lastcmd.obj /\ lastcmd.obj # NoObj
      BY <2>1, <3>2
    <3>4. PICK j \in Nat : j = Len(rx) + 2
      BY <2>2
    <3>5. j \in 1 .. k - 1 /\ Len(rx) + 1 \in 1 .. j - 1
      BY <2>2, <3>1, <3>3, <3>4
    <3>6. rx'[j] = answer[2] /\ rx'[Len(rx) + 1] = answer[1]
      BY <2>3, <3>3, <3>4
    <3>7. ASSUME NEW l \in 1 .. j - 1 PROVE ~IsMessage(rx'[l])
      <4>1. CASE l = Len(rx) + 1
        BY <3>3, <3>6, <4>1 DEF IsMessage
      <4>2. CASE l # Len(rx) + 1
        <5>1. l \in DOMAIN rx
          BY <2>2, <2>3, <3>4, <4>2
        <5> QED
          BY <1>3, <2>3, <5>1
      <4> QED
        BY <4>1, <4>2
    <3>8. PduAt(j, lastcmd.obj)'
      BY <1>1, <3>3, <3>5, <3>6, <3>7 DEF PduAt, IsMessage
    <3> QED
      BY <3>5, <3>8
  <2> QED
    BY <1>4, <2>6, <2>7, <2>8 DEF Owed
<1> QED
  BY <1>1, <1>5, <1>6 DEF Serve

-----------------------------------------------------------------------------
(* The steps that touch the lines without reading, writing or answering.   *)

(* A line appended. *)
LEMMA AppendedLine ==
  ASSUME ModemType, Owed, UNCHANGED <<tx, lastcmd, queue, reported, incomingPdu>>,
         NEW e \in ModemLine, ~Final(e), ~IsMessage(e), rx' = Append(rx, e)
  PROVE  Owed'
<1>1. /\ Len(rx) \in 0 .. Len(rx) /\ rx' \in Seq(ModemLine) /\ Len(rx') = Len(rx) + 1
      /\ \A n \in 1 .. Len(rx) : rx'[n] = rx[n]
      /\ \A n \in Len(rx) + 1 .. Len(rx) : rx'[n + 1] = rx[n]
      /\ rx'[Len(rx) + 1] = e
  BY DEF ModemType
<1> QED
  BY <1>1, NoiseKept

(* What InsertAt gives. *)
LEMMA Inserted ==
  ASSUME NEW s \in Seq(ModemLine), NEW e \in ModemLine, NEW p \in 0 .. Len(s)
  PROVE  /\ InsertAt(s, p + 1, e) \in Seq(ModemLine)
         /\ Len(InsertAt(s, p + 1, e)) = Len(s) + 1
         /\ \A n \in 1 .. p : InsertAt(s, p + 1, e)[n] = s[n]
         /\ InsertAt(s, p + 1, e)[p + 1] = e
         /\ \A n \in p + 1 .. Len(s) : InsertAt(s, p + 1, e)[n + 1] = s[n]
<1> DEFINE a == SubSeq(s, 1, p)
           b == SubSeq(s, p + 1, Len(s))
           t == a \o <<e>>
<1>1. InsertAt(s, p + 1, e) = t \o b
  <2>1. (p + 1) - 1 = p
    OBVIOUS
  <2> QED
    BY <2>1 DEF InsertAt
<1>2. /\ a \in Seq(ModemLine) /\ Len(a) = p /\ \A n \in 1 .. p : a[n] = s[n]
      /\ b \in Seq(ModemLine) /\ Len(b) = Len(s) - p
      /\ \A n \in 1 .. Len(s) - p : b[n] = s[p + n]
  OBVIOUS
<1> HIDE DEF a, b
<1>3. /\ t \in Seq(ModemLine) /\ Len(t) = p + 1 /\ t[p + 1] = e
      /\ \A n \in 1 .. p : t[n] = s[n]
  <2>1. <<e>> \in Seq(ModemLine) /\ Len(<<e>>) = 1 /\ <<e>>[1] = e
    OBVIOUS
  <2> QED
    BY <1>2, <2>1, OneMore
<1> HIDE DEF t
<1>4. /\ t \o b \in Seq(ModemLine) /\ Len(t \o b) = Len(s) + 1
      /\ \A n \in 1 .. p + 1 : (t \o b)[n] = t[n]
      /\ \A n \in p + 2 .. Len(s) + 1 : (t \o b)[n] = b[n - (p + 1)]
  BY <1>2, <1>3
<1>5. ASSUME NEW n \in p + 1 .. Len(s) PROVE (t \o b)[n + 1] = s[n]
  <2>1. n + 1 \in p + 2 .. Len(s) + 1 /\ n - p \in 1 .. Len(s) - p
        /\ (n + 1) - (p + 1) = n - p /\ p + (n - p) = n
    OBVIOUS
  <2>2. (t \o b)[n + 1] = b[n - p]
    BY <1>4, <2>1
  <2>3. b[n - p] = s[n]
    BY <1>2, <2>1
  <2> QED
    BY <2>2, <2>3
<1>6. \A n \in 1 .. p : (t \o b)[n] = s[n]
  BY <1>3, <1>4
<1>7. (t \o b)[p + 1] = e
  BY <1>3, <1>4
<1> QED
  BY <1>1, <1>4, <1>5, <1>6, <1>7

(* The monitor that leaves late, on a tty that is closed. *)
LEMMA LeaveOwed ==
  ASSUME TypeOK, LinesIdle, Owed, Leave
  PROVE  Owed'
<1>1. tx' = <<>> /\ rx' = <<>> /\ reported' = reported
  BY DEF Leave, MonitorLate, MonitorLeave, LinesIdle, modem
<1>2. CASE MonitorLate
  <2>1. queue' = <<Plain("AT")>> /\ lastcmd' = NoCmd
    BY <1>2 DEF MonitorLate
  <2>2. \A n \in DOMAIN queue' : queue'[n].cmd = "AT"
    BY <2>1 DEF Plain
  <2> QED
    BY <1>1, <2>1, <2>2, NoCmdPlain
       DEF Owed, AnswersMatch, DeletesReported, Deletes, PduAnswered, ReadFirst
<1>3. CASE MonitorLeave
  <2>1. queue \in Seq(Command)
    BY DEF TypeOK
  <2>2. DeletesReported'
    <3>1. CASE UNCHANGED pipe
      BY <1>1, <3>1 DEF pipe, Owed, DeletesReported, Deletes
    <3>2. CASE queue # <<>> /\ lastcmd' = Head(queue) /\ queue' = Tail(queue)
      <4>1. 1 \in DOMAIN queue /\ lastcmd' = queue[1]
        BY <2>1, <3>2
      <4>2. \A n \in DOMAIN queue' : queue'[n] = queue[n + 1] /\ n + 1 \in DOMAIN queue
        BY <2>1, <3>2
      <4> QED
        BY <1>1, <4>1, <4>2 DEF Owed, DeletesReported, Deletes
    <3> QED
      BY <1>3, <3>1, <3>2 DEF MonitorLeave
  <2> QED
    BY <1>1, <2>2 DEF Owed, AnswersMatch, PduAnswered, ReadFirst
<1> QED
  BY <1>2, <1>3 DEF Leave

(* The other steps. *)
LEMMA QuietOwed ==
  ASSUME IInv, ModemType, LinesIdle, Owed,
         \/ Connect \/ Start \/ Request \/ UnknownLine \/ UNCHANGED all
         \/ \E i \in SmsIndexes : MessageArrives(i)
  PROVE  Owed'
<1>1. CASE Connect
  BY <1>1, OwedSame DEF Connect, TryConnect, modem, pipe
<1>2. CASE Start
  <2>1. /\ lastcmd' = NoCmd /\ queue' = <<Plain("AT")>>
        /\ UNCHANGED <<tx, rx, reported, incomingPdu>>
    BY <1>2 DEF Start, MonitorStart, modem
  <2>2. tx = <<>> /\ rx = <<>>
    BY <1>2 DEF Start, MonitorStart, LinesIdle
  <2>3. AnswersMatch' /\ PduAnswered' /\ ReadFirst'
    BY <2>1, <2>2, NoCmdPlain DEF Owed, AnswersMatch, Awaiting, PduAnswered, ReadFirst
  <2>4. DeletesReported'
    <3>1. \A n \in DOMAIN queue' : queue'[n].cmd = "AT"
      BY <2>1 DEF Plain
    <3> QED
      BY <2>1, <3>1, NoCmdPlain DEF DeletesReported, Deletes
  <2> QED
    BY <2>3, <2>4 DEF Owed
<1>3. CASE Request
  <2>1. queue' = queue \o <<Plain("CMGS")>> /\ <<Plain("CMGS")>> \in Quiet
    BY <1>3, QuietCommands, QuietInit DEF Request, SendSms, Enqueue
  <2>2. UNCHANGED <<tx, rx, lastcmd, reported, incomingPdu>>
    BY <1>3 DEF Request, SendSms, session
  <2> QED
    BY <2>1, <2>2, QueueGrows DEF IInv
<1>4. CASE UnknownLine
  <2>1. PICK e \in ModemLine : e = Line("PDU", NoObj) /\ ~Final(e) /\ ~IsMessage(e)
    <3>1. Line("PDU", NoObj) \in ModemLine /\ ~Final(Line("PDU", NoObj))
          /\ ~IsMessage(Line("PDU", NoObj))
      BY DEF Line, ModemLine, Final, IsMessage
    <3> QED
      BY <3>1
  <2>2. PICK k \in 0 .. Len(rx) : rx' = InsertAt(rx, k + 1, e)
    BY <1>4, <2>1 DEF UnknownLine
  <2>3. UNCHANGED <<tx, lastcmd, queue, reported, incomingPdu>>
    BY <1>4 DEF UnknownLine, vars, session, pipe
  <2>4. /\ rx' \in Seq(ModemLine) /\ Len(rx') = Len(rx) + 1
        /\ \A n \in 1 .. k : rx'[n] = rx[n]
        /\ rx'[k + 1] = e
        /\ \A n \in k + 1 .. Len(rx) : rx'[n + 1] = rx[n]
    <3>1. rx \in Seq(ModemLine)
      BY DEF ModemType
    <3>2. /\ InsertAt(rx, k + 1, e) \in Seq(ModemLine)
          /\ Len(InsertAt(rx, k + 1, e)) = Len(rx) + 1
          /\ \A n \in 1 .. k : InsertAt(rx, k + 1, e)[n] = rx[n]
          /\ InsertAt(rx, k + 1, e)[k + 1] = e
          /\ \A n \in k + 1 .. Len(rx) : InsertAt(rx, k + 1, e)[n + 1] = rx[n]
      BY <3>1, Inserted
    <3> QED
      BY <2>2, <3>2, Zenon
  <2> QED
    BY <2>1, <2>3, <2>4, NoiseKept
<1>5. CASE \E i \in SmsIndexes : MessageArrives(i)
  <2>1. PICK i \in SmsIndexes : MessageArrives(i)
    BY <1>5
  <2>2. UNCHANGED <<tx, lastcmd, queue, reported, incomingPdu>>
    BY <2>1 DEF MessageArrives, vars, session, pipe
  <2>3. /\ Line("CMTI", i) \in ModemLine /\ ~Final(Line("CMTI", i))
        /\ ~IsMessage(Line("CMTI", i))
    BY DEF Line, ModemLine, Final, IsMessage
  <2>4. CASE rx' = Append(rx, Line("CMTI", i))
    BY <2>2, <2>3, <2>4, AppendedLine
  <2>5. CASE rx' = rx
    BY <2>2, <2>5, OwedSame
  <2> QED
    BY <2>1, <2>4, <2>5 DEF MessageArrives
<1>6. CASE UNCHANGED all
  BY <1>6, OwedSame DEF all, modem, vars, session, pipe
<1> QED
  BY <1>1, <1>2, <1>3, <1>4, <1>5, <1>6

(* Every step keeps what is owed. *)
LEMMA OwedKept ==
  ~LateAnswers /\ IInv /\ ModemType /\ LinesIdle /\ Owed /\ [ModemNext]_all => Owed'
<1> SUFFICES ASSUME ~LateAnswers, IInv, ModemType, LinesIdle, Owed, [ModemNext]_all PROVE Owed'
  OBVIOUS
<1>1. TypeOK
  BY DEF IInv
<1>2. CASE Write \/ Read \/ Serve
  BY <1>1, <1>2, WriteOwed, ReadOwed, ServeOwed
<1>3. CASE Silence
  <2>1. queue' = <<>> /\ lastcmd' = NoCmd /\ rx' = <<>> /\ tx' = <<>>
    BY <1>3 DEF Silence, Timeout, Disconnect, DropLink, Reset, Hung
  <2> QED
    BY <2>1, NothingOwedDropped
<1>4. CASE Unplug
  <2>1. queue' = <<>> /\ lastcmd' = NoCmd /\ rx' = <<>> /\ tx' = <<>>
    BY <1>4 DEF Unplug, LostConnection, LostEarly, Reset
  <2> QED
    BY <2>1, NothingOwedDropped
<1>5. CASE \/ Connect \/ Start \/ Request \/ UnknownLine \/ UNCHANGED all
           \/ \E i \in SmsIndexes : MessageArrives(i)
  BY <1>5, QuietOwed
<1>6. CASE Leave
  BY <1>1, <1>6, LeaveOwed
<1> QED
  BY <1>2, <1>3, <1>4, <1>5, <1>6 DEF ModemNext

(* A session that ends takes with it what is on its way, and nobody speaks *)
(* on a closed tty.                                                        *)
LEMMA LinesIdleKept ==
  ~LateAnswers /\ TypeOK /\ ModemType /\ LinesIdle /\ [ModemNext]_all => LinesIdle'
<1> SUFFICES ASSUME ~LateAnswers, TypeOK, ModemType, LinesIdle, [ModemNext]_all PROVE LinesIdle'
  OBVIOUS
<1>1. CASE Connect \/ Start \/ Leave \/ Request \/ UNCHANGED all
  BY <1>1 DEF Connect, Start, Leave, Request, TryConnect, MonitorStart, MonitorLate, MonitorLeave,
              SendSms, all, modem, vars, session, LinesIdle
<1>2. CASE Write \/ UnknownLine \/ \E i \in SmsIndexes : MessageArrives(i)
  BY <1>2 DEF Write, SendCommand, UnknownLine, MessageArrives, vars, session, LinesIdle
<1>3. CASE Read
  <2>1. Head(rx) \in ModemLine /\ AtResponse(Head(rx)) /\ link = "up"
    BY <1>3, HeadLine DEF Read
  <2>2. link' = "down" \/ link' = "up"
    BY <2>1, LinePipe DEF Dropped, Resulted, Noted
  <2> QED
    BY <1>3, <2>2 DEF Read, Hung, LinesIdle
<1>4. CASE Silence
  BY <1>4 DEF Silence, Timeout, Disconnect, DropLink, Hung, LinesIdle
<1>5. CASE Serve
  BY <1>5 DEF Serve, LinesIdle, vars, session
<1>6. CASE Unplug
  BY <1>6 DEF Unplug, LinesIdle
<1> QED
  BY <1>1, <1>2, <1>3, <1>4, <1>5, <1>6 DEF ModemNext

-----------------------------------------------------------------------------
(* The lines and the store keep their types, and no message is lost.       *)

(* Reading takes lines away. *)
LEMMA ReadLines == ModemType /\ Read => rx' \in Seq(ModemLine) /\ tx' \in Seq(Command)
<1> SUFFICES ASSUME ModemType, Read PROVE rx' \in Seq(ModemLine) /\ tx' \in Seq(Command)
  OBVIOUS
<1>1. Tail(rx) \in Seq(ModemLine) /\ tx \in Seq(Command)
  BY HeadLine DEF Read, ModemType
<1> QED
  BY <1>1 DEF Read, Hung

(* Executing a command adds its answer. *)
LEMMA ServeLines ==
  ModemType /\ Serve => /\ rx' \in Seq(ModemLine) /\ tx' \in Seq(Command)
                        /\ card' \in SimReports /\ store' \subseteq store
<1> SUFFICES ASSUME ModemType, Serve
             PROVE  /\ rx' \in Seq(ModemLine) /\ tx' \in Seq(Command)
                    /\ card' \in SimReports /\ store' \subseteq store
  OBVIOUS
<1>1. tx \in Seq(Command) /\ tx # <<>> /\ Head(tx) \in Command /\ Tail(tx) \in Seq(Command)
  BY DEF Serve, ModemType
<1>2. Answers(Head(tx)) \in Seq(ModemLine) /\ rx \in Seq(ModemLine)
  BY <1>1, AnswerShape DEF ModemType
<1>3. rx \o Answers(Head(tx)) \in Seq(ModemLine)
  BY <1>2, ConcatProperties
<1>4. rx' \in Seq(ModemLine)
  BY <1>2, <1>3 DEF Serve
<1>5. card' \in SimReports /\ store' \subseteq store /\ tx' = Tail(tx)
  BY DEF Serve, ModemType
<1> QED
  BY <1>1, <1>4, <1>5

(* Every step keeps the types of the modem. *)
LEMMA ModemTypeKept == TypeOK /\ ModemType /\ [ModemNext]_all => ModemType'
<1> SUFFICES ASSUME TypeOK, ModemType, [ModemNext]_all PROVE ModemType'
  OBVIOUS
<1>1. CASE Connect \/ Start \/ Leave \/ Request \/ UNCHANGED all
  BY <1>1 DEF Connect, Start, Leave, Request, all, modem, ModemType
<1>2. CASE Write
  <2>1. Head(queue) \in Command
    BY <1>2 DEF Write, SendCommand, TypeOK
  <2> QED
    BY <1>2, <2>1 DEF Write, ModemType
<1>3. CASE Read
  BY <1>3, ReadLines DEF Read, ModemType
<1>4. CASE Silence
  <2>1. rx' = <<>> /\ tx' \in Seq(Command) /\ UNCHANGED <<card, store>>
    BY <1>4, EmptyCommands DEF Silence, Timeout, Disconnect, DropLink, Hung, ModemType
  <2> QED
    BY <2>1 DEF ModemType
<1>5. CASE Serve
  BY <1>5, ServeLines DEF ModemType
<1>6. CASE UnknownLine
  <2>1. PICK e \in ModemLine, k \in 0 .. Len(rx) : rx' = InsertAt(rx, k + 1, e)
    <3>1. Line("PDU", NoObj) \in ModemLine
      BY DEF Line, ModemLine
    <3> QED
      BY <1>6, <3>1 DEF UnknownLine
  <2>2. rx' \in Seq(ModemLine)
    BY <2>1, Inserted DEF ModemType
  <2> QED
    BY <1>6, <2>2 DEF UnknownLine, ModemType
<1>7. CASE Unplug
  <2>1. tx' = <<>> /\ rx' = <<>> /\ card' \in SimReports /\ store' = store
    BY <1>7 DEF Unplug
  <2> QED
    BY <2>1, EmptyCommands DEF ModemType
<1>8. CASE \E i \in SmsIndexes : MessageArrives(i)
  <2>1. PICK i \in SmsIndexes : MessageArrives(i)
    BY <1>8
  <2>2. Line("CMTI", i) \in ModemLine
    BY DEF Line, ModemLine
  <2>3. rx' \in Seq(ModemLine) /\ store' \subseteq SmsIndexes /\ UNCHANGED <<tx, card>>
    BY <2>1, <2>2 DEF MessageArrives, ModemType
  <2> QED
    BY <2>3 DEF ModemType
<1> QED
  BY <1>1, <1>2, <1>3, <1>4, <1>5, <1>6, <1>7, <1>8 DEF ModemNext

(* A message leaves the store only when the engine has it. *)
LEMMA MessagesKept == Owed /\ MessageKept /\ [ModemNext]_all => MessageKept'
<1> SUFFICES ASSUME Owed, MessageKept, [ModemNext]_all PROVE MessageKept'
  OBVIOUS
<1>1. CASE Serve
  <2>1. Head(tx) = lastcmd /\ Deletes(lastcmd)
    <3>1. tx = <<lastcmd>>
      BY <1>1 DEF Serve, Owed, AnswersMatch
    <3> QED
      BY <3>1 DEF Owed, DeletesReported
  <2>2. /\ store \subseteq store' \cup reported
        /\ UNCHANGED <<arrived, reported>>
    BY <1>1, <2>1 DEF Serve, Deletes
  <2> QED
    BY <2>2 DEF MessageKept
<1>2. CASE \E i \in SmsIndexes : MessageArrives(i)
  BY <1>2 DEF MessageArrives, MessageKept
<1>3. CASE \/ Connect \/ Start \/ Write \/ Read \/ Silence \/ Leave \/ Request \/ UnknownLine
           \/ Unplug
  <2>1. arrived' = arrived /\ store' = store /\ reported \subseteq reported'
    BY <1>3 DEF Connect, Start, Write, Read, Silence, Leave, Request, UnknownLine, Unplug, modem
  <2> QED
    BY <2>1 DEF MessageKept
<1>4. CASE UNCHANGED all
  BY <1>4 DEF all, modem, MessageKept
<1> QED
  BY <1>1, <1>2, <1>3, <1>4 DEF ModemNext

-----------------------------------------------------------------------------

(* The invariant holds when the card is powered. *)
LEMMA ModemInitSafe == ModemInit => LinkInv
<1> SUFFICES ASSUME ModemInit PROVE LinkInv
  OBVIOUS
<1>1. IInv
  BY InitSafe DEF ModemInit
<1>2. queue = <<>> /\ lastcmd = NoCmd /\ tx = <<>> /\ rx = <<>>
  BY DEF ModemInit, Init
<1>3. Owed
  BY <1>2, NoCmdPlain
     DEF Owed, AnswersMatch, DeletesReported, Deletes, PduAnswered, ReadFirst
<1>4. ModemType
  <2>1. card \in SimReports /\ store = {}
    BY DEF ModemInit
  <2> QED
    BY <1>2, <2>1, EmptyCommands DEF ModemType
<1>5. MessageKept
  BY DEF ModemInit, MessageKept
<1> QED
  BY <1>1, <1>2, <1>3, <1>4, <1>5 DEF LinkInv, LinesIdle

(* Every step of the composition keeps it. *)
LEMMA ModemNextSafe == ~LateAnswers /\ LinkInv /\ [ModemNext]_all => LinkInv'
<1> SUFFICES ASSUME ~LateAnswers, LinkInv, [ModemNext]_all PROVE LinkInv'
  OBVIOUS
<1>1. IInv'
  BY CardStep, NextSafe DEF LinkInv
<1>2. Owed'
  BY OwedKept DEF LinkInv
<1>3. ModemType'
  BY ModemTypeKept DEF LinkInv, IInv
<1>4. MessageKept'
  BY MessagesKept DEF LinkInv
<1>5. LinesIdle'
  BY LinesIdleKept DEF LinkInv, IInv
<1> QED
  BY <1>1, <1>2, <1>3, <1>4, <1>5 DEF LinkInv

(* at_response takes an OK or ERROR for the answer to m_lastcmd without    *)
(* looking: with answers that come in time or never, it is that answer,    *)
(* whatever the modem refuses, loses or interposes.                        *)
THEOREM AnswersMatchHolds ==
  ASSUME ~LateAnswers
  PROVE  ModemSpec => []AnswersMatch
<1>1. LinkInv => AnswersMatch
  BY DEF LinkInv, Owed
<1>2. LinkInv /\ [ModemNext]_all => LinkInv'
  BY ModemNextSafe
<1> QED
  BY <1>1, <1>2, ModemInitSafe, PTL DEF ModemSpec

(* No message the network delivered is lost: at_response_ok deletes it     *)
(* with AT+CMGD only after onReceiveSMS had it, through any number of lost *)
(* sessions, lost answers and lines that interrupt its AT+CMGR.            *)
THEOREM MessageKeptHolds ==
  ASSUME ~LateAnswers
  PROVE  ModemSpec => []MessageKept
<1>1. LinkInv => MessageKept
  BY DEF LinkInv
<1>2. LinkInv /\ [ModemNext]_all => LinkInv'
  BY ModemNextSafe
<1> QED
  BY <1>1, <1>2, ModemInitSafe, PTL DEF ModemSpec
=============================================================================
