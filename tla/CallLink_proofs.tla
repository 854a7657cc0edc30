-------------------------- MODULE CallLink_proofs --------------------------
(***************************************************************************)
(* Proofs about a card, its modem and the calls they have, for every set   *)
(* of channels, every bound and any number of calls, second rings and      *)
(* losses of the card.                                                     *)
(***************************************************************************)
EXTENDS CallLink, CardDevice_proofs, SequenceTheorems

USE ObjAssumption, BoundAssumption, EventsAssumption, SimReadyAssumption

(* What the modem sends. *)
CallLine == {"OK", "ERROR", "CPIN", "ORIG", "CEND", "CLIP", "RING", "BUSY", "NO_CARRIER"}
Finals   == {"OK", "ERROR"}
Failures == {"BUSY", "NO_CARRIER"}

LinkType ==
  /\ tx \in Seq(Command) /\ rx \in Seq(CallLine)
  /\ call \in {"none", "dialled", "ringing", "active"}

-----------------------------------------------------------------------------
(* Every step of the composition is a step of the card, or none.           *)

(* The line about to be read. *)
LEMMA HeadLine ==
  ASSUME LinkType, rx # <<>>
  PROVE  /\ Head(rx) \in CallLine /\ Head(rx) = rx[1]
         /\ Tail(rx) \in Seq(CallLine)
         /\ Len(rx) \in Nat /\ Len(rx) > 0 /\ Len(Tail(rx)) = Len(rx) - 1
         /\ \A n \in 1 .. Len(rx) - 1 : Tail(rx)[n] = rx[n + 1]
BY DEF LinkType

(* The handler of a line is an action of the card. *)
LEMMA HandlerStep ==
  ASSUME NEW res \in CallLine, AtResponse(res)
  PROVE  [Next]_vars
<1>1. OkChained \/ OkCpin \/ OkCnmi \/ OkService \/ ErrorRequired \/ ErrorService => Answer
  BY DEF Answer
<1>2. ResponseCpin(0) => Unsolicited
  BY DEF Unsolicited
<1>3. ASSUME NEW c \in Channels, ResponseClip(c) PROVE Unsolicited
  BY <1>3 DEF Unsolicited
<1>4. ResponseOrig \/ ResponseCend \/ ResponseClipFails \/ ResponseRing \/ ResponseBusy
        \/ ResponseNoCarrier => Unsolicited
  BY DEF Unsolicited
<1>5. Answer \/ Unsolicited \/ UNCHANGED vars
  BY <1>1, <1>2, <1>3, <1>4 DEF AtResponse
<1> QED
  BY <1>5 DEF Next

(* A step of the engine. *)
LEMMA EngageStep ==
  ASSUME NEW c \in Channels, Dial(c) \/ Own(c) \/ Place(c) \/ Route(c) \/ Pick(c) \/ Release(c)
  PROVE  Engine
<1>1. Execute(c) \/ SetConnection(c) \/ (\E clir \in BOOLEAN : NewCall(c, clir))
        \/ Routed(c) \/ SendAnswer(c) \/ Destroy(c)
  BY DEF Dial, Own, Place, Route, Pick, Release
<1> QED
  BY <1>1 DEF Engine

(* Every step of the composition. *)
LEMMA CardStep == LinkType /\ [CallNext]_all => [Next]_vars
<1> SUFFICES ASSUME LinkType, [CallNext]_all PROVE [Next]_vars
  OBVIOUS
<1>1. CASE Connect \/ Start \/ Leave \/ Write \/ Unplug
  BY <1>1 DEF Connect, Start, Leave, Write, Unplug, Next, Monitor
<1>2. CASE Engage
  BY <1>2, EngageStep DEF Engage, Next
<1>3. CASE Read
  BY <1>3, HeadLine, HandlerStep DEF Read
<1>4. CASE Serve \/ NetworkCalls \/ RingsAgain \/ RemoteAnswers \/ RemoteEnds
  BY <1>4 DEF Serve, NetworkCalls, RingsAgain, RemoteAnswers, RemoteEnds
<1>5. CASE UNCHANGED all
  BY <1>5 DEF all
<1> QED
  BY <1>1, <1>2, <1>3, <1>4, <1>5 DEF CallNext

(* The card in service with which the first call finds it. *)
LEMMA StartSafe == CallInit => IInv /\ LinkType
<1> SUFFICES ASSUME CallInit PROVE IInv /\ LinkType
  OBVIOUS
<1>1. LinkType
  BY DEF CallInit, LinkType
<1>2. TypeOK
  <2>1. /\ queue \in Seq(Command) /\ lastcmd \in Command \cup {NoCmd}
    BY EmptyCommands DEF CallInit
  <2>2. chan \in [Channels -> ChanStates]
    BY DEF CallInit, ChanStates
  <2>3. simstatus \in SimStates /\ pincount \in {0, 1}
    BY DEF CallInit, SimStates
  <2> QED
    BY <2>1, <2>2, <2>3 DEF CallInit, TypeOK, LinkStates
<1>3. \A K \in SUBSET InitCmds : Slots(K) = {}
  BY CommandType DEF CallInit, Slots, Slot
<1>4. PipeInv
  BY <1>3, PinKind DEF CallInit, PipeInv, InitToken, Initializing, PinCounted, NothingOutlives
<1>5. ServiceInv /\ OwnerAlive
  BY DEF CallInit, ServiceInv, ReadyHasSms, IncomingInService, OwnerAlive
<1> QED
  BY <1>1, <1>2, <1>4, <1>5 DEF IInv

-----------------------------------------------------------------------------
(* What the handler of a line does to the calls, case by case.             *)

(* The commands that begin no call. *)
Neutral == {x \in Command : x.cmd \notin {"A", "CLIR", "D"}}

(* A history of mishaps only grows, and only newCall adds "blind" to it. *)
Kept == mishaps \subseteq mishaps' /\ ("blind" \in mishaps' => "blind" \in mishaps)

(* A line that neither begins nor ends a call, but for RING. *)
Silent(res) ==
  /\ res \notin {"CEND"} \cup Failures
  /\ UNCHANGED <<link, conn, chan, outgoing, needchup, needring>>
  /\ initialized => initialized'
  /\ incoming' = (incoming \/ (res = "RING" /\ initialized))
  /\ queue' = queue \/ \E x \in Neutral : queue' = Append(queue, x)
  /\ IF res \in Finals THEN lastcmd' = NoCmd /\ lastcmd.cmd # "CLIR" ELSE lastcmd' = lastcmd
  /\ Kept

(* The answer to AT+CLIR, which brings ATD into the queue. *)
Passed(res) ==
  /\ res \in Finals /\ lastcmd.cmd = "CLIR"
  /\ UNCHANGED <<link, conn, chan, initialized, incoming, outgoing, needchup, needring>>
  /\ queue' = Append(queue, With("D", lastcmd.obj)) /\ lastcmd' = NoCmd
  /\ Kept

(* Hangup. *)
Cut(res, chup) ==
  /\ UNCHANGED <<link, initialized>>
  /\ conn' = NoConn
  /\ \A c \in Channels :
       chan'[c] = IF c = conn /\ chan[c] \in {"in", "out"} THEN "ended" ELSE chan[c]
  /\ IF conn = NoConn THEN needchup' = chup /\ queue' = queue
     ELSE /\ needchup' = FALSE
          /\ queue' = IF chup THEN Append(queue, Plain("CHUP")) ELSE queue
  /\ EndNoted(res)

Ended(res) ==
  /\ res = "CEND" /\ Cut(res, FALSE) /\ lastcmd' = lastcmd
  /\ incoming' = FALSE /\ outgoing' = FALSE /\ needring' = FALSE

Failed(res) ==
  /\ res \in Failures /\ Cut(res, TRUE)
  /\ lastcmd' = lastcmd \/ (lastcmd.cmd = "A" /\ lastcmd' = NoCmd)
  /\ UNCHANGED <<incoming, outgoing, needring>>

NoAnswer(res) ==
  /\ res = "ERROR" /\ lastcmd.cmd = "A" /\ Cut(res, needchup) /\ lastcmd' = NoCmd
  /\ UNCHANGED <<incoming, outgoing, needring>>

NoDial(res) ==
  /\ res = "ERROR" /\ lastcmd.cmd = "D" /\ Cut(res, FALSE) /\ lastcmd' = NoCmd
  /\ outgoing' = FALSE
  /\ UNCHANGED <<incoming, needring>>

(* A new channel for an incoming call. *)
Taken(res, c) ==
  /\ res = "CLIP" /\ initialized
  /\ chan[c] = "free"
  /\ chan' = [chan EXCEPT ![c] = "routing"] /\ conn' = c
  /\ incoming' = TRUE /\ needchup' = TRUE /\ needring' = TRUE
  /\ UNCHANGED <<link, initialized, queue, lastcmd, outgoing>>
  /\ Kept /\ (conn # NoConn => "overlap" \in mishaps')

(* The end of the session, and why it ended. *)
Emptied ==
  /\ link' # "up" /\ initialized' = FALSE /\ queue' = <<>> /\ lastcmd' = NoCmd
  /\ incoming' = FALSE /\ outgoing' = FALSE /\ needchup' = FALSE /\ needring' = FALSE
  /\ conn' = NoConn
  /\ \A c \in Channels :
       chan'[c] = chan[c] \/ (c = conn /\ chan[c] \in {"in", "out"} /\ chan'[c] = "ended")
  /\ Kept

Dropped(res) ==
  /\ Emptied /\ link' = "down"
  /\ \/ res = "OK" /\ ~initialized
     \/ /\ res = "ERROR" /\ lastcmd.cmd \notin {"A", "D"}
        /\ conn # NoConn => \/ chan[conn] \in {"in", "out"} /\ chan'[conn] = "ended"
                            \/ "unheard" \in mishaps'
     \/ "unrouted" \in mishaps'

(* Only AT+CHUP, or nothing, is appended by Hangup. *)
LEMMA HangupCut ==
  ASSUME TypeOK, NEW chup \in BOOLEAN, Hangup(chup), NEW res, EndNoted(res),
         UNCHANGED <<link, initialized>>
  PROVE  Cut(res, chup)
<1>1. NoConn \notin Channels /\ queue \in Seq(Command) /\ chan \in [Channels -> ChanStates]
  BY DEF NoConn, TypeOK
<1>2. CASE conn = NoConn
  BY <1>1, <1>2 DEF Hangup, Cut
<1>3. CASE conn # NoConn
  <2>1. queue' = queue \o (IF chup THEN <<Plain("CHUP")>> ELSE <<>>)
    BY <1>3 DEF Hangup, Enqueue
  <2>2. queue' = IF chup THEN Append(queue, Plain("CHUP")) ELSE queue
    <3>1. Plain("CHUP") \in Command
      BY CommandType DEF ServiceCmds
    <3> QED
      BY <1>1, <2>1, <3>1
  <2> QED
    BY <1>1, <1>3, <2>2 DEF Hangup, EndOwner, Cut
<1> QED
  BY <1>2, <1>3

(* The end of a session empties it. *)
LEMMA ResetEmpties ==
  ASSUME TypeOK, Reset, EndOwner, link' # "up", Kept
  PROVE  /\ Emptied
         /\ conn # NoConn /\ chan[conn] \in {"in", "out"} => chan'[conn] = "ended"
BY DEF Reset, EndOwner, Emptied, TypeOK

(* disconnect by the monitor does. *)
LEMMA DisconnectEmpties ==
  ASSUME TypeOK, Disconnect, Kept
  PROVE  /\ Emptied /\ link' = "down"
         /\ conn # NoConn /\ chan[conn] \in {"in", "out"} => chan'[conn] = "ended"
<1>1. Reset /\ EndOwner /\ link' = "down" /\ link' # "up"
  BY DEF Disconnect, DropLink
<1> QED
  BY <1>1, ResetEmpties

(* The kinds of the commands of the initialisation and of the service. *)
LEMMA Kinds ==
  /\ \A k \in InitCmds : k \notin {"A", "CLIR", "D", "CHUP"}
  /\ {"CSQ", "COPS", "CLVL", "CMGR", "CMGD", "DDSETEX", "CHUP", "D", "A", "CLIR"}
       \subseteq ServiceCmds
  /\ \A k \in InitCmds \cup (ServiceCmds \ {"A", "CLIR", "D"}) : Plain(k) \in Neutral
  /\ \A o \in Channels \cup SmsIndexes \cup {NoObj} : With("CMGD", o) \in Neutral
BY DEF InitCmds, ServiceCmds, Neutral, Command, Plain, With

(* What a command is made of. *)
LEMMA CommandParts ==
  /\ \A k : Plain(k).cmd = k
  /\ \A k, o : With(k, o).cmd = k /\ With(k, o).obj = o
BY DEF Plain, With

(* An answer that appends no more than a neutral command. *)
LEMMA AnsweredSilent ==
  ASSUME TypeOK, NEW res \in Finals, Kept, lastcmd.cmd # "CLIR",
         UNCHANGED <<link, conn, chan, flags>>, initialized => initialized',
         Answered(<<>>) \/ \E x \in Neutral : Answered(<<x>>)
  PROVE  Silent(res)
<1>1. queue \in Seq(Command) /\ Neutral \subseteq Command
  BY DEF TypeOK, Neutral
<1>2. queue' = queue \/ \E x \in Neutral : queue' = Append(queue, x)
  <2>1. CASE Answered(<<>>)
    BY <1>1, <2>1 DEF Answered, Enqueue
  <2>2. ASSUME NEW x \in Neutral, Answered(<<x>>) PROVE queue' = Append(queue, x)
    BY <1>1, <2>2 DEF Answered, Enqueue
  <2> QED
    BY <2>1, <2>2
<1>3. lastcmd' = NoCmd /\ UNCHANGED <<incoming, outgoing, needchup, needring>>
  BY DEF Answered, flags
<1>4. res \notin {"CEND", "RING"} \cup Failures
  BY DEF Finals, Failures
<1>5. incoming \in BOOLEAN
  BY DEF TypeOK
<1> QED
  BY <1>2, <1>3, <1>4, <1>5 DEF Silent

(* The handlers of OK. *)
LEMMA OkCases ==
  ASSUME IInv, OkChained \/ OkCpin \/ OkCnmi \/ OkService, Kept
  PROVE  Silent("OK") \/ Passed("OK") \/ Dropped("OK")
<1> USE DEF IInv
<1>1. "OK" \in Finals
  BY DEF Finals
<1>2. CASE OkChained
  <2>1. lastcmd.cmd \in ChainedCmds /\ lastcmd.cmd # "CLIR"
    BY <1>2, Kinds DEF OkChained, ChainedCmds
  <2>2. Plain(NextInit(lastcmd.cmd, conf)) \in Neutral
    BY <2>1, NextInitType, Kinds
  <2>3. UNCHANGED <<link, initialized, conn, chan, flags>>
    BY <1>2 DEF OkChained, session
  <2>4. Answered(<<>>) \/ \E x \in Neutral : Answered(<<x>>)
    BY <1>2, <2>2 DEF OkChained
  <2> QED
    BY <1>1, <2>1, <2>3, <2>4, AnsweredSilent
<1>3. CASE OkCpin
  <2>1. CASE ~initialized /\ Disconnect
    BY <2>1, DisconnectEmpties DEF Dropped
  <2>2. CASE ~(~initialized /\ Disconnect)
    <3>1. Plain("CIMI") \in Neutral /\ Plain("CPIN_ENTER") \in Neutral
      BY Kinds DEF InitCmds
    <3>2. UNCHANGED <<link, initialized, conn, chan, flags>>
      BY <1>3, <2>2 DEF OkCpin, session
    <3>3. Answered(<<>>) \/ \E x \in Neutral : Answered(<<x>>)
      BY <1>3, <2>2, <3>1 DEF OkCpin
    <3>4. lastcmd.cmd # "CLIR"
      BY <1>3 DEF OkCpin
    <3> QED
      BY <1>1, <3>2, <3>3, <3>4, AnsweredSilent
  <2> QED
    BY <2>1, <2>2
<1>4. CASE OkCnmi
  <2>1. Plain("CSQ") \in Neutral
    BY Kinds
  <2>2. UNCHANGED <<link, conn, chan, flags>> /\ initialized' /\ lastcmd.cmd # "CLIR"
    BY <1>4 DEF OkCnmi
  <2>3. Answered(<<>>) \/ \E x \in Neutral : Answered(<<x>>)
    BY <1>4, <2>1 DEF OkCnmi
  <2> QED
    BY <1>1, <2>2, <2>3, AnsweredSilent
<1>5. CASE OkService
  <2>1. lastcmd \in Command /\ lastcmd.obj \in Channels \cup SmsIndexes \cup {NoObj}
    BY <1>5, CommandType DEF TypeOK, OkService
  <2>2. UNCHANGED <<link, initialized, conn, chan, flags>> /\ Answered(OkFollows)
    BY <1>5 DEF OkService, session
  <2>3. CASE lastcmd.cmd = "CLIR"
    <3>1. OkFollows = <<With("D", lastcmd.obj)>>
      BY <2>3 DEF OkFollows
    <3>2. queue' = Append(queue, With("D", lastcmd.obj)) /\ lastcmd' = NoCmd
      <4>1. With("D", lastcmd.obj) \in Command /\ queue \in Seq(Command)
        BY <2>1, CommandType, Kinds DEF TypeOK
      <4> QED
        BY <2>2, <3>1, <4>1 DEF Answered, Enqueue
    <3> QED
      BY <1>1, <2>2, <2>3, <3>2 DEF Passed, flags
  <2>4. CASE lastcmd.cmd # "CLIR"
    <3>1. /\ Plain("DDSETEX") \in Neutral /\ With("CMGD", lastcmd.obj) \in Neutral
          /\ Plain("CLVL") \in Neutral
      BY <2>1, Kinds
    <3>2. Answered(<<>>) \/ \E x \in Neutral : Answered(<<x>>)
      BY <2>2, <2>4, <3>1 DEF OkFollows
    <3> QED
      BY <1>1, <2>2, <2>4, <3>2, AnsweredSilent
  <2> QED
    BY <2>3, <2>4
<1> QED
  BY <1>2, <1>3, <1>4, <1>5

(* The handlers of ERROR. *)
LEMMA ErrorCases ==
  ASSUME IInv, ErrorRequired \/ ErrorService, EndNoted("ERROR")
  PROVE  \/ Silent("ERROR") \/ Passed("ERROR") \/ Dropped("ERROR")
         \/ NoAnswer("ERROR") \/ NoDial("ERROR")
<1> USE DEF IInv
<1>0. Kept /\ "ERROR" \in Finals
  BY DEF EndNoted, Kept, Finals
<1>1. CASE ErrorRequired
  <2>1. lastcmd.cmd \notin {"A", "D"}
    BY <1>1, Kinds DEF ErrorRequired, RequiredCmds
  <2>2. conn # NoConn /\ chan[conn] \notin {"in", "out"} => "unheard" \in mishaps'
    BY DEF EndNoted
  <2>3. Disconnect
    BY <1>1 DEF ErrorRequired
  <2> QED
    BY <1>0, <2>1, <2>2, <2>3, DisconnectEmpties DEF Dropped
<1>2. CASE ErrorService
  <2>1. /\ lastcmd' = NoCmd /\ UNCHANGED <<link, initialized, incoming, needring>>
        /\ queue \in Seq(Command) /\ needchup \in BOOLEAN
    BY <1>2 DEF ErrorService, session, TypeOK
  <2>2. CASE lastcmd.cmd = "A"
    <3>1. Hangup(needchup) /\ outgoing' = outgoing
      BY <1>2, <2>2 DEF ErrorService
    <3>2. Cut("ERROR", needchup)
      BY <2>1, <3>1, HangupCut
    <3> QED
      BY <2>1, <2>2, <3>1, <3>2 DEF NoAnswer
  <2>3. CASE lastcmd.cmd = "D"
    <3>1. Hangup(FALSE) /\ outgoing' = FALSE
      BY <1>2, <2>3 DEF ErrorService
    <3>2. Cut("ERROR", FALSE)
      BY <2>1, <3>1, HangupCut
    <3> QED
      BY <2>1, <2>3, <3>1, <3>2 DEF NoDial
  <2>4. CASE lastcmd.cmd = "CLIR"
    <3>1. /\ Enqueue(<<With("D", lastcmd.obj)>>)
          /\ UNCHANGED <<outgoing, needchup, conn, chan>>
      BY <1>2, <2>4 DEF ErrorService
    <3>2. lastcmd \in Command
      BY <2>4, CommandType DEF TypeOK
    <3>3. With("D", lastcmd.obj) \in Command
      BY <3>2, CommandType, Kinds
    <3>4. queue' = Append(queue, With("D", lastcmd.obj))
      BY <2>1, <3>1, <3>3 DEF Enqueue
    <3> QED
      BY <1>0, <2>1, <2>4, <3>1, <3>4 DEF Passed
  <2>5. CASE lastcmd.cmd \notin {"A", "D", "CLIR"}
    <3>1. UNCHANGED <<queue, outgoing, needchup, conn, chan>>
      BY <1>2, <2>5 DEF ErrorService
    <3>2. Kept /\ "ERROR" \notin {"CEND"} \cup Failures /\ lastcmd.cmd # "CLIR"
      BY <1>0, <2>5 DEF Failures
    <3>3. incoming' = (incoming \/ ("ERROR" = "RING" /\ initialized))
      BY <2>1 DEF TypeOK
    <3> QED
      BY <1>0, <2>1, <3>1, <3>2, <3>3 DEF Silent
  <2> QED
    BY <2>2, <2>3, <2>4, <2>5
<1> QED
  BY <1>1, <1>2

(* The handlers of the lines that answer no command. *)
LEMMA UnaskedCases ==
  ASSUME IInv, NEW res \in CallLine \ Finals, AtResponse(res)
  PROVE  \/ Silent(res) \/ Dropped(res) \/ Ended(res) \/ Failed(res)
         \/ \E c \in Channels : Taken(res, c)
<1> USE DEF IInv
<1>0. /\ queue \in Seq(Command) /\ incoming \in BOOLEAN
      /\ Plain("CLVL") \in Neutral /\ Plain("CLVL") \in Command
      /\ "CEND" \notin Finals \cup Failures /\ Failures \cap Finals = {}
  BY Kinds DEF TypeOK, Neutral, Finals, Failures
<1>1. CASE res = "CPIN" /\ ResponseCpin(0) /\ UNCHANGED mishaps
  <2>1. UNCHANGED <<link, initialized, conn, chan, flags, pipe>> /\ Kept
    BY <1>1 DEF ResponseCpin, Kept
  <2> QED
    BY <1>0, <1>1, <2>1 DEF Silent, flags, pipe, Failures, Finals
<1>2. CASE res = "ORIG" /\ ResponseOrig /\ UNCHANGED mishaps
  <2>1. UNCHANGED <<link, initialized, conn, chan, flags, lastcmd>> /\ Kept
    BY <1>2 DEF ResponseOrig, session, Kept
  <2>2. queue' = Append(queue, Plain("CLVL"))
    BY <1>0, <1>2 DEF ResponseOrig, SyncVolume, Enqueue
  <2> QED
    BY <1>0, <1>2, <2>1, <2>2 DEF Silent, flags, Failures, Finals
<1>3. CASE res = "RING" /\ ResponseRing /\ UNCHANGED mishaps
  <2>1. UNCHANGED <<link, initialized, conn, chan, outgoing, needchup, needring, lastcmd>> /\ Kept
    BY <1>3 DEF ResponseRing, session, Kept
  <2>2. queue' = queue \/ queue' = Append(queue, Plain("CLVL"))
    BY <1>0, <1>3 DEF ResponseRing, SyncVolume, Enqueue
  <2>3. initialized /\ incoming' = TRUE
    BY <1>3 DEF ResponseRing
  <2> QED
    BY <1>0, <1>3, <2>1, <2>2, <2>3 DEF Silent, Failures, Finals
<1>4. CASE Ignored(res) /\ UNCHANGED vars /\ UNCHANGED mishaps
  <2>1. /\ res \in {"RING", "CLIP"} /\ (res = "RING" => ~initialized)
        /\ UNCHANGED <<link, initialized, conn, chan, flags, pipe>> /\ Kept
    BY <1>4 DEF Ignored, Finals, vars, session, Kept
  <2> QED
    BY <1>0, <2>1 DEF Silent, flags, pipe, Failures, Finals
<1>5. CASE res = "CEND" /\ ResponseCend /\ EndNoted(res)
  <2>1. UNCHANGED <<link, initialized, lastcmd>> /\ Hangup(FALSE)
    BY <1>5 DEF ResponseCend, session
  <2> QED
    BY <1>5, <2>1, HangupCut DEF ResponseCend, Ended
<1>6. CASE res = "BUSY" /\ ResponseBusy /\ EndNoted(res)
  <2>1. /\ UNCHANGED <<link, initialized, lastcmd, incoming, outgoing, needring>>
        /\ Hangup(TRUE)
    BY <1>6 DEF ResponseBusy, session
  <2> QED
    BY <1>6, <2>1, HangupCut DEF Failed, Failures
<1>7. CASE res = "NO_CARRIER" /\ ResponseNoCarrier /\ EndNoted(res)
  <2>1. UNCHANGED <<link, initialized, incoming, outgoing, needring>> /\ Hangup(TRUE)
    BY <1>7 DEF ResponseNoCarrier, session
  <2>2. lastcmd' = lastcmd \/ (lastcmd.cmd = "A" /\ lastcmd' = NoCmd)
    BY <1>7 DEF ResponseNoCarrier
  <2> QED
    BY <1>7, <2>1, <2>2, HangupCut DEF Failed, Failures
<1>8. ASSUME NEW c \in Channels, res = "CLIP", ResponseClip(c), Note("overlap", conn # NoConn)
      PROVE  Taken(res, c)
  <2>1. UNCHANGED <<link, initialized, pipe, outgoing>>
    BY <1>8 DEF ResponseClip, session
  <2>2. Kept /\ (conn # NoConn => "overlap" \in mishaps')
    BY <1>8 DEF Note, Kept
  <2> QED
    BY <1>8, <2>1, <2>2 DEF ResponseClip, Taken, pipe
<1>9. CASE res = "CLIP" /\ ResponseClipFails /\ Note("unrouted", TRUE)
  <2>1. Kept /\ "unrouted" \in mishaps'
    BY <1>9 DEF Note, Kept
  <2>2. link' = "down" /\ Emptied
    BY <1>9, <2>1 DEF ResponseClipFails, DropLink, Reset, Emptied
  <2> QED
    BY <2>1, <2>2 DEF Dropped
<1> QED
  BY <1>1, <1>2, <1>3, <1>4, <1>5, <1>6, <1>7, <1>8, <1>9 DEF AtResponse, Finals

(* Every line. *)
LEMMA LineCases ==
  ASSUME IInv, NEW res \in CallLine, AtResponse(res)
  PROVE  \/ Silent(res) \/ Passed(res) \/ Dropped(res) \/ NoAnswer(res) \/ NoDial(res)
         \/ Ended(res) \/ Failed(res) \/ \E c \in Channels : Taken(res, c)
<1>1. CASE res \notin Finals
  BY <1>1, UnaskedCases
<1>2. CASE res = "OK"
  <2>1. CASE OkChained \/ OkCpin \/ OkCnmi \/ OkService
    <3>1. Kept
      BY <1>2 DEF AtResponse, Kept
    <3> QED
      BY <1>2, <2>1, <3>1, OkCases
  <2>2. CASE Ignored(res) /\ UNCHANGED vars
    <3>1. /\ UNCHANGED <<link, initialized, conn, chan, flags, pipe>>
          /\ lastcmd = NoCmd /\ incoming \in BOOLEAN /\ lastcmd.cmd # "CLIR"
      BY <1>2, <2>2 DEF Ignored, vars, session, Awaiting, NoCmd, IInv, TypeOK
    <3>2. Kept
      BY <1>2 DEF AtResponse, Kept
    <3> QED
      BY <1>2, <3>1, <3>2 DEF Silent, flags, pipe, Failures, Finals
  <2> QED
    BY <1>2, <2>1, <2>2 DEF AtResponse
<1>3. CASE res = "ERROR"
  <2>1. CASE (ErrorRequired \/ ErrorService) /\ EndNoted(res)
    BY <1>3, <2>1, ErrorCases
  <2>2. CASE Ignored(res) /\ UNCHANGED vars /\ UNCHANGED mishaps
    <3>1. /\ UNCHANGED <<link, initialized, conn, chan, flags, pipe>>
          /\ lastcmd = NoCmd /\ incoming \in BOOLEAN /\ lastcmd.cmd # "CLIR"
      BY <1>3, <2>2 DEF Ignored, vars, session, Awaiting, NoCmd, IInv, TypeOK
    <3>2. Kept
      BY <2>2 DEF Kept
    <3> QED
      BY <1>3, <3>1, <3>2 DEF Silent, flags, pipe, Failures, Finals
  <2> QED
    BY <1>3, <2>1, <2>2 DEF AtResponse
<1> QED
  BY <1>1, <1>2, <1>3 DEF Finals

-----------------------------------------------------------------------------
(* What each step does to the commands of calls in the pipe.               *)

Atas  == Slots({"A"})
Clirs == Slots({"CLIR"})
Atds  == Slots({"D"})
Dials == Slots({"CLIR", "D"})
Chups == Slots({"CHUP"})

(* Where the commands are, and that slot 0 is the command awaited. *)
LEMMA SlotFacts ==
  ASSUME TypeOK
  PROVE  /\ Len(queue) \in Nat /\ Dials = Clirs \cup Atds /\ Slot(0) = lastcmd
         /\ \A i \in Atas \cup Dials \cup Chups : i \in 0 .. Len(queue)
         /\ \A i \in Atas \cup Dials \cup Chups : Slot(i) \in Command
         /\ (0 \in Atas <=> lastcmd.cmd = "A") /\ (0 \in Clirs <=> lastcmd.cmd = "CLIR")
         /\ (0 \in Atds <=> lastcmd.cmd = "D") /\ (0 \in Chups <=> lastcmd.cmd = "CHUP")
         /\ \A i \in Clirs : Slot(i).cmd = "CLIR"
<1>1. queue \in Seq(Command) /\ lastcmd \in Command \cup {NoCmd} /\ NoCmd.cmd = "none"
  BY CommandType DEF TypeOK
<1>2. Len(queue) \in Nat /\ Dials = Clirs \cup Atds /\ Slot(0) = lastcmd
  BY <1>1 DEF Dials, Clirs, Atds, Slots, Slot
<1>3. \A i \in Atas \cup Dials \cup Chups : i \in 0 .. Len(queue) /\ Slot(i).cmd # "none"
  BY DEF Atas, Dials, Chups, Slots
<1>4. \A i \in 0 .. Len(queue) : Slot(i) \in Command \/ Slot(i) = NoCmd
  BY <1>1 DEF Slot
<1>5. 0 \in 0 .. Len(queue)
  BY <1>2
<1> QED
  BY <1>1, <1>2, <1>3, <1>4, <1>5 DEF Atas, Clirs, Atds, Chups, Slots

(* A command is appended, and the one awaited may be answered. *)
LEMMA PushedSlots ==
  ASSUME TypeOK, NEW x \in Command, queue' = Append(queue, x), lastcmd' \in {lastcmd, NoCmd},
         NEW K \in SUBSET ServiceCmds
  PROVE  /\ Slots(K)' = {i \in Slots(K) : i # 0 \/ lastcmd' = lastcmd}
                          \cup (IF x.cmd \in K THEN {Len(queue) + 1} ELSE {})
         /\ \A i \in 1 .. Len(queue) : Slot(i)' = Slot(i)
         /\ \A n : n = Len(queue) + 1 => Slot(n)' = x
<1>1. queue \in Seq(Command) /\ Len(queue) \in Nat
  BY DEF TypeOK
<1>2. /\ Len(queue') = Len(queue) + 1 /\ queue'[Len(queue) + 1] = x
      /\ \A i \in 1 .. Len(queue) : queue'[i] = queue[i]
  BY <1>1
<1>3. \A i \in 1 .. Len(queue) : Slot(i)' = Slot(i)
  BY <1>1, <1>2 DEF Slot
<1>4. (\A n : n = Len(queue) + 1 => Slot(n)' = x) /\ Slot(0)' = lastcmd' /\ Slot(0) = lastcmd
  <2> SUFFICES ASSUME NEW n, n = Len(queue) + 1 PROVE Slot(n)' = x
    BY DEF Slot
  <2>1. n # 0
    BY <1>1
  <2> QED
    BY <1>1, <1>2, <2>1 DEF Slot
<1>5. lastcmd' # lastcmd => Slot(0)'.cmd \notin K
  BY <1>4, CommandType
<1>6. Slots(K)' = {i \in 0 .. Len(queue) + 1 : Slot(i)'.cmd \in K}
  BY <1>2 DEF Slots
<1>7. Slots(K) = {i \in 0 .. Len(queue) : Slot(i).cmd \in K}
  BY DEF Slots
<1>8. \A i \in 0 .. Len(queue) + 1 : i = 0 \/ i \in 1 .. Len(queue) \/ i = Len(queue) + 1
  BY <1>1
<1>9. \A i \in 0 .. Len(queue) : i \in 0 .. Len(queue) + 1 /\ i # Len(queue) + 1
  BY <1>1
<1>10. Len(queue) + 1 \in 0 .. Len(queue) + 1
  BY <1>1
<1>11. \A i \in 1 .. Len(queue) : i \in 0 .. Len(queue) /\ i # 0
  BY <1>1
<1>12. \A i : i \in Slots(K)' <=>
         i \in {j \in Slots(K) : j # 0 \/ lastcmd' = lastcmd}
                 \cup (IF x.cmd \in K THEN {Len(queue) + 1} ELSE {})
  <2> SUFFICES ASSUME NEW i
               PROVE  i \in Slots(K)' <=>
                        \/ i \in Slots(K) /\ (i # 0 \/ lastcmd' = lastcmd)
                        \/ i = Len(queue) + 1 /\ x.cmd \in K
    OBVIOUS
  <2>1. CASE i = 0
    <3>1. 0 \in 0 .. Len(queue) /\ 0 \in 0 .. Len(queue) + 1 /\ 0 # Len(queue) + 1
      BY <1>1
    <3> QED
      BY <2>1, <3>1, <1>4, <1>5, <1>6, <1>7
  <2>2. CASE i \in 1 .. Len(queue)
    BY <2>2, <1>3, <1>6, <1>7, <1>9, <1>11
  <2>3. CASE i = Len(queue) + 1
    <3>1. i \notin 0 .. Len(queue) /\ i \in 0 .. Len(queue) + 1
      BY <1>1, <2>3
    <3>2. Slot(i)' = x
      BY <1>4, <2>3
    <3> QED
      BY <2>3, <3>1, <3>2, <1>6, <1>7
  <2>4. CASE i \notin 0 .. Len(queue) + 1
    BY <2>4, <1>6, <1>7, <1>9, <1>10
  <2> QED
    BY <1>8, <2>1, <2>2, <2>3, <2>4
<1> QED
  BY <1>3, <1>4, <1>12

(* The command awaited may be answered, and nothing is appended. *)
LEMMA AnsweredSlots ==
  ASSUME TypeOK, queue' = queue, lastcmd' \in {lastcmd, NoCmd}, NEW K \in SUBSET ServiceCmds
  PROVE  /\ Slots(K)' = {i \in Slots(K) : i # 0 \/ lastcmd' = lastcmd}
         /\ \A i \in 1 .. Len(queue) : Slot(i)' = Slot(i)
<1>1. Len(queue) \in Nat
  BY DEF TypeOK
<1>2. \A i \in 1 .. Len(queue) : Slot(i)' = Slot(i)
  BY <1>1 DEF Slot
<1>3. Slot(0)' = lastcmd' /\ Slot(0) = lastcmd /\ (lastcmd' # lastcmd => Slot(0)'.cmd \notin K)
  BY CommandType DEF Slot
<1>4. \A i \in 0 .. Len(queue) : i = 0 \/ i \in 1 .. Len(queue)
  BY <1>1
<1>5. Slots(K)' = {i \in 0 .. Len(queue) : Slot(i)'.cmd \in K}
  BY DEF Slots
<1>6. \A i \in 1 .. Len(queue) : i # 0
  BY <1>1
<1> QED
  BY <1>2, <1>3, <1>4, <1>5, <1>6 DEF Slots

(* The first command of the queue is sent. *)
LEMMA SentSlots ==
  ASSUME TypeOK, SendCommand, NEW K \in SUBSET ServiceCmds
  PROVE  /\ \A i \in Slots(K) : i > 0 /\ i - 1 \in Slots(K)'
         /\ \A i \in Slots(K)' : i + 1 \in Slots(K)
         /\ \A i \in 0 .. Len(queue) - 1 : Slot(i)' = Slot(i + 1)
<1>1. /\ queue \in Seq(Command) /\ queue # <<>> /\ lastcmd = NoCmd
      /\ queue' = Tail(queue) /\ lastcmd' = Head(queue)
  BY DEF TypeOK, SendCommand, Awaiting
<1>2. /\ Len(queue) \in Nat /\ Len(queue') = Len(queue) - 1 /\ Len(queue) > 0
      /\ \A i \in 1 .. Len(queue) - 1 : queue'[i] = queue[i + 1]
      /\ lastcmd' = queue[1]
  BY <1>1
<1>3. \A i \in 0 .. Len(queue) - 1 : Slot(i)' = Slot(i + 1)
  BY <1>2 DEF Slot
<1>4. Slot(0).cmd \notin K
  BY <1>1, CommandType DEF Slot
<1>5. Slots(K)' = {i \in 0 .. Len(queue) - 1 : Slot(i)'.cmd \in K}
  BY <1>2 DEF Slots
<1>6. Slots(K) = {i \in 0 .. Len(queue) : Slot(i).cmd \in K}
  BY DEF Slots
<1>7. \A i \in 0 .. Len(queue) - 1 : i + 1 \in 0 .. Len(queue)
  BY <1>2
<1>8. \A i \in 0 .. Len(queue) : i # 0 => i > 0 /\ i - 1 \in 0 .. Len(queue) - 1 /\ (i - 1) + 1 = i
  BY <1>2
<1>9. \A i \in Slots(K) : i \in 0 .. Len(queue) /\ i # 0
  BY <1>4, <1>6
<1>10. \A i \in Slots(K)' : i + 1 \in Slots(K)
  BY <1>3, <1>5, <1>6, <1>7
<1>11. \A i \in Slots(K) : i > 0 /\ i - 1 \in Slots(K)'
  <2> SUFFICES ASSUME NEW i \in Slots(K) PROVE i > 0 /\ i - 1 \in Slots(K)'
    OBVIOUS
  <2>1. i > 0 /\ i - 1 \in 0 .. Len(queue) - 1 /\ (i - 1) + 1 = i
    BY <1>8, <1>9
  <2>2. Slot(i - 1)' = Slot(i)
    BY <1>3, <2>1
  <2>3. Slot(i).cmd \in K
    BY <1>6
  <2> QED
    BY <1>5, <2>1, <2>2, <2>3
<1> QED
  BY <1>3, <1>10, <1>11

(* The pipe is emptied, or holds the first command of the chain. *)
LEMMA EmptiedSlots ==
  ASSUME queue' = <<>> \/ queue' = <<Plain("AT")>>, lastcmd' = NoCmd, NEW K \in SUBSET ServiceCmds
  PROVE  Slots(K)' = {}
<1>1. Plain("AT").cmd = "AT" /\ "AT" \notin ServiceCmds
  BY DEF Plain, ServiceCmds
<1>2. Len(queue') \in {0, 1} /\ (Len(queue') = 1 => queue'[1] = Plain("AT"))
  OBVIOUS
<1>3. \A i \in 0 .. Len(queue') : i = 0 \/ (i = 1 /\ Len(queue') = 1)
  BY <1>2
<1> QED
  BY <1>1, <1>2, <1>3, CommandType DEF Slots, Slot

(* The kinds the calls ask about. *)
LEMMA CallKinds ==
  /\ {"A"} \in SUBSET ServiceCmds /\ {"CLIR"} \in SUBSET ServiceCmds
  /\ {"D"} \in SUBSET ServiceCmds /\ {"CLIR", "D"} \in SUBSET ServiceCmds
  /\ {"CHUP"} \in SUBSET ServiceCmds
BY DEF ServiceCmds

-----------------------------------------------------------------------------
(* The invariant: what the queues of card and modem still owe a call.      *)

InRx(lines) == \E k \in 1 .. Len(rx) : rx[k] \in lines

(* The modem has a call when line k is read, or says that it ended after.  *)
EndsAfter(k) == call # "none" \/ \E l \in 1 .. Len(rx) : k < l /\ rx[l] = "CEND"
InCall       == EndsAfter(0)

(* A call is still to be dialled. *)
DialDue ==
  \/ \E i \in Dials : i > 0
  \/ lastcmd.cmd = "CLIR"
  \/ \E n \in 1 .. Len(tx) : tx[n].cmd = "D"

(* A modem that is not listened to is told nothing and says nothing. *)
LineDown == link # "up" => tx = <<>> /\ rx = <<>> /\ Atas = {}

(* The report of a call comes before that of its end. *)
Reported == \A k \in 1 .. Len(rx) : rx[k] \in {"RING", "CLIP", "BUSY"} => EndsAfter(k)

(* A busy card has a call, is about to hear of its end, or will dial one. *)
CallIn  == incoming => InCall
CallOut == Without({"blind"}) /\ outgoing => initialized /\ (InCall \/ DialDue)

(* The modem has the command awaited, or has answered it. *)
OneSent == Without({"stale"}) => tx = <<>> \/ (tx = <<lastcmd>> /\ ~InRx(Finals))

(* An ATA is for a call of the modem. *)
AnswerDue == Without({"stale"}) /\ Atas # {} => InCall

(* NO CARRIER ends a call, or answers an ATA that came too late. *)
Refused == lastcmd.cmd = "A" /\ tx = <<>> /\ ~InRx(Finals)
Carried == Without({"stale"}) =>
             \A k \in 1 .. Len(rx) : rx[k] = "NO_CARRIER" => EndsAfter(k) \/ Refused

(* An AT+CHUP is owed for a call only. *)
HangupDue == Without({"blind", "stale"}) /\ needchup =>
               link = "up" /\ (InCall \/ (initialized /\ DialDue))

(* A channel in a call owns the card, and the flags of the card are those  *)
(* of its call.                                                            *)
Meetings == {"overlap", "unheard", "foreign", "unrouted"}
Owned ==
  Without(Meetings) =>
    /\ "blind" \notin mishaps
    /\ \A c \in Channels : chan[c] \in Owning => conn = c
    /\ conn # NoConn =>
         /\ chan[conn] = "dialing" => initialized /\ ~outgoing
         /\ chan[conn] \in {"routing", "in"} => incoming /\ needchup
         /\ chan[conn] = "out" => outgoing /\ needchup

Basic == /\ LineDown /\ Reported /\ CallIn /\ CallOut /\ OneSent
         /\ AnswerDue /\ Carried /\ HangupDue /\ Owned
MeetInv == IInv /\ LinkType /\ Basic

-----------------------------------------------------------------------------
(* The lines not read.                                                     *)

(* A history of mishaps only grows. *)
LEMMA KeptWithout == Kept => \A kinds : Without(kinds)' => Without(kinds)
BY DEF Kept, Without

(* The first line is read. *)
LEMMA ReadRx ==
  ASSUME LinkType, rx # <<>>, rx' = Tail(rx), UNCHANGED call
  PROVE  /\ Len(rx) \in Nat /\ 1 \in 1 .. Len(rx) /\ rx[1] = Head(rx)
         /\ \A n \in 1 .. Len(rx)' : n + 1 \in 1 .. Len(rx) /\ rx'[n] = rx[n + 1]
         /\ \A n \in 1 .. Len(rx)' : EndsAfter(n + 1) => EndsAfter(n)'
         /\ EndsAfter(1) => InCall'
         /\ rx[1] # "CEND" /\ InCall => InCall'
         /\ \A lines : InRx(lines)' => InRx(lines)
<1>1. /\ Len(rx) \in Nat /\ Len(rx) > 0 /\ Len(rx') = Len(rx) - 1 /\ rx[1] = Head(rx)
      /\ \A n \in 1 .. Len(rx) - 1 : rx'[n] = rx[n + 1]
  BY HeadLine
<1>2. \A n \in 1 .. Len(rx') : n + 1 \in 1 .. Len(rx) /\ rx'[n] = rx[n + 1] /\ n \in Nat
  BY <1>1
<1>3. ASSUME NEW k \in Nat, EndsAfter(k + 1) PROVE EndsAfter(k)'
  <2>1. CASE call # "none"
    BY <2>1 DEF EndsAfter
  <2>2. ASSUME NEW l \in 1 .. Len(rx), k + 1 < l, rx[l] = "CEND" PROVE EndsAfter(k)'
    <3>1. l - 1 \in 1 .. Len(rx') /\ k < l - 1 /\ rx'[l - 1] = "CEND"
      <4>1. l - 1 \in 1 .. Len(rx) - 1 /\ (l - 1) + 1 = l /\ k < l - 1
        BY <1>1, <2>2
      <4> QED
        BY <1>1, <2>2, <4>1
    <3> QED
      BY <3>1 DEF EndsAfter
  <2> QED
    BY <1>3, <2>1, <2>2 DEF EndsAfter
<1>4. EndsAfter(1) => InCall'
  <2>1. EndsAfter(0 + 1) => EndsAfter(0)'
    BY <1>3
  <2> QED
    BY <2>1 DEF InCall
<1>5. rx[1] # "CEND" /\ InCall => EndsAfter(1)
  <2>1. \A l \in 1 .. Len(rx) : l # 1 => 1 < l
    OBVIOUS
  <2> QED
    BY <2>1 DEF InCall, EndsAfter
<1>6. \A lines : InRx(lines)' => InRx(lines)
  BY <1>2 DEF InRx
<1> QED
  BY <1>1, <1>2, <1>3, <1>4, <1>5, <1>6

(* The lines not read grow by what the modem says. *)
Grown(lines) ==
  /\ Len(rx') = Len(rx) + Len(lines)
  /\ \A n \in 1 .. Len(rx) : n \in 1 .. Len(rx)' /\ rx'[n] = rx[n]
  /\ \A n \in 1 .. Len(lines) : Len(rx) + n \in 1 .. Len(rx') /\ rx'[Len(rx) + n] = lines[n]
  /\ \A n \in 1 .. Len(rx') : n \notin 1 .. Len(rx) =>
       n > Len(rx) /\ n - Len(rx) \in 1 .. Len(lines) /\ rx'[n] = lines[n - Len(rx)]

(* The modem says something: every line keeps its place. *)
LEMMA HeardRx ==
  ASSUME LinkType, NEW lines \in Seq(CallLine), lines # <<>>, rx' = rx \o lines
  PROVE  /\ rx' \in Seq(CallLine) /\ Grown(lines) /\ Len(rx) \in Nat /\ Len(lines) \in Nat
         /\ \A L : InRx(L)' <=> InRx(L) \/ \E n \in 1 .. Len(lines) : lines[n] \in L
<1>1. rx \in Seq(CallLine) /\ Len(rx) \in Nat /\ Len(lines) \in Nat /\ Len(lines) > 0
  BY DEF LinkType
<1>2. /\ rx' \in Seq(CallLine) /\ Len(rx') = Len(rx) + Len(lines)
      /\ \A n \in 1 .. Len(rx') :
           rx'[n] = IF n <= Len(rx) THEN rx[n] ELSE lines[n - Len(rx)]
  BY <1>1
<1>3. /\ \A n \in 1 .. Len(rx) : n \in 1 .. Len(rx') /\ n <= Len(rx)
      /\ \A n \in 1 .. Len(lines) : /\ Len(rx) + n \in 1 .. Len(rx') /\ ~(Len(rx) + n <= Len(rx))
                                    /\ (Len(rx) + n) - Len(rx) = n
      /\ \A n \in 1 .. Len(rx') : n \notin 1 .. Len(rx) =>
           n > Len(rx) /\ ~(n <= Len(rx)) /\ n - Len(rx) \in 1 .. Len(lines)
  BY <1>1, <1>2
<1>4. Grown(lines)
  BY <1>2, <1>3 DEF Grown
<1>5. \A L : InRx(L)' <=> InRx(L) \/ \E n \in 1 .. Len(lines) : lines[n] \in L
  <2> SUFFICES ASSUME NEW L
               PROVE  InRx(L)' <=> InRx(L) \/ \E n \in 1 .. Len(lines) : lines[n] \in L
    OBVIOUS
  <2>1. InRx(L) => InRx(L)'
    BY <1>4 DEF Grown, InRx
  <2>2. ASSUME NEW n \in 1 .. Len(lines), lines[n] \in L PROVE InRx(L)'
    BY <1>4, <2>2 DEF Grown, InRx
  <2>3. ASSUME InRx(L)' PROVE InRx(L) \/ \E n \in 1 .. Len(lines) : lines[n] \in L
    <3>1. PICK k \in 1 .. Len(rx') : rx'[k] \in L
      BY <2>3 DEF InRx
    <3>2. CASE k \in 1 .. Len(rx)
      BY <1>4, <3>1, <3>2 DEF Grown, InRx
    <3>3. CASE k \notin 1 .. Len(rx)
      BY <1>4, <3>1, <3>3 DEF Grown
    <3> QED
      BY <3>2, <3>3
  <2> QED
    BY <2>1, <2>2, <2>3
<1> QED
  BY <1>1, <1>2, <1>4, <1>5

(* A call that ends is reported last, so that every line keeps its end.    *)
LEMMA EndsKept ==
  ASSUME LinkType, NEW lines \in Seq(CallLine), lines # <<>>, rx' = rx \o lines,
         call # "none" /\ call' = "none" => lines[Len(lines)] = "CEND",
         NEW k \in 0 .. Len(rx), EndsAfter(k)
  PROVE  EndsAfter(k)'
<1>1. Grown(lines) /\ Len(rx) \in Nat /\ Len(lines) \in Nat /\ Len(lines) > 0
  BY HeardRx
<1>2. CASE call' # "none"
  BY <1>2 DEF EndsAfter
<1>3. CASE call # "none" /\ call' = "none"
  <2>1. /\ Len(lines) \in 1 .. Len(lines) /\ lines[Len(lines)] = "CEND"
        /\ k < Len(rx) + Len(lines)
    BY <1>1, <1>3
  <2>2. PICK l \in 1 .. Len(rx') : l = Len(rx) + Len(lines) /\ rx'[l] = "CEND"
    BY <1>1, <2>1 DEF Grown
  <2> QED
    BY <2>1, <2>2 DEF EndsAfter
<1>4. CASE call = "none"
  <2>1. PICK l \in 1 .. Len(rx) : k < l /\ rx[l] = "CEND"
    BY <1>4 DEF EndsAfter
  <2>2. l \in 1 .. Len(rx') /\ rx'[l] = "CEND"
    BY <1>1, <2>1 DEF Grown
  <2> QED
    BY <2>1, <2>2 DEF EndsAfter
<1> QED
  BY <1>2, <1>3, <1>4

-----------------------------------------------------------------------------
(* A line is read.                                                         *)

Reading(res) ==
  /\ MeetInv /\ link = "up" /\ rx # <<>> /\ res = Head(rx)
  /\ rx' = Tail(rx) /\ UNCHANGED <<tx, call, link>>

(* Whatever the line is. *)
LEMMA ReadFacts ==
  ASSUME NEW res, Reading(res)
  PROVE  /\ LineDown' /\ Reported'
         /\ res # "CEND" /\ InCall => InCall'
         /\ res \in {"RING", "CLIP", "BUSY"} => InCall'
         /\ res = "NO_CARRIER" /\ Without({"stale"}) => InCall' \/ Refused
         /\ \A L : (InRx(L)' => InRx(L)) /\ (res \in L => InRx(L))
         /\ \A n \in 1 .. Len(rx)' : rx'[n] = "NO_CARRIER" /\ Without({"stale"}) =>
              EndsAfter(n)' \/ Refused
<1> USE DEF Reading, MeetInv, Basic
<1>1. /\ Len(rx) \in Nat /\ 1 \in 1 .. Len(rx) /\ rx[1] = res
      /\ \A n \in 1 .. Len(rx)' : n + 1 \in 1 .. Len(rx) /\ rx'[n] = rx[n + 1]
      /\ \A n \in 1 .. Len(rx)' : EndsAfter(n + 1) => EndsAfter(n)'
      /\ EndsAfter(1) => InCall'
      /\ rx[1] # "CEND" /\ InCall => InCall'
      /\ \A lines : InRx(lines)' => InRx(lines)
  BY ReadRx
<1>2. LineDown'
  BY DEF LineDown
<1>3. Reported'
  BY <1>1 DEF Reported
<1>4. res \in {"RING", "CLIP", "BUSY"} => InCall'
  BY <1>1 DEF Reported
<1>5. res = "NO_CARRIER" /\ Without({"stale"}) => InCall' \/ Refused
  BY <1>1 DEF Carried
<1>6. \A n \in 1 .. Len(rx)' : rx'[n] = "NO_CARRIER" /\ Without({"stale"}) =>
        EndsAfter(n)' \/ Refused
  BY <1>1 DEF Carried
<1>7. \A L : res \in L => InRx(L)
  BY <1>1 DEF InRx
<1> QED
  BY <1>1, <1>2, <1>3, <1>4, <1>5, <1>6, <1>7

(* The dial due stays due while a line is read that does not answer it. *)
LEMMA DialStays ==
  ASSUME TypeOK, DialDue, tx' = tx, \A i \in Dials : i > 0 => i \in Dials',
         lastcmd.cmd = "CLIR" => lastcmd' = lastcmd \/ \E i \in Dials' : i > 0
  PROVE  DialDue'
BY DEF DialDue

(* What a silent line does to the pipe. *)
LEMMA SilentSlots ==
  ASSUME TypeOK, NEW res, Silent(res)
  PROVE  /\ Atas' = {i \in Atas : i # 0 \/ lastcmd' = lastcmd}
         /\ Clirs' = Clirs
         /\ Atds' = {i \in Atds : i # 0 \/ lastcmd' = lastcmd}
         /\ Dials' = {i \in Dials : i # 0 \/ lastcmd' = lastcmd}
         /\ \A i \in Chups : i > 0 => i \in Chups'
         /\ \A i \in Clirs : Slot(i)' = Slot(i)
         /\ lastcmd' \in {lastcmd, NoCmd}
<1>1. lastcmd' \in {lastcmd, NoCmd} /\ (lastcmd.cmd = "CLIR" => lastcmd' = lastcmd)
  BY DEF Silent
<1>2. \A i \in Clirs : i # 0 \/ lastcmd' = lastcmd
  BY <1>1, SlotFacts
<1>3. \A i \in Chups : i > 0 => i # 0
  BY SlotFacts
<1>4. Slot(0)' = lastcmd' /\ Slot(0) = lastcmd
  BY DEF Slot
<1>5. \A i \in Clirs : i = 0 \/ i \in 1 .. Len(queue)
  BY SlotFacts
<1>6. CASE queue' = queue
  <2>1. \A K \in SUBSET ServiceCmds : Slots(K)' = {i \in Slots(K) : i # 0 \/ lastcmd' = lastcmd}
    BY <1>1, <1>6, AnsweredSlots
  <2>2. \A i \in 1 .. Len(queue) : Slot(i)' = Slot(i)
    BY <1>1, <1>6, AnsweredSlots, CallKinds
  <2>3. /\ Atas' = {i \in Atas : i # 0 \/ lastcmd' = lastcmd}
        /\ Clirs' = {i \in Clirs : i # 0 \/ lastcmd' = lastcmd}
        /\ Atds' = {i \in Atds : i # 0 \/ lastcmd' = lastcmd}
        /\ Dials' = {i \in Dials : i # 0 \/ lastcmd' = lastcmd}
        /\ Chups' = {i \in Chups : i # 0 \/ lastcmd' = lastcmd}
    BY <2>1, CallKinds DEF Atas, Clirs, Atds, Dials, Chups
  <2> QED
    BY <1>1, <1>2, <1>3, <1>4, <1>5, <2>2, <2>3
<1>7. ASSUME NEW x \in Neutral, queue' = Append(queue, x)
      PROVE  /\ Atas' = {i \in Atas : i # 0 \/ lastcmd' = lastcmd}
             /\ Clirs' = Clirs
             /\ Atds' = {i \in Atds : i # 0 \/ lastcmd' = lastcmd}
             /\ Dials' = {i \in Dials : i # 0 \/ lastcmd' = lastcmd}
             /\ \A i \in Chups : i > 0 => i \in Chups'
             /\ \A i \in Clirs : Slot(i)' = Slot(i)
  <2>0. x \in Command /\ x.cmd \notin {"A", "CLIR", "D"}
    BY DEF Neutral
  <2>1. \A K \in SUBSET ServiceCmds :
          Slots(K)' = {i \in Slots(K) : i # 0 \/ lastcmd' = lastcmd}
                        \cup (IF x.cmd \in K THEN {Len(queue) + 1} ELSE {})
    BY <1>1, <1>7, <2>0, PushedSlots
  <2>2. \A i \in 1 .. Len(queue) : Slot(i)' = Slot(i)
    BY <1>1, <1>7, <2>0, PushedSlots, CallKinds
  <2>3. /\ Atas' = {i \in Atas : i # 0 \/ lastcmd' = lastcmd}
        /\ Clirs' = {i \in Clirs : i # 0 \/ lastcmd' = lastcmd}
        /\ Atds' = {i \in Atds : i # 0 \/ lastcmd' = lastcmd}
        /\ Dials' = {i \in Dials : i # 0 \/ lastcmd' = lastcmd}
    BY <2>0, <2>1, CallKinds DEF Atas, Clirs, Atds, Dials
  <2>4. {i \in Chups : i # 0 \/ lastcmd' = lastcmd} \subseteq Chups'
    BY <2>1, CallKinds DEF Chups
  <2> QED
    BY <1>2, <1>3, <1>4, <1>5, <2>2, <2>3, <2>4
<1> QED
  BY <1>1, <1>6, <1>7 DEF Silent

(* A silent line. *)
LEMMA SilentBasic ==
  ASSUME NEW res, Reading(res), Silent(res)
  PROVE  Basic'
<1> USE DEF Reading, MeetInv, Basic, IInv
<1>1. /\ Atas' = {i \in Atas : i # 0 \/ lastcmd' = lastcmd}
      /\ Dials' = {i \in Dials : i # 0 \/ lastcmd' = lastcmd}
      /\ lastcmd' \in {lastcmd, NoCmd}
  BY SilentSlots
<1>2. /\ UNCHANGED <<link, conn, chan, outgoing, needchup, needring, tx, call>>
      /\ initialized => initialized'
      /\ incoming' = (incoming \/ (res = "RING" /\ initialized)) /\ res # "CEND"
      /\ IF res \in Finals THEN lastcmd' = NoCmd /\ lastcmd.cmd # "CLIR" ELSE lastcmd' = lastcmd
  BY DEF Silent
<1>3. /\ LineDown' /\ Reported' /\ (InCall => InCall') /\ (res = "RING" => InCall')
      /\ InRx(Finals)' => InRx(Finals)
      /\ res \in Finals => InRx(Finals)
  BY <1>2, ReadFacts
<1>4. \A kinds : Without(kinds)' => Without(kinds)
  BY KeptWithout DEF Silent
<1>5. DialDue => DialDue'
  <2>1. \A i \in Dials : i > 0 => i \in Dials'
    BY <1>1, SlotFacts
  <2> QED
    BY <1>2, <2>1, DialStays
<1>6. CallIn'
  BY <1>2, <1>3 DEF CallIn
<1>7. CallOut'
  BY <1>2, <1>3, <1>4, <1>5 DEF CallOut
<1>8. OneSent'
  <2>1. CASE res \in Finals
    BY <1>2, <1>3, <1>4, <2>1 DEF OneSent
  <2>2. CASE res \notin Finals
    BY <1>2, <1>3, <1>4, <2>2 DEF OneSent
  <2> QED
    BY <2>1, <2>2
<1>9. AnswerDue'
  BY <1>1, <1>3, <1>4 DEF AnswerDue
<1>10. Carried'
  <2>1. Refused => Refused'
    BY <1>2, <1>3 DEF Refused
  <2>2. \A n \in 1 .. Len(rx)' : rx'[n] = "NO_CARRIER" /\ Without({"stale"}) =>
          EndsAfter(n)' \/ Refused
    BY ReadFacts
  <2> QED
    BY <1>4, <2>1, <2>2 DEF Carried
<1>11. HangupDue'
  BY <1>2, <1>3, <1>4, <1>5 DEF HangupDue
<1>12. Owned'
  <2>1. "blind" \notin mishaps => "blind" \notin mishaps'
    BY DEF Silent, Kept
  <2> QED
    BY <1>2, <1>4, <2>1 DEF Owned
<1> QED
  BY <1>3, <1>6, <1>7, <1>8, <1>9, <1>10, <1>11, <1>12

(* AT+CLIR is answered: its ATD goes to the end of the queue. *)
LEMMA PassedSlots ==
  ASSUME TypeOK, NEW res, Passed(res)
  PROVE  /\ 0 \in Clirs /\ Atas' = Atas /\ Clirs' = Clirs \ {0}
         /\ Atds' = Atds \cup {Len(queue) + 1} /\ Dials' = (Dials \ {0}) \cup {Len(queue) + 1}
         /\ Chups' = Chups
         /\ \A i \in 1 .. Len(queue) : Slot(i)' = Slot(i)
         /\ Len(queue) \in Nat
<1>1. lastcmd \in Command /\ lastcmd' = NoCmd /\ lastcmd' # lastcmd
  BY CommandType DEF TypeOK, Passed
<1>2. PICK x \in Command : x = With("D", lastcmd.obj) /\ x.cmd = "D"
  <2>1. With("D", lastcmd.obj) \in Command /\ With("D", lastcmd.obj).cmd = "D"
    BY <1>1, CommandType, Kinds, CommandParts
  <2> QED
    BY <2>1
<1>3. \A K \in SUBSET ServiceCmds :
        /\ Slots(K)' = {i \in Slots(K) : i # 0 \/ lastcmd' = lastcmd}
                         \cup (IF x.cmd \in K THEN {Len(queue) + 1} ELSE {})
        /\ \A i \in 1 .. Len(queue) : Slot(i)' = Slot(i)
  BY <1>1, <1>2, PushedSlots DEF Passed
<1>4. /\ Atas' = {i \in Atas : i # 0} /\ Clirs' = {i \in Clirs : i # 0}
      /\ Atds' = {i \in Atds : i # 0} \cup {Len(queue) + 1}
      /\ Dials' = {i \in Dials : i # 0} \cup {Len(queue) + 1}
      /\ Chups' = {i \in Chups : i # 0}
      /\ \A i \in 1 .. Len(queue) : Slot(i)' = Slot(i)
  BY <1>1, <1>2, <1>3, CallKinds DEF Atas, Clirs, Atds, Dials, Chups
<1>5. 0 \in Clirs /\ 0 \notin Atas /\ 0 \notin Atds /\ 0 \notin Chups /\ Len(queue) \in Nat
  BY SlotFacts DEF Passed
<1> QED
  BY <1>4, <1>5

(* The answer to AT+CLIR. *)
LEMMA PassedBasic ==
  ASSUME NEW res, Reading(res), Passed(res)
  PROVE  Basic'
<1> USE DEF Reading, MeetInv, Basic, IInv
<1>1. /\ Atas' = Atas /\ Dials' = (Dials \ {0}) \cup {Len(queue) + 1} /\ Len(queue) + 1 > 0
  BY PassedSlots
<1>2. /\ UNCHANGED <<link, conn, chan, initialized, incoming, outgoing, needchup, needring>>
      /\ res \in Finals /\ lastcmd.cmd = "CLIR" /\ lastcmd' = NoCmd
  BY DEF Passed
<1>3. /\ LineDown' /\ Reported' /\ (InCall => InCall')
      /\ (InRx(Finals)' => InRx(Finals)) /\ InRx(Finals)
  BY <1>2, ReadFacts DEF Finals
<1>4. \A kinds : Without(kinds)' => Without(kinds)
  BY KeptWithout DEF Passed
<1>5. DialDue'
  BY <1>1 DEF DialDue
<1>6. CallIn'
  BY <1>2, <1>3 DEF CallIn
<1>7. CallOut'
  BY <1>2, <1>4, <1>5 DEF CallOut
<1>8. OneSent'
  BY <1>3, <1>4 DEF OneSent
<1>9. AnswerDue'
  BY <1>1, <1>3, <1>4 DEF AnswerDue
<1>10. Carried'
  <2>1. \A n \in 1 .. Len(rx)' : rx'[n] = "NO_CARRIER" /\ Without({"stale"}) =>
          EndsAfter(n)' \/ Refused
    BY ReadFacts
  <2> QED
    BY <1>2, <1>4, <2>1 DEF Carried, Refused
<1>11. HangupDue'
  BY <1>2, <1>3, <1>4, <1>5 DEF HangupDue
<1>12. Owned'
  <2>1. "blind" \notin mishaps => "blind" \notin mishaps'
    BY DEF Passed, Kept
  <2> QED
    BY <1>2, <1>4, <2>1 DEF Owned
<1> QED
  BY <1>3, <1>6, <1>7, <1>8, <1>9, <1>10, <1>11, <1>12

(* What Hangup does to the pipe. *)
LEMMA CutSlots ==
  ASSUME TypeOK, NEW res, NEW chup \in BOOLEAN, Cut(res, chup), lastcmd' \in {lastcmd, NoCmd}
  PROVE  /\ Atas' = {i \in Atas : i # 0 \/ lastcmd' = lastcmd}
         /\ Clirs' = {i \in Clirs : i # 0 \/ lastcmd' = lastcmd}
         /\ Atds' = {i \in Atds : i # 0 \/ lastcmd' = lastcmd}
         /\ Dials' = {i \in Dials : i # 0 \/ lastcmd' = lastcmd}
         /\ \A i \in Chups : i > 0 => i \in Chups'
         /\ conn # NoConn /\ chup => Len(queue) + 1 \in Chups'
         /\ \A i \in 1 .. Len(queue) : Slot(i)' = Slot(i)
         /\ Len(queue) \in Nat
<1>1. \A i \in Chups : i > 0 => i # 0
  BY SlotFacts
<1>2. Len(queue) \in Nat
  BY SlotFacts
<1>3. CASE queue' = queue /\ ~(conn # NoConn /\ chup)
  <2>1. \A K \in SUBSET ServiceCmds :
          /\ Slots(K)' = {i \in Slots(K) : i # 0 \/ lastcmd' = lastcmd}
          /\ \A i \in 1 .. Len(queue) : Slot(i)' = Slot(i)
    BY <1>3, AnsweredSlots
  <2>2. /\ Atas' = {i \in Atas : i # 0 \/ lastcmd' = lastcmd}
        /\ Clirs' = {i \in Clirs : i # 0 \/ lastcmd' = lastcmd}
        /\ Atds' = {i \in Atds : i # 0 \/ lastcmd' = lastcmd}
        /\ Dials' = {i \in Dials : i # 0 \/ lastcmd' = lastcmd}
        /\ Chups' = {i \in Chups : i # 0 \/ lastcmd' = lastcmd}
        /\ \A i \in 1 .. Len(queue) : Slot(i)' = Slot(i)
    BY <2>1, CallKinds DEF Atas, Clirs, Atds, Dials, Chups
  <2> QED
    BY <1>1, <1>2, <1>3, <2>2
<1>4. CASE queue' = Append(queue, Plain("CHUP"))
  <2>1. PICK x \in Command : x = Plain("CHUP") /\ x.cmd = "CHUP"
    <3>1. Plain("CHUP") \in Command /\ Plain("CHUP").cmd = "CHUP"
      BY CommandType, Kinds, CommandParts
    <3> QED
      BY <3>1
  <2>2. \A K \in SUBSET ServiceCmds :
          /\ Slots(K)' = {i \in Slots(K) : i # 0 \/ lastcmd' = lastcmd}
                           \cup (IF x.cmd \in K THEN {Len(queue) + 1} ELSE {})
          /\ \A i \in 1 .. Len(queue) : Slot(i)' = Slot(i)
    BY <1>4, <2>1, PushedSlots
  <2>3. /\ Atas' = {i \in Atas : i # 0 \/ lastcmd' = lastcmd}
        /\ Clirs' = {i \in Clirs : i # 0 \/ lastcmd' = lastcmd}
        /\ Atds' = {i \in Atds : i # 0 \/ lastcmd' = lastcmd}
        /\ Dials' = {i \in Dials : i # 0 \/ lastcmd' = lastcmd}
        /\ Chups' = {i \in Chups : i # 0 \/ lastcmd' = lastcmd} \cup {Len(queue) + 1}
        /\ \A i \in 1 .. Len(queue) : Slot(i)' = Slot(i)
    BY <2>1, <2>2, CallKinds DEF Atas, Clirs, Atds, Dials, Chups
  <2> QED
    BY <1>1, <1>2, <2>3
<1> QED
  BY <1>3, <1>4 DEF Cut

(* What EndNoted notes. *)
LEMMA NotedEnd ==
  ASSUME NEW res, EndNoted(res)
  PROVE  /\ Kept
         /\ "unheard" \notin mishaps' => conn = NoConn \/ chan[conn] \in {"in", "out"}
         /\ "stale" \notin mishaps' => Atas = {}
         /\ res = "CEND" /\ "undialled" \notin mishaps' => Dials = {}
BY DEF EndNoted, Kept, Atas, Dials

(* After Hangup no channel is in a call, unless one was not told. *)
LEMMA CutOwned ==
  ASSUME MeetInv, NEW res, NEW chup, Cut(res, chup)
  PROVE  Owned'
<1>1. EndNoted(res) /\ conn' = NoConn /\ NoConn \notin Channels
  BY DEF Cut, NoConn
<1>2. SUFFICES ASSUME Without(Meetings)'
               PROVE  "blind" \notin mishaps' /\ \A c \in Channels : chan'[c] \notin Owning
  BY <1>1 DEF Owned
<1>3. Without(Meetings) /\ (conn = NoConn \/ chan[conn] \in {"in", "out"})
  <2>1. "unheard" \notin mishaps'
    BY <1>2 DEF Without, Meetings
  <2> QED
    BY <1>1, <1>2, <2>1, NotedEnd, KeptWithout
<1>4. "blind" \notin mishaps'
  BY <1>1, <1>3, NotedEnd DEF MeetInv, Basic, Owned, Kept
<1>5. \A c \in Channels : chan'[c] \notin Owning
  <2> SUFFICES ASSUME NEW c \in Channels PROVE chan'[c] \notin Owning
    OBVIOUS
  <2>1. chan[c] \in Owning => conn = c
    BY <1>3 DEF MeetInv, Basic, Owned
  <2>2. chan'[c] = IF c = conn /\ chan[c] \in {"in", "out"} THEN "ended" ELSE chan[c]
    BY DEF Cut
  <2> QED
    BY <1>1, <1>3, <2>1, <2>2 DEF Owning
<1> QED
  BY <1>4, <1>5

(* A line that ends a call. *)
LEMMA CutBasic ==
  ASSUME NEW res, Reading(res), Ended(res) \/ Failed(res) \/ NoAnswer(res) \/ NoDial(res)
  PROVE  Basic'
<1> USE DEF Reading, MeetInv, Basic, IInv
<1>0. PICK chup \in BOOLEAN :
        /\ Cut(res, chup)
        /\ chup => res # "CEND" /\ (res \in Failures \/ lastcmd.cmd = "A")
        /\ NoDial(res) => ~chup
  <2>1. needchup \in BOOLEAN
    BY DEF TypeOK
  <2>2. ~(NoDial(res) /\ (Ended(res) \/ Failed(res) \/ NoAnswer(res)))
    BY DEF NoDial, Ended, Failed, NoAnswer, Failures
  <2> QED
    BY <2>1, <2>2 DEF Ended, Failed, NoAnswer, NoDial, Failures
<1>1. /\ lastcmd' = lastcmd \/ (lastcmd' = NoCmd /\ lastcmd.cmd \in {"A", "D"})
      /\ incoming' => incoming /\ res # "CEND"
      /\ outgoing' => outgoing /\ res # "CEND" /\ ~NoDial(res)
      /\ initialized' = initialized
      /\ res \in Finals \cup Failures \cup {"CEND"}
      /\ res \notin Finals => lastcmd' = lastcmd \/ lastcmd.cmd = "A"
  BY <1>0 DEF Cut, Ended, Failed, NoAnswer, NoDial, Finals, Failures
<1>2. /\ Atas' = {i \in Atas : i # 0 \/ lastcmd' = lastcmd}
      /\ Dials' = {i \in Dials : i # 0 \/ lastcmd' = lastcmd}
  BY <1>0, <1>1, CutSlots
<1>3. /\ LineDown' /\ Reported' /\ (res # "CEND" /\ InCall => InCall')
      /\ (res = "BUSY" => InCall')
      /\ res = "NO_CARRIER" /\ Without({"stale"}) => InCall' \/ Refused
      /\ (InRx(Finals)' => InRx(Finals))
      /\ res \in Finals => InRx(Finals)
  BY ReadFacts
<1>4. /\ \A kinds : Without(kinds)' => Without(kinds)
      /\ Without({"stale"})' => Atas = {}
      /\ "stale" \notin mishaps' => Atas = {}
  BY <1>0, KeptWithout, NotedEnd DEF Cut, Without
<1>5. DialDue => DialDue'
  <2>1. \A i \in Dials : i > 0 => i \in Dials'
    BY <1>2, SlotFacts
  <2>2. lastcmd.cmd = "CLIR" => lastcmd' = lastcmd
    BY <1>1
  <2> QED
    BY <2>1, <2>2, DialStays
<1>6. CallIn'
  BY <1>1, <1>3 DEF CallIn
<1>7. CallOut'
  BY <1>1, <1>3, <1>4, <1>5 DEF CallOut
<1>8. Atas = {} => lastcmd.cmd # "A"
  BY SlotFacts
<1>9. OneSent'
  <2>1. CASE res \in Finals
    BY <1>3, <1>4, <2>1 DEF OneSent
  <2>2. CASE res \notin Finals
    BY <1>1, <1>3, <1>4, <1>8, <2>2 DEF OneSent
  <2> QED
    BY <2>1, <2>2
<1>10. AnswerDue'
  BY <1>2, <1>4 DEF AnswerDue
<1>11. Carried'
  <2>1. \A n \in 1 .. Len(rx)' : rx'[n] = "NO_CARRIER" /\ Without({"stale"}) =>
          EndsAfter(n)' \/ Refused
    BY ReadFacts
  <2> QED
    BY <1>4, <1>8, <2>1 DEF Carried, Refused
<1>12. HangupDue'
  <2>1. SUFFICES ASSUME Without({"blind", "stale"})', needchup'
                 PROVE  link' = "up" /\ InCall'
    BY DEF HangupDue
  <2>2. Without({"stale"})' /\ Without({"stale"}) /\ lastcmd.cmd # "A"
    <3>1. Without({"stale"})'
      BY <2>1 DEF Without
    <3> QED
      BY <1>4, <1>8, <3>1
  <2>3. chup
    BY <1>0, <2>1 DEF Cut
  <2>4. res \in Failures
    BY <1>0, <2>2, <2>3
  <2> QED
    BY <1>3, <2>2, <2>4 DEF Failures, Refused
<1>13. Owned'
  BY <1>0, CutOwned
<1> QED
  BY <1>3, <1>6, <1>7, <1>9, <1>10, <1>11, <1>12, <1>13

(* The pipe is left alone. *)
LEMMA SameSlots ==
  ASSUME UNCHANGED <<queue, lastcmd>>
  PROVE  /\ Atas' = Atas /\ Clirs' = Clirs /\ Atds' = Atds /\ Dials' = Dials /\ Chups' = Chups
         /\ \A i \in Nat : Slot(i)' = Slot(i)
         /\ tx' = tx => DialDue' = DialDue
<1>1. /\ Atas' = Atas /\ Clirs' = Clirs /\ Atds' = Atds /\ Dials' = Dials /\ Chups' = Chups
      /\ \A i \in Nat : Slot(i)' = Slot(i)
  BY DEF Atas, Clirs, Atds, Dials, Chups, Slots, Slot
<1> QED
  BY <1>1 DEF DialDue

(* An incoming call gets its channel. *)
LEMMA TakenBasic ==
  ASSUME NEW res, Reading(res), NEW c \in Channels, Taken(res, c)
  PROVE  Basic'
<1> USE DEF Reading, MeetInv, Basic, IInv
<1>1. Atas' = Atas /\ DialDue' = DialDue
  BY SameSlots DEF Taken
<1>2. /\ UNCHANGED <<link, lastcmd, outgoing, initialized>> /\ initialized
      /\ incoming' = TRUE /\ needchup' = TRUE /\ conn' = c /\ res = "CLIP"
      /\ chan' = [chan EXCEPT ![c] = "routing"] /\ NoConn \notin Channels
      /\ chan \in [Channels -> ChanStates]
  BY DEF Taken, TypeOK, NoConn
<1>3. /\ LineDown' /\ Reported' /\ InCall' /\ (InRx(Finals)' => InRx(Finals))
  BY <1>2, ReadFacts
<1>4. /\ \A kinds : Without(kinds)' => Without(kinds)
      /\ "blind" \notin mishaps => "blind" \notin mishaps'
  BY KeptWithout DEF Taken, Kept
<1>5. CallIn' /\ CallOut' /\ AnswerDue' /\ HangupDue'
  BY <1>2, <1>3, <1>4 DEF CallIn, CallOut, AnswerDue, HangupDue
<1>6. OneSent'
  BY <1>2, <1>3, <1>4 DEF OneSent
<1>7. Carried'
  <2>1. Refused => Refused'
    BY <1>2, <1>3 DEF Refused
  <2>2. \A n \in 1 .. Len(rx)' : rx'[n] = "NO_CARRIER" /\ Without({"stale"}) =>
          EndsAfter(n)' \/ Refused
    BY ReadFacts
  <2> QED
    BY <1>4, <2>1, <2>2 DEF Carried
<1>8. Owned'
  <2>1. SUFFICES ASSUME Without(Meetings)'
                 PROVE  /\ "blind" \notin mishaps'
                        /\ \A d \in Channels : chan'[d] \in Owning => d = c
                        /\ chan'[c] = "routing"
    BY <1>2 DEF Owned
  <2>2. Without(Meetings) /\ conn = NoConn
    <3>1. "overlap" \notin mishaps'
      BY <2>1 DEF Without, Meetings
    <3> QED
      BY <1>4, <2>1, <3>1 DEF Taken
  <2>3. \A d \in Channels : chan[d] \notin Owning
    BY <1>2, <2>2 DEF Owned
  <2>4. chan'[c] = "routing" /\ \A d \in Channels : d # c => chan'[d] = chan[d]
    BY <1>2
  <2> QED
    BY <1>4, <2>2, <2>3, <2>4 DEF Owned
<1> QED
  BY <1>3, <1>5, <1>6, <1>7, <1>8

(* The session ends, whatever ended it. *)
LEMMA EmptiedBasic ==
  ASSUME MeetInv, Emptied, tx' = <<>>, rx' = <<>>,
         Without(Meetings)' => \A c \in Channels : chan'[c] \notin Owning
  PROVE  Basic'
<1>1. Atas' = {}
  BY EmptiedSlots, CallKinds DEF Emptied, Atas
<1>2. Len(rx') = 0 /\ \A k \in 1 .. Len(rx') : FALSE
  OBVIOUS
<1>3. /\ incoming' = FALSE /\ outgoing' = FALSE /\ needchup' = FALSE /\ conn' = NoConn
      /\ NoConn \notin Channels
  BY DEF Emptied, NoConn
<1>4. /\ LineDown' /\ Reported' /\ CallIn' /\ CallOut' /\ OneSent' /\ AnswerDue'
      /\ Carried' /\ HangupDue'
  BY <1>1, <1>2, <1>3
     DEF LineDown, Reported, CallIn, CallOut, OneSent, AnswerDue, Carried, HangupDue
<1>5. Owned'
  <2>1. \A kinds : Without(kinds)' => Without(kinds)
    BY KeptWithout DEF Emptied
  <2>2. "blind" \notin mishaps => "blind" \notin mishaps'
    BY DEF Emptied, Kept
  <2> QED
    BY <1>3, <2>1, <2>2 DEF Owned, MeetInv, Basic
<1> QED
  BY <1>4, <1>5 DEF Basic

(* disconnect, after a line. *)
LEMMA DroppedOwners ==
  ASSUME MeetInv, NEW res, Dropped(res), Without(Meetings)'
  PROVE  \A c \in Channels : chan'[c] \notin Owning
<1> SUFFICES ASSUME NEW c \in Channels, chan'[c] \in Owning PROVE FALSE
  OBVIOUS
<1> USE DEF MeetInv, Basic, IInv
<1>1. Without(Meetings)
  BY KeptWithout DEF Dropped, Emptied
<1>2. chan'[c] = chan[c] /\ chan[c] \in Owning /\ conn = c /\ conn # NoConn
  <2>1. chan'[c] = chan[c] \/ chan'[c] = "ended"
    BY DEF Dropped, Emptied
  <2>2. c # NoConn
    BY DEF NoConn
  <2> QED
    BY <1>1, <2>1, <2>2 DEF Owning, Owned
<1>3. CASE res = "OK" /\ ~initialized
  <2>1. ~incoming
    BY <1>3 DEF ServiceInv, IncomingInService
  <2>2. ~outgoing
    <3>1. Without({"blind"})
      BY <1>1 DEF Owned, Without
    <3> QED
      BY <1>3, <3>1 DEF CallOut
  <2> QED
    BY <1>1, <1>2, <1>3, <2>1, <2>2 DEF Owned, Owning
<1>4. CASE conn # NoConn => \/ chan[conn] \in {"in", "out"} /\ chan'[conn] = "ended"
                            \/ "unheard" \in mishaps'
  BY <1>2, <1>4 DEF Owning, Without, Meetings
<1>5. CASE "unrouted" \in mishaps'
  BY <1>5 DEF Without, Meetings
<1> QED
  BY <1>3, <1>4, <1>5 DEF Dropped

(* The card is pulled out. *)
LEMMA UnplugBasic ==
  ASSUME MeetInv, Unplug
  PROVE  Basic' /\ Emptied /\ tx' = <<>> /\ rx' = <<>> /\ call' = "none"
<1>1. /\ EndNoted("LOST") /\ Reset /\ EndOwner /\ link' # "up" /\ Kept
      /\ tx' = <<>> /\ rx' = <<>> /\ call' = "none"
  BY NotedEnd DEF Unplug, LostConnection, LostEarly
<1>2. Emptied /\ (conn # NoConn /\ chan[conn] \in {"in", "out"} => chan'[conn] = "ended")
  BY <1>1, ResetEmpties DEF MeetInv, IInv
<1>3. Without(Meetings)' => \A c \in Channels : chan'[c] \notin Owning
  <2> SUFFICES ASSUME Without(Meetings)', NEW c \in Channels PROVE chan'[c] \notin Owning
    OBVIOUS
  <2>1. conn = NoConn \/ chan[conn] \in {"in", "out"}
    BY <1>1, NotedEnd DEF Without, Meetings
  <2>2. Without(Meetings)
    BY <1>1, KeptWithout
  <2>3. chan[c] \in Owning => conn = c
    BY <2>2 DEF MeetInv, Basic, Owned
  <2>4. chan'[c] = chan[c] \/ (c = conn /\ chan[c] \in {"in", "out"} /\ chan'[c] = "ended")
    BY <1>2 DEF Emptied
  <2>5. c # NoConn
    BY DEF NoConn
  <2> QED
    BY <1>2, <2>1, <2>3, <2>4, <2>5 DEF Owning
<1> QED
  BY <1>1, <1>2, <1>3, EmptiedBasic

-----------------------------------------------------------------------------
(* The session begins, and a command is written.                           *)

(* The monitor that leaves may take the head of the queue: no kind of      *)
(* command comes into a pipe that has none of it.                          *)
LEMMA LeftSlots ==
  ASSUME TypeOK, MonitorLeave, NEW K, Slots(K) = {}
  PROVE  Slots(K)' = {}
<1>1. CASE UNCHANGED pipe
  <2>1. queue' = queue /\ lastcmd' = lastcmd
    BY <1>1 DEF pipe
  <2> QED
    BY <2>1 DEF Slots, Slot
<1>2. CASE queue # <<>> /\ lastcmd' = Head(queue) /\ queue' = Tail(queue)
  <2>1. queue \in Seq(Command)
    BY DEF TypeOK
  <2>2. /\ Len(queue) \in Nat /\ Len(queue) > 0 /\ Len(queue') = Len(queue) - 1
        /\ \A i \in 1 .. Len(queue) - 1 : queue'[i] = queue[i + 1]
        /\ lastcmd' = queue[1]
    BY <1>2, <2>1
  <2>3. \A i \in 0 .. Len(queue') : i + 1 \in 0 .. Len(queue) /\ Slot(i)' = Slot(i + 1)
    BY <2>2 DEF Slot
  <2>4. \A i \in Slots(K)' : i + 1 \in Slots(K)
    BY <2>3 DEF Slots
  <2> QED
    BY <2>4
<1> QED
  BY <1>1, <1>2 DEF MonitorLeave

(* Nor does any kind of service command, when a session begins or is left. *)
LEMMA SessionSlots ==
  ASSUME TypeOK, Connect \/ Start \/ Leave, NEW K \in SUBSET ServiceCmds, Slots(K) = {}
  PROVE  Slots(K)' = {}
<1>1. CASE Connect
  <2>1. queue' = queue /\ lastcmd' = lastcmd
    BY <1>1 DEF Connect, TryConnect, pipe
  <2> QED
    BY <2>1 DEF Slots, Slot
<1>2. CASE Start \/ (Leave /\ MonitorLate)
  <2>1. queue' = <<Plain("AT")>> /\ lastcmd' = NoCmd
    BY <1>2 DEF Start, MonitorStart, MonitorLate
  <2> QED
    BY <2>1, EmptiedSlots
<1>3. CASE Leave /\ MonitorLeave
  BY <1>3, LeftSlots
<1> QED
  BY <1>1, <1>2, <1>3 DEF Leave

(* The line is down but for the queue: nothing is owed to any call. *)
LEMMA SessionBasic ==
  ASSUME MeetInv, Connect \/ Start \/ Leave
  PROVE  /\ Basic' /\ ~incoming /\ tx = <<>> /\ rx = <<>>
         /\ (Without({"blind"}) => ~outgoing)
         /\ UNCHANGED <<initialized, conn, chan, flags, tx, rx, call, mishaps>>
<1> USE DEF MeetInv, Basic, IInv
<1>1. /\ link # "up" /\ ~initialized /\ ~incoming /\ tx = <<>> /\ rx = <<>> /\ Atas = {}
      /\ UNCHANGED <<initialized, conn, chan, flags, tx, rx, call, mishaps>>
  BY DEF Connect, Start, Leave, TryConnect, MonitorStart, MonitorLate, MonitorLeave, LineDown,
         ServiceInv, ReadyHasSms, IncomingInService, modem
<1>4. Atas' = {}
  BY <1>1, SessionSlots, CallKinds DEF Atas
<1>5. Len(rx) = 0 /\ \A k \in 1 .. Len(rx) : FALSE
  BY <1>1
<1>6. Without({"blind"}) => ~outgoing
  BY <1>1 DEF CallOut
<1>7. Without({"blind", "stale"}) => ~needchup
  BY <1>1 DEF HangupDue
<1>8. LineDown' /\ Reported' /\ CallIn' /\ OneSent' /\ AnswerDue' /\ Carried'
  BY <1>1, <1>4, <1>5 DEF LineDown, Reported, CallIn, OneSent, AnswerDue, Carried, flags
<1>9. CallOut' /\ HangupDue'
  BY <1>1, <1>6, <1>7 DEF CallOut, HangupDue, Without, flags
<1>10. Owned'
  BY <1>1 DEF Owned, Without, flags
<1> QED
  BY <1>1, <1>6, <1>8, <1>9, <1>10

(* What has been written and not yet executed. *)
LEMMA TxFacts ==
  ASSUME MeetInv, Without({"stale"})
  PROVE  /\ lastcmd = NoCmd => tx = <<>>
         /\ tx # <<>> => Head(tx) = lastcmd /\ Tail(tx) = <<>> /\ lastcmd \in Command
                           /\ ~InRx(Finals)
<1>1. tx = <<>> \/ (tx = <<lastcmd>> /\ ~InRx(Finals))
  BY DEF MeetInv, Basic, OneSent
<1>2. tx = <<lastcmd>> => lastcmd \in Command
  <2>1. tx \in Seq(Command)
    BY DEF MeetInv, LinkType
  <2>2. ASSUME tx = <<lastcmd>> PROVE tx[1] \in Command /\ tx[1] = lastcmd
    <3>1. Len(tx) = 1
      BY <2>2
    <3>2. 1 \in 1 .. Len(tx)
      BY <3>1
    <3> QED
      BY <2>1, <2>2, <3>2
  <2> QED
    BY <2>2
<1>3. tx = <<lastcmd>> => Head(tx) = lastcmd /\ Tail(tx) = <<>>
  OBVIOUS
<1> QED
  BY <1>1, <1>2, <1>3, CommandType

(* The command written. *)
LEMMA WriteFacts ==
  ASSUME MeetInv, Write
  PROVE  /\ link = "up" /\ lastcmd = NoCmd /\ rx = <<>> /\ queue # <<>>
         /\ lastcmd' = Head(queue) /\ Head(queue) \in Command /\ queue' = Tail(queue)
         /\ tx' = Append(tx, lastcmd')
         /\ UNCHANGED <<link, initialized, conn, chan, incoming, outgoing, needchup, needring,
                        rx, call, mishaps>>
         /\ tx' \in Seq(Command)
         /\ \A n \in 1 .. Len(tx) : n \in 1 .. Len(tx)' /\ tx'[n] = tx[n]
         /\ \E n \in 1 .. Len(tx)' : tx'[n] = lastcmd'
<1> USE DEF MeetInv, IInv, LinkType
<1>1. /\ link = "up" /\ lastcmd = NoCmd /\ rx = <<>> /\ queue # <<>>
      /\ lastcmd' = Head(queue) /\ queue' = Tail(queue)
      /\ tx' = Append(tx, lastcmd')
      /\ UNCHANGED <<link, initialized, conn, chan, incoming, outgoing, needchup, needring,
                     rx, call, mishaps>>
  BY DEF Write, SendCommand, Awaiting, session, flags
<1>2. Head(queue) \in Command
  BY <1>1 DEF TypeOK
<1>3. tx \in Seq(Command) /\ lastcmd' \in Command
  BY <1>1, <1>2
<1>4. /\ tx' \in Seq(Command) /\ Len(tx') = Len(tx) + 1 /\ Len(tx) \in Nat
      /\ tx'[Len(tx) + 1] = lastcmd' /\ \A n \in 1 .. Len(tx) : tx'[n] = tx[n]
  BY <1>1, <1>3, AppendProperties
<1>5. Len(tx) + 1 \in 1 .. Len(tx') /\ \A n \in 1 .. Len(tx) : n \in 1 .. Len(tx')
  BY <1>4
<1> QED
  BY <1>1, <1>2, <1>4, <1>5

(* The commands move up by one slot. *)
LEMMA WriteSlots ==
  ASSUME MeetInv, Write
  PROVE  /\ \A i \in Atas' : i \in Nat /\ i + 1 \in Atas
         /\ \A i \in Clirs' : i \in Nat /\ i + 1 \in Clirs
         /\ \A i \in Atds' : i \in Nat /\ i + 1 \in Atds
         /\ \A i \in Dials' : i \in Nat /\ i + 1 \in Dials
         /\ \A i \in Dials : i > 0 /\ i - 1 \in Dials'
         /\ \A i \in Chups : i > 0 /\ i - 1 \in Chups'
         /\ \A i \in 0 .. Len(queue) - 1 : Slot(i)' = Slot(i + 1)
         /\ 0 \in Dials' => lastcmd'.cmd \in {"CLIR", "D"}
         /\ 0 \in Chups' => lastcmd'.cmd = "CHUP"
         /\ lastcmd'.cmd = "CLIR" => 0 \in Clirs'
         /\ lastcmd'.cmd = "D" => 0 \in Atds'
<1>1. SendCommand /\ TypeOK
  BY DEF Write, MeetInv, IInv
<1>2. /\ \A i \in Atas' : i + 1 \in Atas
      /\ \A i \in Clirs' : i + 1 \in Clirs
      /\ \A i \in Atds' : i + 1 \in Atds
      /\ \A i \in Dials' : i + 1 \in Dials
      /\ \A i \in Dials : i > 0 /\ i - 1 \in Dials'
      /\ \A i \in Chups : i > 0 /\ i - 1 \in Chups'
      /\ \A i \in 0 .. Len(queue) - 1 : Slot(i)' = Slot(i + 1)
  BY <1>1, SentSlots, CallKinds DEF Atas, Clirs, Atds, Dials, Chups
<1>3. Slot(0)' = lastcmd'
  BY DEF Slot
<1>4. /\ 0 \in Dials' => lastcmd'.cmd \in {"CLIR", "D"}
      /\ 0 \in Chups' => lastcmd'.cmd = "CHUP"
  BY <1>3 DEF Dials, Chups, Slots
<1>5. \A i \in Atas' \cup Clirs' \cup Atds' \cup Dials' : i \in Nat
  BY DEF Atas, Clirs, Atds, Dials, Slots
<1>6. (lastcmd'.cmd = "CLIR" => 0 \in Clirs') /\ (lastcmd'.cmd = "D" => 0 \in Atds')
  <2>1. queue' \in Seq(Command)
    BY <1>1 DEF SendCommand, TypeOK
  <2>2. 0 \in 0 .. Len(queue')
    BY <2>1
  <2> QED
    BY <1>3, <2>2 DEF Clirs, Atds, Slots
<1> QED
  BY <1>2, <1>4, <1>5, <1>6

(* A command is written. *)
LEMMA WriteBasic ==
  ASSUME MeetInv, Write
  PROVE  Basic'
<1> USE DEF MeetInv, Basic, IInv
<1>1. /\ link = "up" /\ lastcmd = NoCmd /\ rx = <<>> /\ lastcmd' \in Command
      /\ tx' = Append(tx, lastcmd')
      /\ UNCHANGED <<link, initialized, conn, chan, incoming, outgoing, needchup, needring,
                     rx, call, mishaps>>
      /\ \A n \in 1 .. Len(tx) : n \in 1 .. Len(tx)' /\ tx'[n] = tx[n]
      /\ \E n \in 1 .. Len(tx)' : tx'[n] = lastcmd'
  BY WriteFacts
<1>2. Len(rx) = 0 /\ \A k \in 1 .. Len(rx) : FALSE
  BY <1>1
<1>3. InCall' = InCall
  BY <1>1 DEF InCall, EndsAfter
<1>4. DialDue => DialDue'
  <2>1. ASSUME NEW i \in Dials PROVE DialDue'
    <3>1. i \in Nat /\ i - 1 \in Dials'
      BY WriteSlots, SlotFacts
    <3>2. CASE i - 1 > 0
      BY <3>1, <3>2 DEF DialDue
    <3>3. CASE i - 1 = 0
      <4>1. lastcmd'.cmd \in {"CLIR", "D"}
        BY <3>1, <3>3, WriteSlots
      <4> QED
        BY <1>1, <4>1 DEF DialDue
    <3>4. i > 0
      BY WriteSlots
    <3> QED
      BY <3>1, <3>2, <3>3, <3>4
  <2>2. lastcmd.cmd # "CLIR"
    BY <1>1 DEF NoCmd
  <2>3. ASSUME NEW n \in 1 .. Len(tx), tx[n].cmd = "D" PROVE DialDue'
    BY <1>1, <2>3 DEF DialDue
  <2> QED
    BY <2>1, <2>2, <2>3 DEF DialDue
<1>5. Without({"stale"}) => tx' = <<lastcmd'>>
  BY <1>1, TxFacts
<1>6. LineDown' /\ Reported' /\ CallIn' /\ Carried' /\ OneSent'
  BY <1>1, <1>2, <1>3, <1>5
     DEF LineDown, Reported, CallIn, Carried, OneSent, Without, InRx
<1>7. CallOut' /\ HangupDue'
  BY <1>1, <1>3, <1>4 DEF CallOut, HangupDue, Without
<1>8. AnswerDue'
  BY <1>1, <1>3, WriteSlots DEF AnswerDue, Without
<1>9. Owned'
  BY <1>1 DEF Owned, Without
<1> QED
  BY <1>6, <1>7, <1>8, <1>9

-----------------------------------------------------------------------------
(* The modem and the network.                                              *)

(* The modem says lines. *)
Spoken(lines) ==
  /\ link = "up" /\ UNCHANGED <<vars, mishaps>>
  /\ lines \in Seq(CallLine) /\ lines # <<>> /\ rx' = rx \o lines

(* What it says of calls is true: an end comes last, BUSY and the reports  *)
(* of a call come before its end, and NO CARRIER too but for a late ATA.   *)
Truly(lines) ==
  /\ call # "none" /\ call' = "none" => lines[Len(lines)] = "CEND"
  /\ \A n \in 1 .. Len(lines) :
       /\ lines[n] \in {"RING", "CLIP", "BUSY"} =>
            call' # "none" \/ (n < Len(lines) /\ lines[Len(lines)] = "CEND")
       /\ lines[n] = "NO_CARRIER" =>
            \/ call' # "none" \/ (n < Len(lines) /\ lines[Len(lines)] = "CEND")
            \/ Without({"stale"}) => Refused'

(* The card is left alone. *)
LEMMA CardUntouched ==
  ASSUME UNCHANGED <<vars, mishaps>>
  PROVE  /\ UNCHANGED <<link, initialized, conn, chan, incoming, outgoing, needchup, needring,
                        queue, lastcmd, mishaps>>
         /\ Atas' = Atas /\ Clirs' = Clirs /\ Atds' = Atds /\ Dials' = Dials /\ Chups' = Chups
         /\ \A i \in Nat : Slot(i)' = Slot(i)
         /\ \A kinds : Without(kinds)' = Without(kinds)
<1>1. UNCHANGED <<link, initialized, conn, chan, incoming, outgoing, needchup, needring,
                  queue, lastcmd, mishaps>>
  BY DEF vars, session, pipe, flags
<1> QED
  BY <1>1, SameSlots DEF Without

(* The modem says what is true of its calls. *)
LEMMA SpokenBasic ==
  ASSUME MeetInv, NEW lines, Spoken(lines), Truly(lines), DialDue => DialDue' \/ InCall',
         Without({"stale"}) =>
           \/ tx # <<>> /\ tx' = <<>>
           \/ tx' = tx /\ \A n \in 1 .. Len(lines) : lines[n] \notin Finals
  PROVE  Basic'
<1> USE DEF MeetInv, Basic, IInv
<1>1. /\ UNCHANGED <<link, initialized, conn, chan, incoming, outgoing, needchup, needring,
                     queue, lastcmd, mishaps>>
      /\ Atas' = Atas /\ link = "up"
      /\ \A kinds : Without(kinds)' = Without(kinds)
  BY CardUntouched DEF Spoken
<1>2. /\ Grown(lines) /\ Len(rx) \in Nat /\ Len(lines) \in Nat
      /\ \A L : InRx(L)' <=> InRx(L) \/ \E n \in 1 .. Len(lines) : lines[n] \in L
  BY HeardRx DEF Spoken
<1>3. \A k \in 0 .. Len(rx) : EndsAfter(k) => EndsAfter(k)'
  BY EndsKept DEF Spoken, Truly
<1>4. InCall => InCall'
  BY <1>2, <1>3 DEF InCall
<1>5. ASSUME NEW n \in 1 .. Len(lines), n < Len(lines), lines[Len(lines)] = "CEND",
             NEW k, k = Len(rx) + n
      PROVE  EndsAfter(k)'
  <2>1. Len(lines) \in 1 .. Len(lines) /\ k < Len(rx) + Len(lines)
    BY <1>2, <1>5
  <2>2. PICK l \in 1 .. Len(rx') : l = Len(rx) + Len(lines) /\ rx'[l] = "CEND"
    BY <1>2, <1>5, <2>1 DEF Grown
  <2> QED
    BY <2>1, <2>2 DEF EndsAfter
<1>6. ASSUME NEW k \in 1 .. Len(rx'), k \notin 1 .. Len(rx)
      PROVE  \E n \in 1 .. Len(lines) : k = Len(rx) + n /\ rx'[k] = lines[n]
  <2>1. k - Len(rx) \in 1 .. Len(lines) /\ rx'[k] = lines[k - Len(rx)]
    BY <1>2, <1>6 DEF Grown
  <2>2. k = Len(rx) + (k - Len(rx))
    BY <1>2
  <2> QED
    BY <2>1, <2>2
<1>7. LineDown'
  BY <1>1 DEF LineDown
<1>8. \A k \in 1 .. Len(rx) : k \in 0 .. Len(rx) /\ rx'[k] = rx[k]
  BY <1>2 DEF Grown
<1>9. Reported'
  <2> SUFFICES ASSUME NEW k \in 1 .. Len(rx'), rx'[k] \in {"RING", "CLIP", "BUSY"}
               PROVE  EndsAfter(k)'
    BY DEF Reported
  <2>1. CASE k \in 1 .. Len(rx)
    BY <1>3, <1>8, <2>1 DEF Reported
  <2>2. CASE k \notin 1 .. Len(rx)
    <3>1. PICK n \in 1 .. Len(lines) : k = Len(rx) + n /\ rx'[k] = lines[n]
      BY <1>6, <2>2
    <3>2. call' # "none" \/ (n < Len(lines) /\ lines[Len(lines)] = "CEND")
      BY <3>1 DEF Truly
    <3>3. call' # "none" => EndsAfter(k)'
      BY DEF EndsAfter
    <3> QED
      BY <1>5, <3>1, <3>2, <3>3
  <2> QED
    BY <2>1, <2>2
<1>10. CallIn' /\ AnswerDue'
  BY <1>1, <1>4 DEF CallIn, AnswerDue
<1>11. CallOut' /\ HangupDue'
  BY <1>1, <1>4 DEF CallOut, HangupDue
<1>12. OneSent'
  BY <1>1, <1>2 DEF OneSent
<1>13. Carried'
  <2> SUFFICES ASSUME Without({"stale"}), NEW k \in 1 .. Len(rx'), rx'[k] = "NO_CARRIER"
               PROVE  EndsAfter(k)' \/ Refused'
    BY <1>1 DEF Carried
  <2>1. CASE k \in 1 .. Len(rx)
    <3>1. EndsAfter(k) \/ Refused
      BY <1>8, <2>1 DEF Carried
    <3>2. Refused /\ tx' = tx /\ (\A n \in 1 .. Len(lines) : lines[n] \notin Finals) => Refused'
      BY <1>1, <1>2 DEF Refused
    <3>3. Refused => tx = <<>>
      BY DEF Refused
    <3>4. CASE tx' = tx /\ \A n \in 1 .. Len(lines) : lines[n] \notin Finals
      BY <1>3, <1>8, <2>1, <3>1, <3>2, <3>4
    <3>5. CASE tx # <<>>
      BY <1>3, <1>8, <2>1, <3>1, <3>3, <3>5
    <3> QED
      BY <3>4, <3>5
  <2>2. CASE k \notin 1 .. Len(rx)
    <3>1. PICK n \in 1 .. Len(lines) : k = Len(rx) + n /\ rx'[k] = lines[n]
      BY <1>6, <2>2
    <3>2. call' # "none" \/ (n < Len(lines) /\ lines[Len(lines)] = "CEND") \/ Refused'
      BY <3>1 DEF Truly
    <3>3. call' # "none" => EndsAfter(k)'
      BY DEF EndsAfter
    <3> QED
      BY <1>5, <3>1, <3>2, <3>3
  <2> QED
    BY <2>1, <2>2
<1>14. Owned'
  BY <1>1 DEF Owned
<1> QED
  BY <1>7, <1>9, <1>10, <1>11, <1>12, <1>13, <1>14

(* The modem says nothing, because nothing changes for it or nobody listens. *)
LEMMA UnspokenBasic ==
  ASSUME MeetInv, UNCHANGED <<vars, tx, rx, mishaps>>,
         call' = call \/ (call # "none" /\ call' # "none") \/ link # "up"
  PROVE  Basic'
<1> USE DEF MeetInv, Basic, IInv
<1>1. /\ UNCHANGED <<link, initialized, conn, chan, incoming, outgoing, needchup, needring,
                     queue, lastcmd, mishaps>>
      /\ Atas' = Atas /\ Dials' = Dials
      /\ \A kinds : Without(kinds)' = Without(kinds)
  BY CardUntouched
<1>2. /\ (\A L : InRx(L)' = InRx(L)) /\ DialDue' = DialDue /\ Refused' = Refused
  <2>1. \A L : InRx(L)' = InRx(L)
    BY DEF InRx
  <2>2. DialDue' = DialDue
    BY <1>1, SameSlots
  <2> QED
    BY <1>1, <2>1, <2>2 DEF Refused
<1>3. LineDown' /\ OneSent' /\ Owned'
  BY <1>1, <1>2 DEF LineDown, OneSent, Owned
<1>4. CASE link = "up"
  <2>1. \A k : EndsAfter(k) => EndsAfter(k)'
    BY <1>4 DEF EndsAfter
  <2>2. InCall => InCall'
    BY <2>1 DEF InCall
  <2>3. Reported' /\ Carried'
    BY <1>1, <1>2, <2>1 DEF Reported, Carried
  <2> QED
    BY <1>1, <1>2, <1>3, <2>2, <2>3 DEF CallIn, CallOut, AnswerDue, HangupDue
<1>5. CASE link # "up"
  <2>1. Len(rx) = 0 /\ (\A k \in 1 .. Len(rx) : FALSE) /\ Atas = {} /\ ~incoming /\ ~initialized
    BY <1>5 DEF LineDown, ServiceInv, ReadyHasSms, IncomingInService
  <2> QED
    BY <1>1, <1>2, <1>3, <1>5, <2>1
       DEF Reported, Carried, CallIn, CallOut, AnswerDue, HangupDue
<1> QED
  BY <1>4, <1>5

(* The answer to each command. *)
LEMMA ServeSays ==
  ASSUME MeetInv, Serve
  PROVE  /\ link = "up" /\ tx # <<>> /\ tx' = Tail(tx)
         /\ \/ Head(tx).cmd = "D" /\ call = "none" /\ call' = "dialled" /\ Spoken(<<"OK", "ORIG">>)
            \/ Head(tx).cmd = "D" /\ call # "none" /\ call' = call /\ Spoken(<<"ERROR">>)
            \/ Head(tx).cmd = "A" /\ call = "ringing" /\ call' = "active" /\ Spoken(<<"OK">>)
            \/ /\ Head(tx).cmd = "A" /\ call' = call
               /\ Spoken(<<"ERROR">>) \/ Spoken(<<"NO_CARRIER">>)
            \/ Head(tx).cmd = "CHUP" /\ call = "none" /\ call' = "none" /\ Spoken(<<"OK">>)
            \/ Head(tx).cmd = "CHUP" /\ call # "none" /\ call' = "none" /\ Spoken(<<"OK", "CEND">>)
            \/ /\ Head(tx).cmd \notin {"D", "A", "CHUP"} /\ call' = call
               /\ Spoken(<<"OK">>) \/ Spoken(<<"CPIN", "OK">>)
<1>1. link = "up" /\ tx # <<>> /\ tx' = Tail(tx) /\ UNCHANGED <<vars, mishaps>>
  BY DEF Serve, MeetInv, Basic, LineDown
<1>2. \A lines : Hear(lines) => rx' = rx \o lines
  BY <1>1 DEF Hear
<1>3. /\ <<"OK">> \in Seq(CallLine) /\ <<"ERROR">> \in Seq(CallLine)
      /\ <<"NO_CARRIER">> \in Seq(CallLine) /\ <<"OK", "ORIG">> \in Seq(CallLine)
      /\ <<"OK", "CEND">> \in Seq(CallLine) /\ <<"CPIN", "OK">> \in Seq(CallLine)
  BY DEF CallLine
<1>4. /\ <<"OK">> # <<>> /\ <<"ERROR">> # <<>> /\ <<"NO_CARRIER">> # <<>>
      /\ <<"OK", "ORIG">> # <<>> /\ <<"OK", "CEND">> # <<>> /\ <<"CPIN", "OK">> # <<>>
  OBVIOUS
<1>5. \A lines \in {<<"OK">>, <<"ERROR">>, <<"NO_CARRIER">>, <<"OK", "ORIG">>, <<"OK", "CEND">>,
                    <<"CPIN", "OK">>} : Hear(lines) => Spoken(lines)
  BY <1>1, <1>2, <1>3, <1>4 DEF Spoken
<1>6. CASE ServeDial
  BY <1>1, <1>5, <1>6 DEF ServeDial
<1>7. CASE ServeAnswer
  BY <1>1, <1>5, <1>7 DEF ServeAnswer
<1>8. CASE ServeHangup
  BY <1>1, <1>5, <1>8 DEF ServeHangup
<1>9. CASE ServeOther
  BY <1>1, <1>5, <1>9 DEF ServeOther
<1> QED
  BY <1>6, <1>7, <1>8, <1>9 DEF Serve

(* Which lines are true of the calls. *)
LEMMA TrueLines ==
  /\ call' # "none" => Truly(<<"OK", "ORIG">>) /\ Truly(<<"OK">>) /\ Truly(<<"ERROR">>)
                         /\ Truly(<<"RING", "CLIP">>) /\ Truly(<<"CPIN", "OK">>)
                         /\ Truly(<<"NO_CARRIER">>)
  /\ call = "none" => Truly(<<"OK">>) /\ Truly(<<"ERROR">>) /\ Truly(<<"CPIN", "OK">>)
  /\ (Without({"stale"}) => Refused') /\ call' = call => Truly(<<"NO_CARRIER">>)
  /\ Truly(<<"OK", "CEND">>) /\ Truly(<<"CEND">>)
  /\ Truly(<<"BUSY", "CEND">>) /\ Truly(<<"NO_CARRIER", "CEND">>)
<1>1. \A a : Len(<<a>>) = 1 /\ <<a>>[1] = a /\ \A n \in 1 .. Len(<<a>>) : n = 1
  OBVIOUS
<1>2. \A a, b : /\ Len(<<a, b>>) = 2 /\ <<a, b>>[1] = a /\ <<a, b>>[2] = b
                /\ \A n \in 1 .. Len(<<a, b>>) : n = 1 \/ n = 2
  OBVIOUS
<1> QED
  BY <1>1, <1>2 DEF Truly

(* The modem executes a command. *)
LEMMA ServeBasic ==
  ASSUME MeetInv, Serve
  PROVE  Basic'
<1> USE DEF MeetInv, Basic, IInv
<1>1. link = "up" /\ tx # <<>> /\ tx' = Tail(tx) /\ tx \in Seq(Command)
  BY ServeSays DEF LinkType
<1>2. Without({"stale"}) => tx' = <<>>
  BY <1>1, TxFacts
<1>3. /\ UNCHANGED <<queue, lastcmd, mishaps>> /\ Dials' = Dials
  BY ServeSays, CardUntouched DEF Spoken
<1>4. Head(tx).cmd = "D" => call' # "none"
  BY ServeSays
<1>5. DialDue => DialDue' \/ InCall'
  <2>1. /\ Len(tx) \in Nat /\ Len(tx') = Len(tx) - 1 /\ Head(tx) = tx[1]
        /\ \A n \in 1 .. Len(tx) - 1 : tx'[n] = tx[n + 1]
    BY <1>1
  <2>2. ASSUME NEW n \in 1 .. Len(tx), tx[n].cmd = "D" PROVE DialDue' \/ InCall'
    <3>1. CASE n = 1
      BY <1>4, <2>1, <2>2, <3>1 DEF InCall, EndsAfter
    <3>2. CASE n # 1
      <4>1. n - 1 \in 1 .. Len(tx) - 1 /\ (n - 1) + 1 = n
        BY <2>1, <3>2
      <4>2. n - 1 \in 1 .. Len(tx') /\ tx'[n - 1].cmd = "D"
        BY <2>1, <2>2, <4>1
      <4> QED
        BY <4>2 DEF DialDue
    <3> QED
      BY <3>1, <3>2
  <2> QED
    BY <1>3, <2>2 DEF DialDue
<1>6. ASSUME NEW lines, Spoken(lines), Truly(lines) PROVE Basic'
  BY <1>1, <1>2, <1>5, <1>6, SpokenBasic
<1>7. CASE Spoken(<<"NO_CARRIER">>) /\ Head(tx).cmd = "A" /\ call' = call
  <2>1. Without({"stale"}) => Refused'
    <3> SUFFICES ASSUME Without({"stale"}) PROVE Refused'
      OBVIOUS
    <3>1. lastcmd.cmd = "A" /\ ~InRx(Finals)
      BY <1>1, <1>7, TxFacts
    <3>2. ~InRx(Finals)'
      <4>1. <<"NO_CARRIER">> \in Seq(CallLine) /\ rx' = rx \o <<"NO_CARRIER">>
        BY <1>7 DEF Spoken
      <4>2. InRx(Finals)' <=> InRx(Finals)
                \/ \E n \in 1 .. Len(<<"NO_CARRIER">>) : <<"NO_CARRIER">>[n] \in Finals
        BY <4>1, HeardRx
      <4>3. Len(<<"NO_CARRIER">>) = 1 /\ <<"NO_CARRIER">>[1] \notin Finals
        BY DEF Finals
      <4> QED
        BY <3>1, <4>2, <4>3
    <3> QED
      BY <1>2, <1>3, <3>1, <3>2 DEF Refused
  <2>2. Truly(<<"NO_CARRIER">>)
    BY <1>7, <2>1, TrueLines
  <2> QED
    BY <1>6, <1>7, <2>2
<1>8. ASSUME NEW a \in {"OK", "ERROR"}, Spoken(<<a>>), call' # "none" \/ call = "none"
      PROVE  Basic'
  BY <1>6, <1>8, TrueLines
<1>9. CASE Spoken(<<"CPIN", "OK">>) /\ call' = call
  BY <1>6, <1>9, TrueLines
<1>10. CASE Spoken(<<"OK", "ORIG">>) /\ call' = "dialled"
  BY <1>6, <1>10, TrueLines
<1>11. CASE Spoken(<<"OK", "CEND">>)
  BY <1>6, <1>11, TrueLines
<1> QED
  BY <1>7, <1>8, <1>9, <1>10, <1>11, ServeSays

(* What the network does. *)
LEMMA NetworkSays ==
  ASSUME MeetInv, NetworkCalls \/ RingsAgain \/ RemoteAnswers \/ RemoteEnds
  PROVE  /\ UNCHANGED <<vars, tx, mishaps>>
         /\ \/ NetworkCalls /\ call = "none" /\ call' = "ringing"
                 /\ (IF link = "up" THEN Spoken(<<"RING", "CLIP">>) ELSE rx' = rx)
            \/ RingsAgain /\ call = "ringing" /\ call' = call
                 /\ (IF link = "up" THEN Spoken(<<"RING", "CLIP">>) ELSE rx' = rx)
            \/ RemoteAnswers /\ call = "dialled" /\ call' = "active" /\ rx' = rx
            \/ RemoteEnds /\ call # "none" /\ call' = "none"
                 /\ (IF link = "up"
                     THEN \/ Spoken(<<"CEND">>)
                          \/ /\ call # "ringing"
                             /\ Spoken(<<"BUSY", "CEND">>) \/ Spoken(<<"NO_CARRIER", "CEND">>)
                     ELSE rx' = rx)
<1>1. UNCHANGED <<vars, tx, mishaps>>
  BY DEF NetworkCalls, RingsAgain, RemoteAnswers, RemoteEnds
<1>2. /\ <<"RING", "CLIP">> \in Seq(CallLine) /\ <<"CEND">> \in Seq(CallLine)
      /\ <<"BUSY", "CEND">> \in Seq(CallLine) /\ <<"NO_CARRIER", "CEND">> \in Seq(CallLine)
  BY DEF CallLine
<1>3. /\ <<"RING", "CLIP">> # <<>> /\ <<"CEND">> # <<>>
      /\ <<"BUSY", "CEND">> # <<>> /\ <<"NO_CARRIER", "CEND">> # <<>>
  OBVIOUS
<1>4. \A lines \in {<<"RING", "CLIP">>, <<"CEND">>, <<"BUSY", "CEND">>, <<"NO_CARRIER", "CEND">>} :
        Hear(lines) => IF link = "up" THEN Spoken(lines) ELSE rx' = rx
  BY <1>1, <1>2, <1>3 DEF Hear, Spoken
<1>5. CASE NetworkCalls
  BY <1>1, <1>4, <1>5 DEF NetworkCalls
<1>6. CASE RingsAgain
  BY <1>1, <1>4, <1>6 DEF RingsAgain
<1>7. CASE RemoteAnswers
  BY <1>1, <1>7 DEF RemoteAnswers
<1>8. CASE RemoteEnds
  <2>1. Hear(<<"CEND">>) => IF link = "up" THEN Spoken(<<"CEND">>) ELSE rx' = rx
    BY <1>4
  <2>2. Hear(<<"BUSY", "CEND">>) => IF link = "up" THEN Spoken(<<"BUSY", "CEND">>) ELSE rx' = rx
    BY <1>4
  <2>3. Hear(<<"NO_CARRIER", "CEND">>) =>
          IF link = "up" THEN Spoken(<<"NO_CARRIER", "CEND">>) ELSE rx' = rx
    BY <1>4
  <2>4. /\ call # "none" /\ call' = "none"
        /\ \/ Hear(<<"CEND">>)
           \/ /\ call # "ringing"
              /\ Hear(<<"BUSY", "CEND">>) \/ Hear(<<"NO_CARRIER", "CEND">>)
    BY <1>8 DEF RemoteEnds
  <2> QED
    BY <1>1, <1>8, <2>1, <2>2, <2>3, <2>4
<1> QED
  BY <1>5, <1>6, <1>7, <1>8

(* The network calls, rings, answers or ends a call. *)
LEMMA NetworkBasic ==
  ASSUME MeetInv, NetworkCalls \/ RingsAgain \/ RemoteAnswers \/ RemoteEnds
  PROVE  Basic'
<1>1. UNCHANGED <<vars, tx, mishaps>>
  BY NetworkSays
<1>2. DialDue => DialDue'
  BY <1>1, CardUntouched DEF DialDue
<1>3. ASSUME NEW lines, Spoken(lines), Truly(lines),
             \A n \in 1 .. Len(lines) : lines[n] \notin Finals
      PROVE  Basic'
  BY <1>1, <1>2, <1>3, SpokenBasic
<1>4. \A a, b : Len(<<a, b>>) = 2 /\ \A n \in 1 .. 2 : <<a, b>>[n] = a \/ <<a, b>>[n] = b
  OBVIOUS
<1>5. ASSUME NEW a, NEW b, a \notin Finals, b \notin Finals, Spoken(<<a, b>>), Truly(<<a, b>>)
      PROVE  Basic'
  BY <1>3, <1>4, <1>5
<1>6. CASE Spoken(<<"RING", "CLIP">>) /\ call' # "none"
  BY <1>5, <1>6, TrueLines DEF Finals
<1>7. CASE Spoken(<<"CEND">>)
  <2>1. Len(<<"CEND">>) = 1 /\ \A n \in 1 .. 1 : <<"CEND">>[n] \notin Finals
    BY DEF Finals
  <2> QED
    BY <1>3, <1>7, <2>1, TrueLines
<1>8. CASE Spoken(<<"BUSY", "CEND">>) \/ Spoken(<<"NO_CARRIER", "CEND">>)
  BY <1>5, <1>8, TrueLines DEF Finals
<1>9. CASE rx' = rx /\ (link # "up" \/ (call # "none" /\ call' # "none"))
  BY <1>1, <1>9, UnspokenBasic
<1> QED
  BY <1>6, <1>7, <1>8, <1>9, NetworkSays

-----------------------------------------------------------------------------
(* The engine.                                                             *)

(* What every step of the engine leaves as it is. *)
LEMMA EngageRest ==
  ASSUME MeetInv, UNCHANGED <<tx, rx, call, link, initialized, lastcmd, incoming>>,
         mishaps \subseteq mishaps'
  PROVE  /\ Reported' /\ CallIn' /\ OneSent' /\ Carried' /\ InCall' = InCall
         /\ \A kinds : Without(kinds)' => Without(kinds)
<1> USE DEF MeetInv, Basic
<1>1. /\ \A L : InRx(L)' = InRx(L)
      /\ \A k : EndsAfter(k)' = EndsAfter(k)
      /\ InCall' = InCall
  BY DEF InRx, EndsAfter, InCall
<1>2. \A kinds : Without(kinds)' => Without(kinds)
  BY DEF Without
<1>3. Refused' = Refused
  BY <1>1 DEF Refused
<1> QED
  BY <1>1, <1>2, <1>3 DEF Reported, CallIn, OneSent, Carried

(* A command goes to the end of the queue. *)
LEMMA QueuedSlots ==
  ASSUME TypeOK, NEW x \in Command, queue' = queue \o <<x>>, lastcmd' = lastcmd
  PROVE  /\ Atas' = Atas \cup (IF x.cmd = "A" THEN {Len(queue) + 1} ELSE {})
         /\ Clirs' = Clirs \cup (IF x.cmd = "CLIR" THEN {Len(queue) + 1} ELSE {})
         /\ Atds' = Atds \cup (IF x.cmd = "D" THEN {Len(queue) + 1} ELSE {})
         /\ Dials' = Dials \cup (IF x.cmd \in {"CLIR", "D"} THEN {Len(queue) + 1} ELSE {})
         /\ Chups' = Chups \cup (IF x.cmd = "CHUP" THEN {Len(queue) + 1} ELSE {})
         /\ \A i \in 0 .. Len(queue) : Slot(i)' = Slot(i)
         /\ \A n : n = Len(queue) + 1 => Slot(n)' = x
<1>1. queue \in Seq(Command) /\ Len(queue) \in Nat
  BY DEF TypeOK
<1>2. queue' = Append(queue, x)
  BY <1>1
<1>3. \A K \in SUBSET ServiceCmds :
        /\ Slots(K)' = {i \in Slots(K) : i # 0 \/ lastcmd' = lastcmd}
                         \cup (IF x.cmd \in K THEN {Len(queue) + 1} ELSE {})
        /\ \A i \in 1 .. Len(queue) : Slot(i)' = Slot(i)
        /\ \A n : n = Len(queue) + 1 => Slot(n)' = x
  BY <1>2, PushedSlots
<1>4. \A i \in 0 .. Len(queue) : i = 0 \/ i \in 1 .. Len(queue)
  BY <1>1
<1>5. Slot(0)' = Slot(0)
  BY DEF Slot
<1>6. /\ \A i \in 0 .. Len(queue) : Slot(i)' = Slot(i)
      /\ \A n : n = Len(queue) + 1 => Slot(n)' = x
  BY <1>3, <1>4, <1>5, CallKinds
<1> QED
  BY <1>3, <1>6, CallKinds DEF Atas, Clirs, Atds, Dials, Chups

(* A call is put into the queue. *)
LEMMA PlaceFacts ==
  ASSUME MeetInv, NEW c \in Channels, Place(c)
  PROVE  /\ UNCHANGED <<tx, rx, call, link, initialized, lastcmd, conn, incoming>>
         /\ chan[c] = "dialing" /\ chan' = [chan EXCEPT ![c] = "out"]
         /\ outgoing' = TRUE /\ needchup' = TRUE
         /\ mishaps' = IF initialized THEN mishaps ELSE mishaps \cup {"blind"}
         /\ Len(queue) \in Nat
         /\ Atas' = Atas /\ Chups' = Chups /\ Dials' = Dials \cup {Len(queue) + 1}
         /\ \/ Clirs' = Clirs \cup {Len(queue) + 1} /\ Atds' = Atds
            \/ Atds' = Atds \cup {Len(queue) + 1} /\ Clirs' = Clirs
         /\ \A i \in 0 .. Len(queue) : Slot(i)' = Slot(i)
         /\ \A n : n = Len(queue) + 1 => Slot(n)'.obj = c
<1> USE DEF MeetInv, IInv
<1>1. PICK clir \in BOOLEAN : NewCall(c, clir) /\ Note("blind", ~initialized) /\ UNCHANGED modem
  BY DEF Place
<1>2. /\ UNCHANGED <<tx, rx, call, link, initialized, lastcmd, conn, incoming>>
      /\ chan[c] = "dialing" /\ chan' = [chan EXCEPT ![c] = "out"]
      /\ outgoing' = TRUE /\ needchup' = TRUE
      /\ mishaps' = IF initialized THEN mishaps ELSE mishaps \cup {"blind"}
      /\ queue' = queue \o <<With(IF clir THEN "CLIR" ELSE "D", c)>>
  BY <1>1 DEF NewCall, session, Note, modem, Enqueue
<1>3. PICK x \in Command : /\ x = With(IF clir THEN "CLIR" ELSE "D", c)
                           /\ x.obj = c /\ x.cmd = IF clir THEN "CLIR" ELSE "D"
  <2>1. /\ With(IF clir THEN "CLIR" ELSE "D", c) \in Command
        /\ With(IF clir THEN "CLIR" ELSE "D", c).obj = c
        /\ With(IF clir THEN "CLIR" ELSE "D", c).cmd = IF clir THEN "CLIR" ELSE "D"
    BY CommandType, Kinds, CommandParts
  <2> QED
    BY <2>1
<1>4. /\ Atas' = Atas \cup (IF x.cmd = "A" THEN {Len(queue) + 1} ELSE {})
      /\ Clirs' = Clirs \cup (IF x.cmd = "CLIR" THEN {Len(queue) + 1} ELSE {})
      /\ Atds' = Atds \cup (IF x.cmd = "D" THEN {Len(queue) + 1} ELSE {})
      /\ Dials' = Dials \cup (IF x.cmd \in {"CLIR", "D"} THEN {Len(queue) + 1} ELSE {})
      /\ Chups' = Chups \cup (IF x.cmd = "CHUP" THEN {Len(queue) + 1} ELSE {})
      /\ \A i \in 0 .. Len(queue) : Slot(i)' = Slot(i)
      /\ \A n : n = Len(queue) + 1 => Slot(n)' = x
  BY <1>2, <1>3, QueuedSlots
<1>5. Len(queue) \in Nat
  BY SlotFacts
<1>6. CASE clir
  BY <1>2, <1>3, <1>4, <1>5, <1>6
<1>7. CASE ~clir
  BY <1>2, <1>3, <1>4, <1>5, <1>7
<1> QED
  BY <1>6, <1>7

(* A peer answers. *)
LEMMA PickFacts ==
  ASSUME MeetInv, NEW c \in Channels, Pick(c)
  PROVE  /\ UNCHANGED <<tx, rx, call, link, initialized, lastcmd, conn, chan, incoming, outgoing,
                        needchup, mishaps>>
         /\ chan[c] = "in" /\ incoming
         /\ Len(queue) \in Nat
         /\ Atas = {} /\ Atas' = {Len(queue) + 1}
         /\ Clirs' = Clirs /\ Atds' = Atds /\ Dials' = Dials /\ Chups' = Chups
         /\ \A i \in 0 .. Len(queue) : Slot(i)' = Slot(i)
<1> USE DEF MeetInv, IInv
<1>1. /\ UNCHANGED <<tx, rx, call, link, initialized, lastcmd, conn, chan, incoming, outgoing,
                     needchup, mishaps>>
      /\ chan[c] = "in" /\ incoming /\ Atas = {}
      /\ queue' = queue \o <<Plain("A")>>
  BY DEF Pick, SendAnswer, session, flags, modem, Enqueue, Atas
<1>2. Plain("A") \in Command /\ Plain("A").cmd = "A"
  BY CommandType, Kinds, CommandParts
<1> QED
  BY <1>1, <1>2, QueuedSlots, SlotFacts

(* A channel is destroyed. *)
LEMMA ReleaseFacts ==
  ASSUME MeetInv, NEW c \in Channels, Release(c)
  PROVE  /\ UNCHANGED <<tx, rx, call, link, initialized, lastcmd, incoming, outgoing>>
         /\ conn' = NoConn /\ needchup' = FALSE
         /\ chan' = [chan EXCEPT ![c] = "free"]
         /\ Kept
         /\ "foreign" \notin mishaps' => conn \in {c, NoConn}
         /\ "early" \notin mishaps' => \A i \in Clirs : Slot(i).obj # c
         /\ Len(queue) \in Nat
         /\ Atas' = Atas /\ Clirs' = Clirs /\ Atds' = Atds /\ Dials' = Dials
         /\ Chups \subseteq Chups' /\ (needchup => Len(queue) + 1 \in Chups')
         /\ \A i \in 0 .. Len(queue) : Slot(i)' = Slot(i)
<1> USE DEF MeetInv, IInv
<1>1. /\ UNCHANGED <<tx, rx, call, link, initialized, lastcmd, incoming, outgoing>>
      /\ conn' = NoConn /\ needchup' = FALSE
      /\ chan' = [chan EXCEPT ![c] = "free"]
      /\ queue' = queue \o Chup
  BY DEF Release, Destroy, session, modem, Enqueue
<1>2. Kept /\ ("foreign" \notin mishaps' => conn \in {c, NoConn})
  BY DEF Release, Kept
<1>3. "early" \notin mishaps' => \A i \in Clirs : Slot(i).obj # c
  <2> SUFFICES ASSUME NEW i \in Clirs, Slot(i).obj = c PROVE "early" \in mishaps'
    OBVIOUS
  <2>1. Slot(i) \in Command /\ Slot(i).cmd = "CLIR" /\ i \in 0 .. Len(queue)
    BY SlotFacts
  <2>2. Slot(i) = With("CLIR", c)
    BY <2>1 DEF Command, With
  <2> QED
    BY <2>1, <2>2 DEF Release
<1>4. Len(queue) \in Nat
  BY SlotFacts
<1>5. CASE needchup
  <2>1. queue' = queue \o <<Plain("CHUP")>>
    BY <1>1, <1>5 DEF Chup
  <2>2. Plain("CHUP") \in Command /\ Plain("CHUP").cmd = "CHUP"
    BY CommandType, Kinds, CommandParts
  <2> QED
    BY <1>1, <1>2, <1>3, <1>4, <2>1, <2>2, QueuedSlots
<1>6. CASE ~needchup
  <2>1. queue' = queue
    BY <1>1, <1>6 DEF Chup, TypeOK
  <2>2. \A i \in 0 .. Len(queue) : i \in Nat
    BY <1>4
  <2>3. \A i \in 0 .. Len(queue) : Slot(i)' = Slot(i)
    BY <1>1, <2>1, <2>2, SameSlots
  <2> QED
    BY <1>1, <1>2, <1>3, <1>4, <1>6, <2>1, <2>3, SameSlots
<1> QED
  BY <1>5, <1>6

(* A channel takes the card for the call it will dial. *)
LEMMA OwnFacts ==
  ASSUME MeetInv, NEW c \in Channels, Own(c)
  PROVE  /\ UNCHANGED <<tx, rx, call, link, initialized, queue, lastcmd, incoming, outgoing,
                        needchup>>
         /\ conn' = c /\ chan[c] = "picked" /\ chan' = [chan EXCEPT ![c] = "dialing"]
         /\ Kept
         /\ "overlap" \notin mishaps' => /\ initialized /\ ~incoming /\ ~outgoing
                                         /\ conn = NoConn
BY DEF Own, SetConnection, session, pipe, flags, modem, Note, Kept, Busy

(* A channel is chosen for a call, or its router has found it a peer. *)
LEMMA DialRouteFacts ==
  ASSUME MeetInv, NEW c \in Channels, Dial(c) \/ Route(c)
  PROVE  /\ UNCHANGED <<tx, rx, call, link, initialized, queue, lastcmd, conn, incoming, outgoing,
                        needchup, mishaps>>
         /\ \/ chan[c] = "free" /\ chan' = [chan EXCEPT ![c] = "picked"]
            \/ chan[c] = "routing" /\ chan' = [chan EXCEPT ![c] = "in"]
BY DEF Dial, Execute, Route, Routed, session, pipe, flags, modem

(* A call is put into the queue. *)
LEMMA PlaceBasic ==
  ASSUME MeetInv, NEW c \in Channels, Place(c)
  PROVE  Basic'
<1> USE DEF MeetInv, Basic, IInv
<1>1. /\ UNCHANGED <<tx, rx, call, link, initialized, lastcmd, conn, incoming>>
      /\ chan[c] = "dialing" /\ chan' = [chan EXCEPT ![c] = "out"]
      /\ outgoing' = TRUE /\ needchup' = TRUE
      /\ mishaps' = IF initialized THEN mishaps ELSE mishaps \cup {"blind"}
      /\ Len(queue) \in Nat
      /\ Atas' = Atas /\ Dials' = Dials \cup {Len(queue) + 1}
  BY PlaceFacts
<1>2. mishaps \subseteq mishaps'
  BY <1>1
<1>3. /\ Reported' /\ CallIn' /\ OneSent' /\ Carried' /\ InCall' = InCall
      /\ \A kinds : Without(kinds)' => Without(kinds)
  BY <1>1, <1>2, EngageRest
<1>4. LineDown' /\ AnswerDue'
  BY <1>1, <1>3 DEF LineDown, AnswerDue
<1>5. DialDue'
  <2>1. Len(queue) + 1 \in Dials' /\ Len(queue) + 1 > 0
    BY <1>1
  <2> QED
    BY <2>1 DEF DialDue
<1>6. Without({"blind"})' => initialized
  BY <1>1 DEF Without
<1>7. initialized => link = "up"
  BY DEF ServiceInv, ReadyHasSms
<1>8. CallOut'
  BY <1>1, <1>5, <1>6 DEF CallOut
<1>9. HangupDue'
  <2>1. Without({"blind", "stale"})' => Without({"blind"})'
    BY DEF Without
  <2> QED
    BY <1>1, <1>5, <1>6, <1>7, <2>1 DEF HangupDue
<1>10. Owned'
  <2> SUFFICES ASSUME Without(Meetings)' PROVE Owned'
    BY DEF Owned
  <2>1. Without(Meetings) /\ conn = c /\ initialized
    BY <1>1, <1>3 DEF Owned, Owning, NoConn
  <2>2. chan'[c] = "out" /\ \A d \in Channels : d # c => chan'[d] = chan[d]
    BY <1>1 DEF TypeOK
  <2> QED
    BY <1>1, <2>1, <2>2 DEF Owned
<1> QED
  BY <1>3, <1>4, <1>8, <1>9, <1>10

(* The other steps of the engine. *)
LEMMA EngageBasic ==
  ASSUME MeetInv, NEW c \in Channels, Dial(c) \/ Own(c) \/ Route(c) \/ Pick(c) \/ Release(c)
  PROVE  Basic'
<1> USE DEF MeetInv, Basic, IInv
<1>1. /\ UNCHANGED <<tx, rx, call, link, initialized, lastcmd, incoming, outgoing>>
      /\ Kept /\ (needchup' => needchup)
      /\ Atas' \subseteq Atas \/ incoming
      /\ \A i \in Dials : i \in Dials'
  <2>1. ASSUME Dial(c) \/ Route(c) PROVE Atas' = Atas /\ Dials' = Dials
    BY <2>1, DialRouteFacts, SameSlots
  <2>2. ASSUME Own(c) PROVE Atas' = Atas /\ Dials' = Dials
    BY <2>2, OwnFacts, SameSlots
  <2>3. UNCHANGED mishaps => Kept
    BY DEF Kept
  <2> QED
    BY <2>1, <2>2, <2>3, DialRouteFacts, OwnFacts, PickFacts, ReleaseFacts
<1>2. mishaps \subseteq mishaps' /\ ("blind" \in mishaps' => "blind" \in mishaps)
  BY <1>1 DEF Kept
<1>3. /\ Reported' /\ CallIn' /\ OneSent' /\ Carried' /\ InCall' = InCall
      /\ \A kinds : Without(kinds)' => Without(kinds)
  BY <1>1, <1>2, EngageRest
<1>4. incoming => link = "up" /\ InCall
  BY DEF ServiceInv, ReadyHasSms, IncomingInService, CallIn
<1>5. LineDown' /\ AnswerDue'
  BY <1>1, <1>3, <1>4 DEF LineDown, AnswerDue
<1>6. DialDue => DialDue'
  BY <1>1 DEF DialDue
<1>7. CallOut' /\ HangupDue'
  BY <1>1, <1>3, <1>6 DEF CallOut, HangupDue
<1>8. Owned'
  <2> SUFFICES ASSUME Without(Meetings)' PROVE Owned'
    BY DEF Owned
  <2>1. Without(Meetings) /\ "blind" \notin mishaps' /\ NoConn \notin Channels
    BY <1>2, <1>3 DEF Owned, NoConn
  <2>2. /\ \A d \in Channels : chan[d] \in Owning => conn = d
        /\ conn # NoConn =>
             /\ chan[conn] \in Owning
             /\ chan[conn] = "dialing" => initialized /\ ~outgoing
             /\ chan[conn] \in {"routing", "in"} => incoming /\ needchup
             /\ chan[conn] = "out" => outgoing /\ needchup
    BY <2>1 DEF Owned, OwnerAlive
  <2>3. CASE Dial(c)
    <3>1. UNCHANGED <<initialized, conn, incoming, outgoing, needchup, mishaps>>
      BY <2>3, DialRouteFacts
    <3>2. chan[c] = "free" /\ chan' = [chan EXCEPT ![c] = "picked"]
      BY <2>3 DEF Dial, Execute
    <3>3. conn # c /\ \A d \in Channels : chan'[d] = IF d = c THEN "picked" ELSE chan[d]
      BY <2>1, <2>2, <3>2 DEF Owning, TypeOK
    <3>4. conn # NoConn => chan'[conn] = chan[conn]
      BY <3>3 DEF TypeOK
    <3> QED
      BY <1>1, <2>1, <2>2, <3>1, <3>3, <3>4 DEF Owned, Owning
  <2>4. CASE Route(c)
    <3>1. UNCHANGED <<initialized, conn, incoming, outgoing, needchup, mishaps>>
      BY <2>4, DialRouteFacts
    <3>2. chan[c] = "routing" /\ chan' = [chan EXCEPT ![c] = "in"]
      BY <2>4 DEF Route, Routed
    <3>3. conn = c /\ \A d \in Channels : chan'[d] = IF d = c THEN "in" ELSE chan[d]
      BY <2>1, <2>2, <3>2 DEF Owning, TypeOK
    <3> QED
      BY <1>1, <2>1, <2>2, <3>1, <3>2, <3>3 DEF Owned, Owning
  <2>5. CASE Own(c)
    <3>1. /\ conn' = c /\ chan[c] = "picked" /\ chan' = [chan EXCEPT ![c] = "dialing"]
          /\ initialized /\ ~incoming /\ ~outgoing /\ conn = NoConn
      <4>1. "overlap" \notin mishaps'
        BY DEF Without, Meetings
      <4> QED
        BY <2>5, <4>1, OwnFacts
    <3>2. \A d \in Channels : chan'[d] = IF d = c THEN "dialing" ELSE chan[d]
      BY <3>1 DEF TypeOK
    <3> QED
      BY <1>1, <2>1, <2>2, <3>1, <3>2 DEF Owned, Owning
  <2>6. CASE Pick(c)
    <3>1. UNCHANGED <<initialized, conn, chan, incoming, outgoing, needchup, mishaps>>
      BY <1>1, <2>6, PickFacts
    <3> QED
      BY <2>1, <2>2, <3>1 DEF Owned
  <2>7. CASE Release(c)
    <3>1. conn' = NoConn /\ chan' = [chan EXCEPT ![c] = "free"] /\ conn \in {c, NoConn}
      <4>1. "foreign" \notin mishaps'
        BY DEF Without, Meetings
      <4> QED
        BY <2>7, <4>1, ReleaseFacts
    <3>2. \A d \in Channels : chan'[d] = IF d = c THEN "free" ELSE chan[d]
      BY <3>1 DEF TypeOK
    <3> QED
      BY <1>1, <2>1, <2>2, <3>1, <3>2 DEF Owned, Owning
  <2> QED
    BY <2>3, <2>4, <2>5, <2>6, <2>7
<1> QED
  BY <1>3, <1>5, <1>7, <1>8

-----------------------------------------------------------------------------
(* Every step keeps the invariant.                                         *)

(* The lines of the link have their types. *)
LEMMA LinkTypeKept ==
  ASSUME MeetInv, [CallNext]_all
  PROVE  LinkType'
<1> USE DEF MeetInv, LinkType
<1>1. CASE Connect \/ Start \/ Leave
  BY <1>1 DEF Connect, Start, Leave, modem
<1>2. CASE Write
  BY <1>2, WriteFacts
<1>3. CASE Read
  <2>1. Tail(rx) \in Seq(CallLine)
    BY <1>3, HeadLine DEF Read
  <2>2. <<>> \in Seq(CallLine) /\ <<>> \in Seq(Command)
    OBVIOUS
  <2> QED
    BY <1>3, <2>1, <2>2 DEF Read
<1>4. CASE Serve
  <2>1. tx # <<>> /\ tx' = Tail(tx)
    BY <1>4, ServeSays
  <2>2. tx' \in Seq(Command)
    BY <2>1
  <2>3. \E lines : Spoken(lines)
    BY <1>4, ServeSays
  <2>4. rx' \in Seq(CallLine)
    BY <2>3 DEF Spoken
  <2>5. call' \in {"none", "dialled", "ringing", "active"}
    BY <1>4, ServeSays
  <2> QED
    BY <2>2, <2>4, <2>5
<1>5. CASE NetworkCalls \/ RingsAgain \/ RemoteAnswers \/ RemoteEnds
  <2>1. tx' = tx /\ (rx' = rx \/ \E lines : Spoken(lines))
    BY <1>5, NetworkSays
  <2>2. ASSUME NEW lines, Spoken(lines) PROVE rx' \in Seq(CallLine)
    BY <2>2 DEF Spoken
  <2>3. call' \in {"none", "dialled", "ringing", "active"}
    BY <1>5, NetworkSays
  <2>4. rx' \in Seq(CallLine)
    BY <2>1, <2>2
  <2> QED
    BY <2>1, <2>3, <2>4
<1>6. CASE Unplug
  <2>1. <<>> \in Seq(CallLine) /\ <<>> \in Seq(Command)
    OBVIOUS
  <2> QED
    BY <1>6, <2>1 DEF Unplug
<1>7. ASSUME NEW c \in Channels,
             Dial(c) \/ Own(c) \/ Place(c) \/ Route(c) \/ Pick(c) \/ Release(c)
      PROVE  LinkType'
  <2>1. UNCHANGED <<tx, rx, call>>
    BY <1>7, DialRouteFacts, OwnFacts, PlaceFacts, PickFacts, ReleaseFacts
  <2> QED
    BY <2>1
<1>8. CASE UNCHANGED all
  BY <1>8 DEF all, modem
<1> QED
  BY <1>1, <1>2, <1>3, <1>4, <1>5, <1>6, <1>7, <1>8 DEF CallNext, Engage

(* What the reading of a line is. *)
LEMMA ReadCases ==
  ASSUME MeetInv, Read
  PROVE  \E res \in CallLine :
           \/ /\ Dropped(res) /\ link = "up" /\ res = Head(rx) /\ rx # <<>>
              /\ tx' = <<>> /\ rx' = <<>> /\ call' = call
           \/ /\ Reading(res)
              /\ \/ Silent(res) \/ Passed(res) \/ NoAnswer(res) \/ NoDial(res)
                 \/ Ended(res) \/ Failed(res) \/ \E c \in Channels : Taken(res, c)
<1>1. PICK res \in CallLine : res = Head(rx) /\ AtResponse(res)
  BY HeadLine DEF Read, MeetInv
<1>2. /\ link = "up" /\ rx # <<>> /\ call' = call
      /\ rx' = IF link' = "down" THEN <<>> ELSE Tail(rx)
      /\ tx' = IF link' = "down" THEN <<>> ELSE tx
  BY DEF Read
<1>3. CASE Dropped(res)
  BY <1>1, <1>2, <1>3 DEF Dropped
<1>4. CASE \/ Silent(res) \/ Passed(res) \/ NoAnswer(res) \/ NoDial(res)
           \/ Ended(res) \/ Failed(res) \/ \E c \in Channels : Taken(res, c)
  <2>1. link' = link
    BY <1>4 DEF Silent, Passed, NoAnswer, NoDial, Ended, Failed, Cut, Taken
  <2>2. Reading(res)
    BY <1>1, <1>2, <2>1 DEF Reading
  <2> QED
    BY <1>4, <2>2
<1> QED
  BY <1>1, <1>3, <1>4, LineCases DEF MeetInv

(* The step of any actor. *)
LEMMA MeetStep == MeetInv /\ [CallNext]_all => MeetInv'
<1> SUFFICES ASSUME MeetInv, [CallNext]_all PROVE MeetInv'
  OBVIOUS
<1>1. IInv'
  BY CardStep, NextSafe DEF MeetInv
<1>2. LinkType'
  BY LinkTypeKept
<1>3. CASE Connect \/ Start \/ Leave
  BY <1>1, <1>2, <1>3, SessionBasic DEF MeetInv
<1>4. CASE Write
  BY <1>1, <1>2, <1>4, WriteBasic DEF MeetInv
<1>5. CASE Read
  <2>1. PICK res \in CallLine :
           \/ Dropped(res) /\ tx' = <<>> /\ rx' = <<>>
           \/ /\ Reading(res)
              /\ \/ Silent(res) \/ Passed(res) \/ NoAnswer(res) \/ NoDial(res)
                 \/ Ended(res) \/ Failed(res) \/ \E c \in Channels : Taken(res, c)
    BY <1>5, ReadCases
  <2>2. CASE Dropped(res) /\ tx' = <<>> /\ rx' = <<>>
    <3>1. Emptied
      BY <2>2 DEF Dropped
    <3> QED
      BY <1>1, <1>2, <2>2, <3>1, DroppedOwners, EmptiedBasic DEF MeetInv
  <2> QED
    BY <1>1, <1>2, <2>1, <2>2, SilentBasic, PassedBasic, CutBasic, TakenBasic DEF MeetInv
<1>6. CASE Serve
  BY <1>1, <1>2, <1>6, ServeBasic DEF MeetInv
<1>7. CASE NetworkCalls \/ RingsAgain \/ RemoteAnswers \/ RemoteEnds
  BY <1>1, <1>2, <1>7, NetworkBasic DEF MeetInv
<1>8. CASE Unplug
  BY <1>1, <1>2, <1>8, UnplugBasic DEF MeetInv
<1>9. CASE Engage
  BY <1>1, <1>2, <1>9, EngageBasic, PlaceBasic DEF MeetInv, Engage
<1>10. CASE UNCHANGED all
  <2>1. UNCHANGED <<vars, tx, rx, mishaps>> /\ call' = call
    BY <1>10 DEF all, modem
  <2> QED
    BY <1>1, <1>2, <2>1, UnspokenBasic DEF MeetInv
<1> QED
  BY <1>3, <1>4, <1>5, <1>6, <1>7, <1>8, <1>9, <1>10 DEF CallNext

(* The first call finds the card with nothing owed. *)
LEMMA MeetStart == CallInit => MeetInv
<1> SUFFICES ASSUME CallInit PROVE Basic
  BY StartSafe DEF MeetInv
<1>1. /\ link = "up" /\ tx = <<>> /\ rx = <<>> /\ incoming = FALSE /\ outgoing = FALSE
      /\ needchup = FALSE /\ conn = NoConn /\ mishaps = {} /\ queue = <<>> /\ lastcmd = NoCmd
      /\ chan = [c \in Channels |-> "free"]
  BY DEF CallInit
<1>2. Len(rx) = 0 /\ \A k \in 1 .. Len(rx) : FALSE
  BY <1>1
<1>3. Atas = {}
  BY <1>1, CommandType, CallKinds DEF Atas, Slots, Slot
<1> QED
  BY <1>1, <1>2, <1>3
     DEF Basic, LineDown, Reported, CallIn, CallOut, OneSent, AnswerDue, Carried, HangupDue,
         Owned, Owning

(* The invariant, of every behaviour. *)
LEMMA MeetHolds == CallSpec => []MeetInv
BY MeetStart, MeetStep, PTL DEF CallSpec

-----------------------------------------------------------------------------

(* A quiet card with no call has none to hear of and none to dial. *)
LEMMA QuietFree ==
  ASSUME MeetInv, Quiet, call = "none"
  PROVE  /\ ~incoming /\ ~InCall /\ ~DialDue
         /\ Without({"blind"}) => ~outgoing
<1>1. tx = <<>> /\ rx = <<>> /\ queue = <<>> /\ lastcmd = NoCmd
  BY DEF Quiet, Awaiting
<1>2. Len(rx) = 0 /\ Len(tx) = 0 /\ Len(queue) = 0
  BY <1>1
<1>3. ~InCall
  BY <1>2 DEF InCall, EndsAfter
<1>4. ~DialDue
  BY <1>1, <1>2, CommandType DEF DialDue, Dials, Slots, NoCmd
<1> QED
  BY <1>3, <1>4 DEF MeetInv, Basic, CallIn, CallOut

(* isBusy is not true for ever of a card without a call: when all that was *)
(* sent is answered and all that was said is read, m_incoming and          *)
(* m_outgoing are down, whatever calls met, crossed or were cut, unless    *)
(* newCall was made on a card that is not in service.                      *)
THEOREM FreeHolds == CallSpec => []FreeWhenQuiet
<1>1. MeetInv => FreeWhenQuiet
  BY QuietFree DEF FreeWhenQuiet
<1> QED
  BY <1>1, MeetHolds, PTL

(* Nor does such a card owe an AT+CHUP or refuse the next +CLIP: BUSY,     *)
(* NO CARRIER, ^CEND and the destructors use up m_needchup and m_needring. *)
THEOREM NothingOwedHolds == CallSpec => []NothingOwed
<1>1. MeetInv => NothingOwed
  <2> SUFFICES ASSUME MeetInv, Quiet, call = "none", Without({"blind", "stale"})
               PROVE  ~needchup /\ ~needring
    BY DEF NothingOwed
  <2>1. ~needchup
    BY QuietFree DEF MeetInv, Basic, HangupDue
  <2>2. ~needring
    BY QuietFree DEF MeetInv, IInv, ServiceInv, IncomingInService
  <2> QED
    BY <2>1, <2>2
<1> QED
  BY <1>1, MeetHolds, PTL

(* No channel waits on a call that is over: onHangup, the destructor and   *)
(* the disconnect of the card each tell the channel whose call it was.     *)
THEOREM EndsToldHolds == CallSpec => []EndsTold
<1>1. MeetInv => EndsTold
  <2> SUFFICES ASSUME MeetInv, Quiet, call = "none", Without(Meetings), NEW c \in Channels
               PROVE  chan[c] \notin {"in", "out"}
    BY DEF EndsTold, Meetings
  <2>1. chan[c] \in {"in", "out"} => conn = c /\ conn # NoConn
    BY DEF MeetInv, Basic, Owned, Owning, NoConn
  <2>2. Without({"blind"})
    BY DEF MeetInv, Basic, Owned, Without
  <2> QED
    BY <2>1, <2>2, QuietFree DEF MeetInv, Basic, Owned
<1> QED
  BY <1>1, MeetHolds, PTL

-----------------------------------------------------------------------------
(* The invariant behind CallsOwned: who hangs up a call of the modem.      *)

Clean == Without(Meetings \cup {"early", "stale", "undialled"})

Live          == call \in {"dialled", "active"}
Idle          == ~Live /\ ~InRx(Failures)
Owner(states) == conn # NoConn /\ chan[conn] \in states

(* An AT+CHUP in the queue behind slot i. *)
HungUpAfter(i) == \E j \in Chups : i < j

(* A dial is on its way to the modem. *)
Unsent == (\E i \in Dials : i > 0) \/ lastcmd.cmd = "CLIR" \/ (tx # <<>> /\ lastcmd.cmd = "D")

(* One answer at a time is on its way, and only a call is refused. *)
OneAnswer ==
  /\ \A k, l \in 1 .. Len(rx) : rx[k] \in Finals /\ rx[l] \in Finals => k = l
  /\ InRx(Finals) => lastcmd # NoCmd
  /\ InRx({"ERROR"}) => lastcmd.cmd \in {"A", "D"}

(* A call, the news that it failed, and the commands that begin it are     *)
(* what a busy card is busy with.                                          *)
LiveBusy   == Live => incoming \/ outgoing
FailBusy   == InRx(Failures) => incoming \/ outgoing
DialBusy   == Dials # {} => outgoing
AnswerBusy == Atas # {} => incoming

(* A dial finds the modem without a call, and is the only one. *)
OneDial     == \A i, j \in Dials : i = j
DialingIdle == Owner({"dialing"}) => Idle /\ Atas = {}
DialIdle    == Unsent => Idle
RefusedIdle == lastcmd.cmd = "D" /\ InRx({"ERROR"}) => Idle
DialFirst   == (Clirs # {} => Atas = {}) /\ \A i \in Atds, j \in Atas : i < j

(* A ^CEND still to be read before a call of the modem, or before the news *)
(* that it failed, is of an older call: it is read before the answer to    *)
(* the command that began the call.                                        *)
EndsOld ==
  \A k \in 1 .. Len(rx) :
    rx[k] = "CEND" /\ (Live \/ \E l \in 1 .. Len(rx) : k < l /\ rx[l] \in Failures) =>
      lastcmd.cmd \in {"A", "D"} /\ \A l \in 1 .. Len(rx) : rx[l] \in Finals => k < l

(* The command that begins a call, and then the call, has an owner with a  *)
(* peer or an AT+CHUP behind it.                                           *)
DialOwned ==
  /\ \A i \in Clirs : Owner({"out"}) /\ Slot(i).obj = conn
  /\ \A i \in Atds : Owner({"out"}) \/ HungUpAfter(i)
AnswerOwned == \A i \in Atas : Owner({"in"}) \/ HungUpAfter(i)
LiveOwned   == Live => \/ Owner({"in", "out"}) \/ HungUpAfter(0)
                       \/ tx # <<>> /\ lastcmd.cmd = "CHUP"

Calls == /\ OneAnswer /\ LiveBusy /\ FailBusy /\ DialBusy /\ AnswerBusy
         /\ OneDial /\ DialingIdle /\ DialIdle /\ RefusedIdle /\ DialFirst
         /\ EndsOld /\ DialOwned /\ AnswerOwned /\ LiveOwned

OwnInv == MeetInv /\ (Clean => Calls)

(* What a history without those mishaps means for the rest. *)
LEMMA CleanFacts ==
  ASSUME MeetInv, Clean
  PROVE  /\ Without({"stale"}) /\ Without({"blind"}) /\ Without(Meetings)
         /\ incoming \/ outgoing => initialized /\ link = "up"
         /\ \A c \in Channels : chan[c] \in Owning => conn = c
         /\ conn # NoConn =>
              /\ conn \in Channels /\ chan[conn] \in Owning
              /\ chan[conn] = "dialing" => initialized /\ ~outgoing
              /\ chan[conn] \in {"routing", "in"} => incoming /\ needchup
              /\ chan[conn] = "out" => outgoing /\ needchup
         /\ lastcmd = NoCmd => tx = <<>>
         /\ tx # <<>> => Head(tx) = lastcmd /\ Tail(tx) = <<>> /\ lastcmd \in Command
                           /\ ~InRx(Finals)
<1> USE DEF MeetInv, Basic, IInv
<1>1. Without({"stale"}) /\ Without(Meetings)
  BY DEF Clean, Without
<1>2. Without({"blind"})
  BY <1>1 DEF Owned, Without
<1>3. incoming \/ outgoing => initialized /\ link = "up"
  BY <1>2 DEF CallOut, ServiceInv, ReadyHasSms, IncomingInService
<1>4. /\ \A c \in Channels : chan[c] \in Owning => conn = c
      /\ conn # NoConn =>
           /\ conn \in Channels /\ chan[conn] \in Owning
           /\ chan[conn] = "dialing" => initialized /\ ~outgoing
           /\ chan[conn] \in {"routing", "in"} => incoming /\ needchup
           /\ chan[conn] = "out" => outgoing /\ needchup
  BY <1>1 DEF Owned, OwnerAlive, TypeOK
<1> QED
  BY <1>1, <1>2, <1>3, <1>4, TxFacts

(* The exceptions of the invariant are never taken back. *)
LEMMA CleanKept == Kept /\ Clean' => Clean
BY DEF Kept, Clean, Without

(* No call is under way, and none is begun. *)
LEMMA IdleCalls ==
  ASSUME OneAnswer', EndsOld', Idle', Atas' = {}, Clirs' = {}, Atds' = {}, Dials' = {}
  PROVE  Calls'
BY DEF Calls, Idle, LiveBusy, FailBusy, DialBusy, AnswerBusy, OneDial, DialingIdle, DialIdle,
       RefusedIdle, DialFirst, DialOwned, AnswerOwned, LiveOwned

(* Nothing is under way. *)
LEMMA NothingOn ==
  ASSUME ~Live', rx' = <<>>, Atas' = {}, Clirs' = {}, Atds' = {}, Dials' = {}
  PROVE  Calls'
<1>1. Len(rx') = 0 /\ \A k \in 1 .. Len(rx') : FALSE
  OBVIOUS
<1>2. \A L : ~InRx(L)'
  BY <1>1 DEF InRx
<1>3. OneAnswer' /\ EndsOld' /\ Idle'
  BY <1>1, <1>2 DEF OneAnswer, EndsOld, Idle
<1> QED
  BY <1>3, IdleCalls

(* The session begins, or is left. *)
LEMMA SessionCalls ==
  ASSUME OwnInv, Connect \/ Start \/ Leave, Clean'
  PROVE  Calls'
<1>1. Clean /\ Calls /\ MeetInv /\ ~outgoing
  <2>1. mishaps' = mishaps
    BY SessionBasic DEF OwnInv
  <2>2. Clean
    BY <2>1 DEF Clean, Without
  <2> QED
    BY <2>2, SessionBasic, CleanFacts DEF OwnInv
<1>2. ~incoming /\ rx' = <<>> /\ call' = call
  BY <1>1, SessionBasic
<1>3. ~Live /\ Dials = {} /\ Atas = {}
  BY <1>1, <1>2 DEF Calls, LiveBusy, DialBusy, AnswerBusy
<1>4. Clirs = {} /\ Atds = {}
  BY <1>1, <1>3, SlotFacts DEF MeetInv, IInv
<1>5. Atas' = {} /\ Clirs' = {} /\ Atds' = {} /\ Dials' = {}
  BY <1>1, <1>3, <1>4, SessionSlots, CallKinds DEF Atas, Clirs, Atds, Dials, MeetInv, IInv
<1> QED
  BY <1>2, <1>3, <1>5, NothingOn DEF Live

(* The pipe is emptied. *)
LEMMA EmptiedCalls ==
  ASSUME Emptied, rx' = <<>>, ~Live'
  PROVE  Calls'
<1>1. Atas' = {} /\ Clirs' = {} /\ Atds' = {} /\ Dials' = {}
  BY EmptiedSlots, CallKinds DEF Emptied, Atas, Clirs, Atds, Dials
<1> QED
  BY <1>1, NothingOn

(* A session is not dropped while the modem has a call, but for the router. *)
LEMMA DroppedCalls ==
  ASSUME OwnInv, NEW res, Dropped(res), res = Head(rx), rx # <<>>, rx' = <<>>, call' = call,
         Clean'
  PROVE  Calls'
<1>1. Emptied /\ Clean /\ Calls /\ MeetInv
  BY CleanKept DEF Dropped, Emptied, OwnInv
<1>2. ~Live
  <2>1. CASE res = "OK" /\ ~initialized
    BY <1>1, <2>1, CleanFacts DEF Calls, LiveBusy
  <2>2. CASE res = "ERROR" /\ lastcmd.cmd \notin {"A", "D"}
    <3>1. 1 \in 1 .. Len(rx) /\ rx[1] = res
      BY HeadLine DEF MeetInv, OwnInv
    <3>2. InRx({"ERROR"})
      BY <2>2, <3>1 DEF InRx
    <3> QED
      BY <1>1, <2>2, <3>2 DEF Calls, OneAnswer
  <2>3. "unrouted" \notin mishaps'
    BY DEF Clean, Without, Meetings
  <2> QED
    BY <2>1, <2>2, <2>3 DEF Dropped
<1> QED
  BY <1>1, <1>2, EmptiedCalls DEF Live

(* A command is written. *)
LEMMA WriteCalls ==
  ASSUME OwnInv, Write, Clean'
  PROVE  Calls'
<1>1. Clean /\ Calls /\ MeetInv
  <2>1. mishaps' = mishaps
    BY WriteFacts DEF OwnInv
  <2> QED
    BY <2>1 DEF Clean, Without, OwnInv
<1>2. /\ link = "up" /\ lastcmd = NoCmd /\ rx = <<>> /\ lastcmd' \in Command
      /\ UNCHANGED <<link, initialized, conn, chan, incoming, outgoing, needchup, rx, call>>
  BY <1>1, WriteFacts
<1>3. tx = <<>> /\ tx' # <<>>
  <2>1. tx = <<>> /\ tx' = Append(tx, lastcmd')
    BY <1>1, <1>2, CleanFacts, WriteFacts
  <2> QED
    BY <2>1
<1>4. /\ \A i \in Atas' : i \in Nat /\ i + 1 \in Atas
      /\ \A i \in Clirs' : i \in Nat /\ i + 1 \in Clirs
      /\ \A i \in Atds' : i \in Nat /\ i + 1 \in Atds
      /\ \A i \in Dials' : i \in Nat /\ i + 1 \in Dials
      /\ \A i \in Chups : i > 0 /\ i - 1 \in Chups'
      /\ \A i \in 0 .. Len(queue) - 1 : Slot(i)' = Slot(i + 1)
      /\ 0 \in Chups' => lastcmd'.cmd = "CHUP"
      /\ lastcmd'.cmd = "CLIR" => 0 \in Clirs'
      /\ lastcmd'.cmd = "D" => 0 \in Atds'
  BY <1>1, WriteSlots
<1>5. /\ Len(queue) \in Nat /\ Dials = Clirs \cup Atds
      /\ \A i \in Atas \cup Dials \cup Chups : i \in 0 .. Len(queue)
  BY <1>1, SlotFacts DEF MeetInv, IInv
<1>6. Len(rx) = 0 /\ (\A k \in 1 .. Len(rx)' : FALSE) /\ Len(rx)' = 0
  BY <1>2
<1>7. \A L : ~InRx(L)'
  BY <1>6 DEF InRx
<1>8. OneAnswer' /\ EndsOld' /\ FailBusy' /\ RefusedIdle'
  BY <1>6, <1>7 DEF OneAnswer, EndsOld, FailBusy, RefusedIdle
<1>9. LiveBusy' /\ DialBusy' /\ AnswerBusy'
  <2>1. (Dials' # {} => Dials # {}) /\ (Atas' # {} => Atas # {})
    BY <1>4
  <2> QED
    BY <1>1, <1>2, <2>1 DEF Calls, LiveBusy, DialBusy, AnswerBusy, Live
<1>10. OneDial'
  <2> SUFFICES ASSUME NEW i \in Dials', NEW j \in Dials' PROVE i = j
    BY DEF OneDial
  <2>1. i \in Nat /\ j \in Nat /\ i + 1 = j + 1
    BY <1>1, <1>4 DEF Calls, OneDial
  <2> QED
    BY <2>1
<1>11. Idle => Idle'
  BY <1>2, <1>7 DEF Idle, Live
<1>12. DialingIdle'
  BY <1>1, <1>2, <1>4, <1>11 DEF Calls, DialingIdle, Owner
<1>13. DialIdle'
  <2>1. ASSUME NEW i \in Dials' PROVE Unsent
    <3>1. i + 1 \in Dials /\ i + 1 > 0
      BY <1>4
    <3> QED
      BY <3>1 DEF Unsent
  <2>2. Unsent' => Dials' # {}
    <3>1. lastcmd'.cmd \in {"CLIR", "D"} => \E i \in Clirs \cup Atds : TRUE
      BY <1>4
    <3>2. lastcmd'.cmd \in {"CLIR", "D"} => 0 \in Dials'
      BY <1>4 DEF Dials, Clirs, Atds, Slots
    <3> QED
      BY <3>2 DEF Unsent
  <2> QED
    BY <1>1, <1>11, <2>1, <2>2 DEF Calls, DialIdle
<1>14. DialFirst'
  <2>1. Clirs' # {} => Atas' = {}
    BY <1>1, <1>4 DEF Calls, DialFirst
  <2>2. ASSUME NEW i \in Atds', NEW j \in Atas' PROVE i < j
    <3>1. i \in Nat /\ j \in Nat /\ i + 1 < j + 1
      BY <1>1, <1>4 DEF Calls, DialFirst
    <3> QED
      BY <3>1
  <2> QED
    BY <2>1, <2>2 DEF DialFirst
<1>15. ASSUME NEW i \in Nat, HungUpAfter(i + 1) PROVE HungUpAfter(i)'
  <2>1. PICK j \in Chups : i + 1 < j
    BY <1>15 DEF HungUpAfter
  <2>2. j - 1 \in Chups' /\ i < j - 1
    <3>1. j \in Nat
      BY <1>5
    <3> QED
      BY <1>4, <2>1, <3>1
  <2> QED
    BY <2>2 DEF HungUpAfter
<1>16. DialOwned'
  <2>1. ASSUME NEW i \in Clirs' PROVE Owner({"out"})' /\ Slot(i)'.obj = conn'
    <3>1. i \in Nat /\ i + 1 \in Clirs /\ i + 1 \in 0 .. Len(queue)
      BY <1>4, <1>5
    <3>2. i \in 0 .. Len(queue) - 1
      BY <1>5, <3>1
    <3> QED
      BY <1>1, <1>2, <1>4, <3>1, <3>2 DEF Calls, DialOwned, Owner
  <2>2. ASSUME NEW i \in Atds' PROVE Owner({"out"})' \/ HungUpAfter(i)'
    <3>1. Owner({"out"}) \/ HungUpAfter(i + 1)
      BY <1>1, <1>4 DEF Calls, DialOwned
    <3> QED
      BY <1>2, <1>4, <1>15, <3>1 DEF Owner
  <2> QED
    BY <2>1, <2>2 DEF DialOwned
<1>17. AnswerOwned'
  <2>1. ASSUME NEW i \in Atas' PROVE Owner({"in"})' \/ HungUpAfter(i)'
    <3>1. Owner({"in"}) \/ HungUpAfter(i + 1)
      BY <1>1, <1>4 DEF Calls, AnswerOwned
    <3> QED
      BY <1>2, <1>4, <1>15, <3>1 DEF Owner
  <2> QED
    BY <2>1 DEF AnswerOwned
<1>18. LiveOwned'
  <2>1. ASSUME HungUpAfter(0) PROVE HungUpAfter(0)' \/ lastcmd'.cmd = "CHUP"
    <3>1. PICK j \in Chups : 0 < j
      BY <2>1 DEF HungUpAfter
    <3>2. j - 1 \in Chups' /\ (j - 1 = 0 \/ 0 < j - 1)
      <4>1. j \in Nat
        BY <1>5
      <4> QED
        BY <1>4, <3>1, <4>1
    <3> QED
      BY <1>4, <3>2 DEF HungUpAfter
  <2> QED
    BY <1>1, <1>2, <1>3, <2>1 DEF Calls, LiveOwned, Live, Owner
<1> QED
  BY <1>8, <1>9, <1>10, <1>12, <1>13, <1>14, <1>16, <1>17, <1>18 DEF Calls

(* A line is read: the answer of one command, and the ends of older calls. *)
LEMMA ReadClean ==
  ASSUME OwnInv, Clean, NEW res, Reading(res),
         lastcmd' = lastcmd \/ (res \in Finals /\ lastcmd' = NoCmd)
  PROVE  /\ Calls /\ OneAnswer' /\ EndsOld' /\ Live' = Live /\ (Idle => Idle')
         /\ \A L : (InRx(L)' => InRx(L)) /\ (res \in L => InRx(L))
         /\ res \in Finals => tx = <<>>
         /\ res = "CEND" /\ ~Idle' => lastcmd.cmd \in {"A", "D"}
<1> USE DEF Reading
<1>1. /\ Len(rx) \in Nat /\ 1 \in 1 .. Len(rx) /\ rx[1] = res
      /\ \A n \in 1 .. Len(rx)' : n + 1 \in 1 .. Len(rx) /\ rx'[n] = rx[n + 1]
      /\ \A L : InRx(L)' => InRx(L)
  BY ReadRx DEF MeetInv
<1>2. \A L : res \in L => InRx(L)
  BY <1>1 DEF InRx
<1>3. Calls /\ OneAnswer /\ EndsOld
  BY DEF OwnInv, Calls
<1>4. \A n \in 1 .. Len(rx)' : n \in Nat /\ n + 1 # 1 /\ 1 < n + 1
  OBVIOUS
<1>5. res \in Finals => ~InRx(Finals)'
  <2> SUFFICES ASSUME res \in Finals, NEW n \in 1 .. Len(rx)', rx'[n] \in Finals PROVE FALSE
    BY DEF InRx
  <2> QED
    BY <1>1, <1>3, <1>4 DEF OneAnswer
<1>6. OneAnswer'
  <2>1. ASSUME NEW k \in 1 .. Len(rx)', NEW l \in 1 .. Len(rx)', rx'[k] \in Finals,
               rx'[l] \in Finals
        PROVE  k = l
    <3>1. k + 1 = l + 1
      BY <1>1, <1>3, <2>1 DEF OneAnswer
    <3> QED
      BY <1>4, <3>1
  <2>2. InRx({"ERROR"})' => InRx(Finals)'
    BY DEF InRx, Finals
  <2> QED
    BY <1>1, <1>3, <1>5, <2>1, <2>2 DEF OneAnswer
<1>7. Live' = Live
  BY DEF Live
<1>8. EndsOld'
  <2> SUFFICES ASSUME NEW k \in 1 .. Len(rx)', rx'[k] = "CEND",
                      Live \/ \E l \in 1 .. Len(rx)' : k < l /\ rx'[l] \in Failures
               PROVE  /\ lastcmd'.cmd \in {"A", "D"}
                      /\ \A l \in 1 .. Len(rx)' : rx'[l] \in Finals => k < l
    BY <1>7 DEF EndsOld
  <2>1. k + 1 \in 1 .. Len(rx) /\ rx[k + 1] = "CEND"
    BY <1>1
  <2>2. ASSUME NEW l \in 1 .. Len(rx)', k < l PROVE k + 1 < l + 1
    BY <1>4, <2>2
  <2>3. Live \/ \E l \in 1 .. Len(rx) : k + 1 < l /\ rx[l] \in Failures
    BY <1>1, <2>2
  <2>4. /\ lastcmd.cmd \in {"A", "D"}
        /\ \A l \in 1 .. Len(rx) : rx[l] \in Finals => k + 1 < l
    BY <1>3, <2>1, <2>3 DEF EndsOld
  <2>5. res \notin Finals
    BY <1>1, <1>4, <2>4
  <2>6. ASSUME NEW l \in 1 .. Len(rx)', rx'[l] \in Finals PROVE k < l
    <3>1. k + 1 < l + 1
      BY <1>1, <2>4, <2>6
    <3> QED
      BY <1>4, <3>1
  <2> QED
    BY <2>4, <2>5, <2>6
<1>9. res \in Finals => tx = <<>>
  BY <1>2, CleanFacts DEF OwnInv
<1>10. ASSUME res = "CEND", ~Idle' PROVE lastcmd.cmd \in {"A", "D"}
  <2>1. Live \/ InRx(Failures)'
    BY <1>7, <1>10 DEF Idle
  <2>2. Live \/ \E l \in 1 .. Len(rx) : 1 < l /\ rx[l] \in Failures
    BY <1>1, <1>4, <2>1 DEF InRx
  <2> QED
    BY <1>1, <1>3, <1>10, <2>2 DEF EndsOld
<1> QED
  BY <1>1, <1>2, <1>3, <1>6, <1>7, <1>8, <1>9, <1>10 DEF Idle

(* An AT+CHUP that is not yet sent stays in the queue. *)
LEMMA HungKept ==
  ASSUME TypeOK, \A i \in Chups : i > 0 => i \in Chups'
  PROVE  \A i \in Nat : HungUpAfter(i) => HungUpAfter(i)'
<1> SUFFICES ASSUME NEW i \in Nat, NEW j \in Chups, i < j PROVE HungUpAfter(i)'
  BY DEF HungUpAfter
<1>1. j \in 0 .. Len(queue) /\ Len(queue) \in Nat
  BY SlotFacts
<1>2. j > 0
  BY <1>1
<1> QED
  BY <1>2 DEF HungUpAfter

(* Where the commands that begin calls are. *)
LEMMA DialPlaces ==
  ASSUME TypeOK
  PROVE  /\ Clirs \subseteq Dials /\ Atds \subseteq Dials
         /\ \A i \in Atas \cup Dials : i \in Nat /\ i \in 0 .. Len(queue) /\ (i = 0 \/ i > 0)
         /\ \A i \in Clirs : i > 0 \/ lastcmd.cmd = "CLIR"
         /\ \A i \in Atds : i > 0 \/ lastcmd.cmd = "D"
<1>1. \A i \in 0 .. Len(queue) : i \in Nat /\ (i = 0 \/ i > 0)
  BY SlotFacts
<1> QED
  BY <1>1, SlotFacts

(* No call begins and no command is added; the owner stays. *)
LEMMA NothingAdded ==
  ASSUME OwnInv, Clean, OneAnswer', EndsOld',
         incoming => incoming', outgoing => outgoing',
         Live' => Live, InRx(Failures)' => ~Idle,
         lastcmd'.cmd = "D" /\ InRx({"ERROR"})' => Idle,
         Atas' \subseteq Atas, Clirs' \subseteq Clirs, Atds' \subseteq Atds, Dials' \subseteq Dials,
         \A i \in Chups : i > 0 => i \in Chups',
         \A i \in Clirs' : Slot(i)' = Slot(i),
         lastcmd' \in {lastcmd, NoCmd}, tx' # <<>> => tx # <<>>,
         Live' /\ tx # <<>> /\ lastcmd.cmd = "CHUP" => tx' # <<>> /\ lastcmd' = lastcmd,
         Owner({"in"}) => Owner({"in"})',
         Owner({"out"}) => Owner({"out"})' /\ conn' = conn,
         Owner({"dialing"})' => Idle /\ Atas = {}
  PROVE  Calls'
<1>1. Calls /\ TypeOK
  BY DEF OwnInv, MeetInv, IInv
<1>2. Idle => Idle'
  BY DEF Idle
<1>3. LiveBusy' /\ FailBusy' /\ DialBusy' /\ AnswerBusy'
  BY <1>1 DEF Calls, LiveBusy, FailBusy, DialBusy, AnswerBusy, Idle
<1>4. OneDial' /\ DialFirst'
  BY <1>1 DEF Calls, OneDial, DialFirst
<1>5. DialingIdle' /\ RefusedIdle'
  BY <1>2 DEF DialingIdle, RefusedIdle
<1>6. DialIdle'
  <2>1. NoCmd.cmd \notin {"CLIR", "D"}
    BY CommandType
  <2>2. Unsent' => Unsent
    BY <2>1 DEF Unsent
  <2> QED
    BY <1>1, <1>2, <2>2 DEF Calls, DialIdle
<1>7. \A i \in Nat : HungUpAfter(i) => HungUpAfter(i)'
  BY <1>1, HungKept
<1>8. DialOwned' /\ AnswerOwned'
  BY <1>1, <1>7, DialPlaces DEF Calls, DialOwned, AnswerOwned
<1>9. LiveOwned'
  <2>1. Owner({"in", "out"}) => Owner({"in", "out"})'
    <3>1. Owner({"in", "out"}) => Owner({"in"}) \/ Owner({"out"})
      BY DEF Owner
    <3>2. Owner({"in"})' \/ Owner({"out"})' => Owner({"in", "out"})'
      BY DEF Owner
    <3> QED
      BY <3>1, <3>2
  <2>2. 0 \in Nat
    OBVIOUS
  <2> QED
    BY <1>1, <1>7, <2>1, <2>2 DEF Calls, LiveOwned
<1> QED
  BY <1>3, <1>4, <1>5, <1>6, <1>8, <1>9 DEF Calls

(* A silent line. *)
LEMMA SilentCalls ==
  ASSUME OwnInv, NEW res, Reading(res), Silent(res), Clean'
  PROVE  Calls'
<1>1. Clean /\ TypeOK
  BY CleanKept DEF Silent, OwnInv, MeetInv, IInv
<1>2. /\ UNCHANGED <<conn, chan, outgoing, tx, call>> /\ (incoming => incoming')
      /\ res # "CEND"
      /\ lastcmd' = lastcmd \/ (res \in Finals /\ lastcmd' = NoCmd)
  BY DEF Silent, Reading
<1>3. /\ Calls /\ OneAnswer' /\ EndsOld' /\ Live' = Live
      /\ \A L : InRx(L)' => InRx(L)
      /\ res \in Finals => tx = <<>>
  BY <1>1, <1>2, ReadClean
<1>4. /\ Atas' \subseteq Atas /\ Clirs' \subseteq Clirs /\ Atds' \subseteq Atds
      /\ Dials' \subseteq Dials
      /\ \A i \in Chups : i > 0 => i \in Chups'
      /\ \A i \in Clirs' : Slot(i)' = Slot(i)
  BY <1>1, SilentSlots
<1>5. /\ \A S : Owner(S)' = Owner(S)
      /\ NoCmd.cmd # "D"
  BY <1>2, CommandType DEF Owner
<1>6. lastcmd'.cmd = "D" /\ InRx({"ERROR"})' => Idle
  BY <1>2, <1>3, <1>5 DEF Calls, RefusedIdle
<1>7. Owner({"dialing"})' => Idle /\ Atas = {}
  BY <1>3, <1>5 DEF Calls, DialingIdle
<1>8. InRx(Failures)' => ~Idle
  BY <1>3 DEF Idle
<1> QED
  BY <1>1, <1>2, <1>3, <1>4, <1>5, <1>6, <1>7, <1>8, NothingAdded

(* The answer to AT+CLIR: its ATD is the only dial. *)
LEMMA PassedCalls ==
  ASSUME OwnInv, NEW res, Reading(res), Passed(res), Clean'
  PROVE  Calls'
<1>1. Clean /\ TypeOK
  BY CleanKept DEF Passed, OwnInv, MeetInv, IInv
<1>2. /\ UNCHANGED <<conn, chan, incoming, outgoing, tx, call>>
      /\ res \in Finals /\ lastcmd' = NoCmd /\ lastcmd.cmd = "CLIR"
  BY DEF Passed, Reading
<1>3. Calls /\ OneAnswer' /\ EndsOld' /\ (Idle => Idle')
  BY <1>1, <1>2, ReadClean
<1>4. Idle'
  BY <1>2, <1>3 DEF Calls, DialIdle, Unsent
<1>5. /\ 0 \in Clirs /\ Atas' = Atas /\ Clirs' = Clirs \ {0}
      /\ Atds' = Atds \cup {Len(queue) + 1} /\ Dials' = (Dials \ {0}) \cup {Len(queue) + 1}
      /\ Clirs \subseteq Dials /\ Atds \subseteq Dials /\ 0 \notin Atds
  BY <1>1, <1>2, PassedSlots, DialPlaces, SlotFacts
<1>6. Dials \subseteq {0}
  BY <1>3, <1>5 DEF Calls, OneDial
<1>7. Atas' = {} /\ Clirs' = {} /\ Atds' = {Len(queue) + 1} /\ Dials' = {Len(queue) + 1}
  BY <1>3, <1>5, <1>6 DEF Calls, DialFirst
<1>8. outgoing' /\ Owner({"out"})'
  BY <1>2, <1>3, <1>5 DEF Calls, DialBusy, DialOwned, Owner
<1> QED
  BY <1>3, <1>4, <1>7, <1>8
     DEF Calls, Idle, LiveBusy, FailBusy, DialBusy, AnswerBusy, OneDial, DialingIdle, DialIdle,
         RefusedIdle, DialFirst, DialOwned, AnswerOwned, LiveOwned

(* Hangup, with no ATA in the pipe. *)
LEMMA CutFacts ==
  ASSUME OwnInv, NEW res, NEW chup \in BOOLEAN, Reading(res), Cut(res, chup), Clean'
  PROVE  /\ Clean /\ Atas = {} /\ lastcmd.cmd # "A" /\ conn' = NoConn /\ TypeOK
         /\ res = "CEND" => Dials = {}
         /\ UNCHANGED <<tx, call>>
         /\ NoCmd.cmd \notin {"A", "D", "CLIR"}
<1>1. EndNoted(res) /\ conn' = NoConn
  BY DEF Cut
<1>2. "stale" \notin mishaps' /\ "undialled" \notin mishaps'
  BY DEF Clean, Without
<1>3. Clean /\ Atas = {} /\ (res = "CEND" => Dials = {})
  BY <1>1, <1>2, NotedEnd, CleanKept
<1> QED
  BY <1>1, <1>3, SlotFacts, CommandType DEF OwnInv, MeetInv, IInv, Reading

(* ^CEND *)
LEMMA EndedCalls ==
  ASSUME OwnInv, NEW res, Reading(res), Ended(res), Clean'
  PROVE  Calls'
<1>1. res = "CEND" /\ Cut(res, FALSE) /\ lastcmd' = lastcmd
  BY DEF Ended
<1>2. Clean /\ Atas = {} /\ Dials = {} /\ TypeOK /\ lastcmd.cmd # "A"
  BY <1>1, CutFacts
<1>3. lastcmd.cmd # "D" /\ Clirs = {} /\ Atds = {}
  BY <1>2, SlotFacts
<1>4. OneAnswer' /\ EndsOld' /\ Idle'
  BY <1>1, <1>2, <1>3, ReadClean
<1>5. Atas' = {} /\ Clirs' = {} /\ Atds' = {} /\ Dials' = {}
  BY <1>1, <1>2, <1>3, CutSlots
<1> QED
  BY <1>4, <1>5, IdleCalls

(* BUSY and NO CARRIER: an AT+CHUP goes behind the call that failed. *)
LEMMA FailedCalls ==
  ASSUME OwnInv, NEW res, Reading(res), Failed(res), Clean'
  PROVE  Calls'
<1>1. /\ res \in Failures /\ Cut(res, TRUE) /\ UNCHANGED <<incoming, outgoing>>
      /\ lastcmd' = lastcmd \/ lastcmd.cmd = "A"
  BY DEF Failed
<1>2. /\ Clean /\ Atas = {} /\ TypeOK /\ lastcmd' = lastcmd /\ conn' = NoConn
      /\ UNCHANGED <<tx, call>>
  BY <1>1, CutFacts
<1>3. /\ Calls /\ OneAnswer' /\ EndsOld' /\ Live' = Live
      /\ \A L : (InRx(L)' => InRx(L)) /\ (res \in L => InRx(L))
  BY <1>2, ReadClean
<1>4. ~Idle
  BY <1>1, <1>3 DEF Idle
<1>5. ~Unsent
  BY <1>3, <1>4 DEF Calls, DialIdle
<1>6. Clirs = {}
  BY <1>2, <1>5, DialPlaces DEF Unsent
<1>7. /\ Atas' = {} /\ Clirs' = {} /\ Atds' = Atds /\ Dials' = Dials
      /\ \A i \in Chups : i > 0 => i \in Chups'
      /\ conn # NoConn => Len(queue) + 1 \in Chups'
      /\ Len(queue) \in Nat
  BY <1>1, <1>2, <1>6, CutSlots
<1>8. \A i \in Nat : HungUpAfter(i) => HungUpAfter(i)'
  BY <1>2, <1>7, HungKept
<1>9. \A i \in 0 .. Len(queue) : i \in Nat /\ (conn # NoConn => HungUpAfter(i)')
  <2>1. \A i \in 0 .. Len(queue) : i \in Nat /\ i < Len(queue) + 1
    BY <1>7
  <2> QED
    BY <1>7, <2>1 DEF HungUpAfter
<1>10. LiveBusy' /\ FailBusy' /\ DialBusy' /\ AnswerBusy' /\ OneDial' /\ DialFirst'
  BY <1>1, <1>3, <1>7
     DEF Calls, LiveBusy, FailBusy, DialBusy, AnswerBusy, OneDial, DialFirst
<1>11. DialingIdle'
  BY <1>2 DEF DialingIdle, Owner
<1>12. DialIdle' /\ RefusedIdle'
  BY <1>2, <1>3, <1>4, <1>5, <1>7 DEF Calls, DialIdle, Unsent, RefusedIdle
<1>13. DialOwned'
  <2> SUFFICES ASSUME NEW i \in Atds PROVE HungUpAfter(i)'
    BY <1>7 DEF DialOwned
  <2>1. Owner({"out"}) \/ HungUpAfter(i)
    BY <1>3 DEF Calls, DialOwned
  <2>2. i \in 0 .. Len(queue) /\ i \in Nat
    BY <1>2, DialPlaces
  <2> QED
    BY <1>8, <1>9, <2>1, <2>2 DEF Owner
<1>14. AnswerOwned'
  BY <1>7 DEF AnswerOwned
<1>15. LiveOwned'
  <2>1. 0 \in 0 .. Len(queue)
    BY <1>7
  <2> QED
    BY <1>2, <1>3, <1>8, <1>9, <2>1 DEF Calls, LiveOwned, Owner
<1> QED
  BY <1>3, <1>10, <1>11, <1>12, <1>13, <1>14, <1>15 DEF Calls

(* ERROR to a dial: it was the only one. *)
LEMMA NoDialCalls ==
  ASSUME OwnInv, NEW res, Reading(res), NoDial(res), Clean'
  PROVE  Calls'
<1>1. /\ res = "ERROR" /\ res \in Finals /\ Cut(res, FALSE) /\ lastcmd' = NoCmd
      /\ lastcmd.cmd = "D"
  BY DEF NoDial, Finals
<1>2. Clean /\ Atas = {} /\ TypeOK /\ NoCmd.cmd # "D"
  BY <1>1, CutFacts
<1>3. Calls /\ OneAnswer' /\ EndsOld' /\ (Idle => Idle') /\ InRx({"ERROR"})
  BY <1>1, <1>2, ReadClean
<1>4. Idle'
  BY <1>1, <1>3 DEF Calls, RefusedIdle
<1>5. 0 \in Atds /\ 0 \notin Clirs /\ Clirs \subseteq Dials /\ Atds \subseteq Dials
  BY <1>1, <1>2, SlotFacts, DialPlaces
<1>6. Dials = {0} /\ Atds = {0} /\ Clirs = {}
  BY <1>3, <1>5 DEF Calls, OneDial
<1>7. lastcmd' # lastcmd
  BY <1>1, <1>2
<1>8. Atas' = {} /\ Clirs' = {} /\ Atds' = {} /\ Dials' = {}
  BY <1>1, <1>2, <1>6, <1>7, CutSlots
<1> QED
  BY <1>3, <1>4, <1>8, IdleCalls

(* +CLIP on a card that no channel owns. *)
LEMMA TakenCalls ==
  ASSUME OwnInv, NEW res, Reading(res), NEW c \in Channels, Taken(res, c), Clean'
  PROVE  Calls'
<1>1. Clean /\ TypeOK /\ conn = NoConn /\ NoConn \notin Channels
  <2>1. "overlap" \notin mishaps'
    BY DEF Clean, Without, Meetings
  <2> QED
    BY <2>1, CleanKept DEF Taken, OwnInv, MeetInv, IInv, NoConn
<1>2. /\ UNCHANGED <<queue, lastcmd, outgoing, tx, call>> /\ incoming' /\ res = "CLIP"
      /\ conn' = c /\ chan'[c] = "routing"
  BY <1>1 DEF Taken, Reading, TypeOK
<1>3. Calls /\ OneAnswer' /\ EndsOld' /\ Live' = Live /\ \A L : InRx(L)' => InRx(L)
  BY <1>1, <1>2, ReadClean
<1>4. /\ Atas' = Atas /\ Clirs' = Clirs /\ Atds' = Atds /\ Dials' = Dials /\ Chups' = Chups
      /\ \A i \in Nat : Slot(i)' = Slot(i)
  BY <1>2, SameSlots
<1>5. \A i \in Clirs' : Slot(i)' = Slot(i)
  BY <1>1, <1>4, DialPlaces
<1>6. (\A S : ~Owner(S)) /\ ~Owner({"dialing"})'
  BY <1>1, <1>2 DEF Owner
<1>7. /\ lastcmd'.cmd = "D" /\ InRx({"ERROR"})' => Idle
      /\ InRx(Failures)' => ~Idle
  BY <1>2, <1>3 DEF Calls, RefusedIdle, Idle
<1> QED
  BY <1>1, <1>2, <1>3, <1>4, <1>5, <1>6, <1>7, NothingAdded

(* Any line. *)
LEMMA ReadCalls ==
  ASSUME OwnInv, Read, Clean'
  PROVE  Calls'
<1>1. PICK res \in CallLine :
         \/ /\ Dropped(res) /\ link = "up" /\ res = Head(rx) /\ rx # <<>>
            /\ tx' = <<>> /\ rx' = <<>> /\ call' = call
         \/ /\ Reading(res)
            /\ \/ Silent(res) \/ Passed(res) \/ NoAnswer(res) \/ NoDial(res)
               \/ Ended(res) \/ Failed(res) \/ \E c \in Channels : Taken(res, c)
  BY ReadCases DEF OwnInv
<1>2. ASSUME Reading(res), NoAnswer(res) PROVE FALSE
  <2>1. needchup \in BOOLEAN /\ Cut(res, needchup) /\ lastcmd.cmd = "A"
    BY <1>2 DEF NoAnswer, OwnInv, MeetInv, IInv, TypeOK
  <2> QED
    BY <1>2, <2>1, CutFacts
<1> QED
  BY <1>1, <1>2, DroppedCalls, SilentCalls, PassedCalls, NoDialCalls, EndedCalls, FailedCalls,
     TakenCalls

-----------------------------------------------------------------------------
(* The modem and the network, and who hangs up.                            *)

(* The lines of a modem that says something. *)
LEMMA SpokenLines ==
  ASSUME OwnInv, NEW lines, Spoken(lines)
  PROVE  /\ \A L : InRx(L)' <=> InRx(L) \/ \E n \in 1 .. Len(lines) : lines[n] \in L
         /\ \A k \in 1 .. Len(rx)' :
              \/ k \in 1 .. Len(rx) /\ rx'[k] = rx[k]
              \/ /\ k \notin 1 .. Len(rx) /\ k - Len(rx) \in 1 .. Len(lines)
                 /\ rx'[k] = lines[k - Len(rx)]
         /\ \A k, l \in 1 .. Len(rx)' : /\ k < l /\ l \in 1 .. Len(rx) => k \in 1 .. Len(rx)
                                        /\ k \in 1 .. Len(rx) /\ l \notin 1 .. Len(rx) => k < l
                                        /\ k - Len(rx) = l - Len(rx) => k = l
                                        /\ k - Len(rx) = Len(lines) => ~(k < l)
<1>1. /\ Grown(lines) /\ Len(rx) \in Nat /\ Len(lines) \in Nat
      /\ \A L : InRx(L)' <=> InRx(L) \/ \E n \in 1 .. Len(lines) : lines[n] \in L
  BY HeardRx DEF Spoken, OwnInv, MeetInv
<1>2. \A k \in 1 .. Len(rx)' :
        \/ k \in 1 .. Len(rx) /\ rx'[k] = rx[k]
        \/ /\ k \notin 1 .. Len(rx) /\ k - Len(rx) \in 1 .. Len(lines)
           /\ rx'[k] = lines[k - Len(rx)]
  BY <1>1 DEF Grown
<1>3. Len(rx)' = Len(rx) + Len(lines)
  BY <1>1 DEF Grown
<1>4. \A k, l \in 1 .. Len(rx) + Len(lines) :
        /\ k < l /\ l \in 1 .. Len(rx) => k \in 1 .. Len(rx)
        /\ k \in 1 .. Len(rx) /\ l \notin 1 .. Len(rx) => k < l
        /\ k - Len(rx) = l - Len(rx) => k = l
        /\ k - Len(rx) = Len(lines) => ~(k < l)
  BY <1>1
<1> QED
  BY <1>1, <1>2, <1>3, <1>4

(* What the modem says unasked: an end comes last, and what failed had     *)
(* been a call.                                                            *)
LEMMA UnaskedRx ==
  ASSUME OwnInv, Clean, NEW lines, Spoken(lines), Live' => Live,
         \A n \in 1 .. Len(lines) : /\ lines[n] \notin Finals
                                    /\ lines[n] \in Failures => Live
                                    /\ lines[n] = "CEND" => n = Len(lines) /\ ~Live'
  PROVE  /\ OneAnswer' /\ EndsOld' /\ (InRx(Failures)' => ~Idle)
         /\ InRx({"ERROR"})' => InRx({"ERROR"})
<1>1. /\ \A L : InRx(L)' <=> InRx(L) \/ \E n \in 1 .. Len(lines) : lines[n] \in L
      /\ \A k \in 1 .. Len(rx)' :
           \/ k \in 1 .. Len(rx) /\ rx'[k] = rx[k]
           \/ /\ k \notin 1 .. Len(rx) /\ k - Len(rx) \in 1 .. Len(lines)
              /\ rx'[k] = lines[k - Len(rx)]
      /\ \A k, l \in 1 .. Len(rx)' : /\ k < l /\ l \in 1 .. Len(rx) => k \in 1 .. Len(rx)
                                     /\ k - Len(rx) = Len(lines) => ~(k < l)
  BY SpokenLines
<1>2. OneAnswer /\ EndsOld /\ lastcmd' = lastcmd
  BY CardUntouched DEF OwnInv, Calls, Spoken
<1>3. (InRx(Finals)' => InRx(Finals)) /\ (InRx({"ERROR"})' => InRx({"ERROR"}))
  BY <1>1 DEF Finals
<1>4. InRx(Failures)' => ~Idle
  BY <1>1 DEF Idle
<1>5. \A k \in 1 .. Len(rx)' : rx'[k] \in Finals => k \in 1 .. Len(rx) /\ rx[k] \in Finals
  BY <1>1
<1>6. OneAnswer'
  BY <1>2, <1>3, <1>5 DEF OneAnswer
<1>7. EndsOld'
  <2> SUFFICES ASSUME NEW k \in 1 .. Len(rx)', rx'[k] = "CEND",
                      Live' \/ \E l \in 1 .. Len(rx)' : k < l /\ rx'[l] \in Failures
               PROVE  /\ lastcmd.cmd \in {"A", "D"}
                      /\ \A l \in 1 .. Len(rx)' : rx'[l] \in Finals => k < l
    BY <1>2 DEF EndsOld
  <2>1. k \in 1 .. Len(rx) /\ rx[k] = "CEND"
    <3>1. k \notin 1 .. Len(rx) => k - Len(rx) = Len(lines) /\ ~Live'
      BY <1>1
    <3> QED
      BY <1>1, <3>1
  <2>2. Live \/ \E l \in 1 .. Len(rx) : k < l /\ rx[l] \in Failures
    BY <1>1
  <2> QED
    BY <1>2, <1>5, <2>1, <2>2 DEF EndsOld
<1> QED
  BY <1>3, <1>4, <1>6, <1>7

(* What the modem says to a command: one answer, that of the command       *)
(* awaited.                                                                *)
LEMMA AskedRx ==
  ASSUME OwnInv, Clean, NEW lines, Spoken(lines), ~InRx(Finals), lastcmd # NoCmd,
         \A k, l \in 1 .. Len(lines) : lines[k] \in Finals /\ lines[l] \in Finals => k = l,
         \A n \in 1 .. Len(lines) : lines[n] = "ERROR" => lastcmd.cmd \in {"A", "D"},
         \/ lastcmd.cmd \in {"A", "D"} /\ \A n \in 1 .. Len(lines) : lines[n] # "CEND"
         \/ /\ Live' => Live
            /\ \A n \in 1 .. Len(lines) :
                 lines[n] \notin Failures /\ (lines[n] = "CEND" => ~Live')
  PROVE  OneAnswer' /\ EndsOld'
<1>1. /\ \A L : InRx(L)' <=> InRx(L) \/ \E n \in 1 .. Len(lines) : lines[n] \in L
      /\ \A k \in 1 .. Len(rx)' :
           \/ k \in 1 .. Len(rx) /\ rx'[k] = rx[k]
           \/ /\ k \notin 1 .. Len(rx) /\ k - Len(rx) \in 1 .. Len(lines)
              /\ rx'[k] = lines[k - Len(rx)]
      /\ \A k, l \in 1 .. Len(rx)' : /\ k < l /\ l \in 1 .. Len(rx) => k \in 1 .. Len(rx)
                                     /\ k \in 1 .. Len(rx) /\ l \notin 1 .. Len(rx) => k < l
                                     /\ k - Len(rx) = l - Len(rx) => k = l
  BY SpokenLines
<1>2. EndsOld /\ lastcmd' = lastcmd
  BY CardUntouched DEF OwnInv, Calls, Spoken
<1>3. ~InRx({"ERROR"})
  BY DEF InRx, Finals
<1>4. \A k \in 1 .. Len(rx)' :
        rx'[k] \in Finals => /\ k \notin 1 .. Len(rx) /\ k - Len(rx) \in 1 .. Len(lines)
                             /\ lines[k - Len(rx)] \in Finals
  BY <1>1 DEF InRx
<1>5. OneAnswer'
  <2>1. \A k, l \in 1 .. Len(rx)' : rx'[k] \in Finals /\ rx'[l] \in Finals => k = l
    BY <1>1, <1>4
  <2>2. InRx({"ERROR"})' => lastcmd.cmd \in {"A", "D"}
    BY <1>1, <1>3
  <2> QED
    BY <1>2, <2>1, <2>2 DEF OneAnswer
<1>6. EndsOld'
  <2> SUFFICES ASSUME NEW k \in 1 .. Len(rx)', rx'[k] = "CEND",
                      Live' \/ \E l \in 1 .. Len(rx)' : k < l /\ rx'[l] \in Failures
               PROVE  /\ lastcmd.cmd \in {"A", "D"} /\ k \in 1 .. Len(rx)
    BY <1>1, <1>2, <1>4 DEF EndsOld
  <2>1. CASE lastcmd.cmd \in {"A", "D"} /\ \A n \in 1 .. Len(lines) : lines[n] # "CEND"
    BY <1>1, <2>1
  <2>2. CASE /\ Live' => Live
             /\ \A n \in 1 .. Len(lines) :
                  lines[n] \notin Failures /\ (lines[n] = "CEND" => ~Live')
    <3>1. k \in 1 .. Len(rx) /\ rx[k] = "CEND"
      BY <1>1, <2>2
    <3>2. Live \/ \E l \in 1 .. Len(rx) : k < l /\ rx[l] \in Failures
      BY <1>1, <2>2
    <3> QED
      BY <1>2, <3>1, <3>2 DEF EndsOld
  <2> QED
    BY <2>1, <2>2
<1> QED
  BY <1>5, <1>6

(* A modem alone moves: what is asked of the card holds as it did. *)
LEMMA UntouchedCalls ==
  ASSUME OwnInv, Clean, UNCHANGED <<vars, mishaps>>,
         OneAnswer', EndsOld', LiveBusy', FailBusy', DialingIdle', DialIdle', RefusedIdle',
         LiveOwned'
  PROVE  Calls'
<1>1. Calls /\ TypeOK
  BY DEF OwnInv, MeetInv, IInv
<1>2. /\ UNCHANGED <<conn, chan, incoming, outgoing, queue, lastcmd>>
      /\ Atas' = Atas /\ Clirs' = Clirs /\ Atds' = Atds /\ Dials' = Dials /\ Chups' = Chups
      /\ \A i \in Nat : Slot(i)' = Slot(i)
  BY CardUntouched
<1>3. DialBusy' /\ AnswerBusy' /\ OneDial' /\ DialFirst'
  BY <1>1, <1>2 DEF Calls, DialBusy, AnswerBusy, OneDial, DialFirst
<1>4. (\A S : Owner(S)' = Owner(S)) /\ \A i : HungUpAfter(i)' = HungUpAfter(i)
  BY <1>2 DEF Owner, HungUpAfter
<1>5. \A i \in Clirs : Slot(i)' = Slot(i)
  BY <1>1, <1>2, DialPlaces
<1>6. DialOwned' /\ AnswerOwned'
  BY <1>1, <1>2, <1>4, <1>5 DEF Calls, DialOwned, AnswerOwned
<1> QED
  BY <1>3, <1>6 DEF Calls

(* The modem executes the command awaited, the only one it was sent. *)
LEMMA ServeClean ==
  ASSUME OwnInv, Serve, Clean
  PROVE  /\ Calls /\ TypeOK /\ UNCHANGED <<vars, mishaps>>
         /\ UNCHANGED <<conn, chan, incoming, outgoing, queue, lastcmd>>
         /\ Dials' = Dials /\ Atas' = Atas /\ (\A S : Owner(S)' = Owner(S))
         /\ \A i : HungUpAfter(i)' = HungUpAfter(i)
         /\ tx # <<>> /\ tx' = <<>> /\ Head(tx) = lastcmd /\ lastcmd # NoCmd /\ ~InRx(Finals)
         /\ ~InRx({"ERROR"})
         /\ call \in {"none", "dialled", "ringing", "active"}
<1>1. tx # <<>> /\ tx' = Tail(tx) /\ UNCHANGED <<vars, mishaps>>
  BY DEF Serve
<1>2. Head(tx) = lastcmd /\ tx' = <<>> /\ lastcmd # NoCmd /\ ~InRx(Finals)
  BY <1>1, CleanFacts DEF OwnInv
<1>3. ~InRx({"ERROR"})
  BY <1>2 DEF InRx, Finals
<1>4. /\ UNCHANGED <<conn, chan, incoming, outgoing, queue, lastcmd>>
      /\ Dials' = Dials /\ Atas' = Atas /\ Chups' = Chups
  BY <1>1, CardUntouched
<1>5. (\A S : Owner(S)' = Owner(S)) /\ \A i : HungUpAfter(i)' = HungUpAfter(i)
  BY <1>4 DEF Owner, HungUpAfter
<1> QED
  BY <1>1, <1>2, <1>3, <1>4, <1>5 DEF OwnInv, MeetInv, IInv, LinkType

(* One or two lines. *)
LEMMA FewLines ==
  /\ \A a : Len(<<a>>) = 1 /\ \A n \in 1 .. Len(<<a>>) : n = 1 /\ <<a>>[n] = a
  /\ \A a, b : /\ Len(<<a, b>>) = 2
               /\ \A n \in 1 .. Len(<<a, b>>) : \/ n = 1 /\ <<a, b>>[n] = a
                                                \/ n = 2 /\ <<a, b>>[n] = b
OBVIOUS

(* ATD: the only one, and it finds the modem without a call or is refused. *)
LEMMA ServeDialCalls ==
  ASSUME OwnInv, Serve, Clean, lastcmd.cmd = "D",
         \/ call = "none" /\ call' = "dialled" /\ Spoken(<<"OK", "ORIG">>)
         \/ call # "none" /\ call' = call /\ Spoken(<<"ERROR">>)
  PROVE  Calls'
<1>1. /\ Calls /\ TypeOK /\ UNCHANGED <<vars, mishaps>>
      /\ UNCHANGED <<conn, chan, incoming, outgoing, queue, lastcmd>>
      /\ Dials' = Dials /\ Atas' = Atas /\ (\A S : Owner(S)' = Owner(S))
      /\ \A i : HungUpAfter(i)' = HungUpAfter(i)
      /\ tx # <<>> /\ tx' = <<>> /\ lastcmd # NoCmd /\ ~InRx(Finals) /\ ~InRx({"ERROR"})
  BY ServeClean
<1>2. Idle
  BY <1>1 DEF Calls, DialIdle, Unsent
<1>3. 0 \in Atds /\ 0 \in Dials /\ outgoing
  BY <1>1, SlotFacts, DialPlaces DEF Calls, DialBusy
<1>4. CASE call # "none" /\ call' = call /\ Spoken(<<"ERROR">>)
  <2>1. OneAnswer' /\ EndsOld'
    BY <1>1, <1>4, FewLines, AskedRx DEF Finals
  <2>2. InRx(Failures)' => InRx(Failures)
    BY <1>4, FewLines, SpokenLines DEF Failures
  <2>3. Idle'
    BY <1>2, <1>4, <2>2 DEF Idle, Live
  <2>4. DialingIdle'
    BY <1>1, <2>3 DEF Calls, DialingIdle
  <2> QED
    BY <1>1, <2>1, <2>3, <2>4, UntouchedCalls
       DEF LiveBusy, FailBusy, DialIdle, RefusedIdle, LiveOwned, Idle
<1>5. CASE call = "none" /\ call' = "dialled" /\ Spoken(<<"OK", "ORIG">>)
  <2>1. OneAnswer' /\ EndsOld'
    BY <1>1, <1>5, FewLines, AskedRx DEF Finals
  <2>2. (InRx(Failures)' => InRx(Failures)) /\ ~InRx({"ERROR"})'
    BY <1>1, <1>5, FewLines, SpokenLines DEF Failures
  <2>3. LiveBusy' /\ FailBusy' /\ RefusedIdle'
    BY <1>1, <1>3, <2>2 DEF LiveBusy, FailBusy, RefusedIdle
  <2>4. DialingIdle'
    BY <1>1, <1>3, CleanFacts DEF DialingIdle, Owner, OwnInv
  <2>5. DialIdle'
    <3>1. \A i \in Dials : ~(i > 0)
      BY <1>1, <1>3 DEF Calls, OneDial
    <3> QED
      BY <1>1, <3>1 DEF DialIdle, Unsent
  <2>6. LiveOwned'
    <3>1. Owner({"out"}) => Owner({"in", "out"})
      BY DEF Owner
    <3> QED
      BY <1>1, <1>3, <3>1 DEF Calls, DialOwned, LiveOwned
  <2> QED
    BY <1>1, <2>1, <2>3, <2>4, <2>5, <2>6, UntouchedCalls
<1> QED
  BY <1>4, <1>5

(* ATA: no dial is due, and a call that is answered has its owner. *)
LEMMA ServeAnswerCalls ==
  ASSUME OwnInv, Serve, Clean, lastcmd.cmd = "A",
         \/ call = "ringing" /\ call' = "active" /\ Spoken(<<"OK">>)
         \/ call' = call /\ (Spoken(<<"ERROR">>) \/ Spoken(<<"NO_CARRIER">>))
  PROVE  Calls'
<1>1. /\ Calls /\ TypeOK /\ UNCHANGED <<vars, mishaps>>
      /\ UNCHANGED <<conn, chan, incoming, outgoing, queue, lastcmd>>
      /\ Dials' = Dials /\ Atas' = Atas /\ (\A S : Owner(S)' = Owner(S))
      /\ \A i : HungUpAfter(i)' = HungUpAfter(i)
      /\ tx # <<>> /\ tx' = <<>> /\ lastcmd # NoCmd /\ ~InRx(Finals) /\ ~InRx({"ERROR"})
  BY ServeClean
<1>2. 0 \in Atas /\ incoming
  BY <1>1, SlotFacts DEF Calls, AnswerBusy
<1>3. Dials = {}
  <2>1. Clirs = {}
    BY <1>1, <1>2 DEF Calls, DialFirst
  <2>2. \A i \in Nat : ~(i < 0)
    OBVIOUS
  <2>3. Atds = {}
    BY <1>1, <1>2, <2>2, DialPlaces DEF Calls, DialFirst
  <2> QED
    BY <1>1, <2>1, <2>3, SlotFacts
<1>4. OneAnswer' /\ EndsOld'
  BY <1>1, FewLines, AskedRx DEF Finals
<1>5. LiveBusy' /\ FailBusy'
  BY <1>1, <1>2 DEF LiveBusy, FailBusy
<1>6. DialingIdle'
  BY <1>1, <1>2 DEF Calls, DialingIdle
<1>7. DialIdle' /\ RefusedIdle'
  BY <1>1, <1>3 DEF DialIdle, Unsent, RefusedIdle
<1>8. LiveOwned'
  <2>1. Owner({"in"}) => Owner({"in", "out"})
    BY DEF Owner
  <2> QED
    BY <1>1, <1>2, <2>1 DEF Calls, AnswerOwned, LiveOwned
<1> QED
  BY <1>1, <1>4, <1>5, <1>6, <1>7, <1>8, UntouchedCalls

(* Any other command ends a call or leaves it alone. *)
LEMMA ServeOtherCalls ==
  ASSUME OwnInv, Serve, Clean, lastcmd.cmd \notin {"A", "D"},
         \/ call' = "none" /\ (Spoken(<<"OK">>) \/ Spoken(<<"OK", "CEND">>))
         \/ /\ lastcmd.cmd # "CHUP" /\ call' = call
            /\ Spoken(<<"OK">>) \/ Spoken(<<"CPIN", "OK">>)
  PROVE  Calls'
<1>1. /\ Calls /\ TypeOK /\ UNCHANGED <<vars, mishaps>>
      /\ UNCHANGED <<conn, chan, incoming, outgoing, queue, lastcmd>>
      /\ Dials' = Dials /\ Atas' = Atas /\ (\A S : Owner(S)' = Owner(S))
      /\ \A i : HungUpAfter(i)' = HungUpAfter(i)
      /\ tx # <<>> /\ tx' = <<>> /\ lastcmd # NoCmd /\ ~InRx(Finals) /\ ~InRx({"ERROR"})
  BY ServeClean
<1>2. PICK lines \in {<<"OK">>, <<"OK", "CEND">>, <<"CPIN", "OK">>} :
        Spoken(lines) /\ (lines = <<"OK", "CEND">> => ~Live')
  BY DEF Live
<1>3. /\ Live' => Live /\ lastcmd.cmd # "CHUP"
      /\ \A k, l \in 1 .. Len(lines) : lines[k] \in Finals /\ lines[l] \in Finals => k = l
      /\ \A n \in 1 .. Len(lines) : /\ lines[n] \notin Failures /\ lines[n] # "ERROR"
                                    /\ lines[n] = "CEND" => ~Live'
  <2>1. Live' => Live /\ lastcmd.cmd # "CHUP"
    BY DEF Live
  <2> QED
    BY <1>2, <2>1, FewLines DEF Finals, Failures
<1>4. OneAnswer' /\ EndsOld'
  BY <1>1, <1>2, <1>3, AskedRx
<1>5. InRx(Failures)' => InRx(Failures)
  BY <1>2, <1>3, SpokenLines
<1>6. Idle => Idle'
  BY <1>3, <1>5 DEF Idle
<1>7. LiveBusy' /\ FailBusy'
  BY <1>1, <1>3, <1>5 DEF Calls, LiveBusy, FailBusy
<1>8. DialingIdle' /\ RefusedIdle'
  BY <1>1, <1>6 DEF Calls, DialingIdle, RefusedIdle
<1>9. DialIdle'
  BY <1>1, <1>6 DEF Calls, DialIdle, Unsent
<1>10. LiveOwned'
  BY <1>1, <1>3 DEF Calls, LiveOwned
<1> QED
  BY <1>1, <1>4, <1>7, <1>8, <1>9, <1>10, UntouchedCalls

(* The modem executes a command. *)
LEMMA ServeCalls ==
  ASSUME OwnInv, Serve, Clean
  PROVE  Calls'
<1>1. Head(tx) = lastcmd
  BY ServeClean
<1> QED
  BY <1>1, ServeSays, ServeDialCalls, ServeAnswerCalls, ServeOtherCalls DEF OwnInv

(* The network calls, rings, answers or ends a call. *)
LEMMA NetworkOwned ==
  ASSUME OwnInv, NetworkCalls \/ RingsAgain \/ RemoteAnswers \/ RemoteEnds, Clean
  PROVE  Calls'
<1>1. UNCHANGED <<vars, tx, mishaps>> /\ Calls /\ TypeOK
  BY NetworkSays DEF OwnInv, MeetInv, IInv
<1>2. Live' => Live
  BY NetworkSays DEF Live, OwnInv
<1>3. /\ OneAnswer' /\ EndsOld' /\ (InRx(Failures)' => ~Idle)
      /\ InRx({"ERROR"})' => InRx({"ERROR"})
  <2>1. CASE rx' = rx
    BY <1>1, <1>2, <2>1, CardUntouched DEF Calls, OneAnswer, EndsOld, InRx, Idle
  <2>2. CASE Spoken(<<"RING", "CLIP">>)
    BY <1>2, <2>2, FewLines, UnaskedRx DEF Finals, Failures
  <2>3. CASE Spoken(<<"CEND">>) /\ call' = "none"
    <3>1. ~Live'
      BY <2>3 DEF Live
    <3>2. \A n \in 1 .. Len(<<"CEND">>) : n = Len(<<"CEND">>) /\ <<"CEND">>[n] = "CEND"
      BY FewLines
    <3>3. "CEND" \notin Finals \cup Failures
      BY DEF Finals, Failures
    <3> QED
      BY <1>2, <2>3, <3>1, <3>2, <3>3, UnaskedRx
  <2>4. CASE /\ Spoken(<<"BUSY", "CEND">>) \/ Spoken(<<"NO_CARRIER", "CEND">>)
             /\ call \notin {"none", "ringing"} /\ call' = "none"
    <3>1. Live /\ ~Live'
      BY <2>4 DEF Live, OwnInv, MeetInv, LinkType
    <3>2. PICK a \in {"BUSY", "NO_CARRIER"} : Spoken(<<a, "CEND">>)
      BY <2>4
    <3>3. \A n \in 1 .. Len(<<a, "CEND">>) :
            \/ n = 1 /\ <<a, "CEND">>[n] = a
            \/ n = Len(<<a, "CEND">>) /\ <<a, "CEND">>[n] = "CEND"
      BY FewLines
    <3>4. a \notin Finals /\ a # "CEND" /\ "CEND" \notin Finals \cup Failures
      BY DEF Finals, Failures
    <3>5. \A n \in 1 .. Len(<<a, "CEND">>) :
            /\ <<a, "CEND">>[n] \notin Finals
            /\ <<a, "CEND">>[n] \in Failures => Live
            /\ <<a, "CEND">>[n] = "CEND" => n = Len(<<a, "CEND">>) /\ ~Live'
      BY <3>1, <3>3, <3>4
    <3> QED
      BY <1>2, <3>2, <3>5, UnaskedRx
  <2> QED
    BY <2>1, <2>2, <2>3, <2>4, NetworkSays DEF OwnInv
<1>4. /\ UNCHANGED <<conn, chan, incoming, outgoing, lastcmd>> /\ Dials' = Dials /\ Atas' = Atas
      /\ Chups' = Chups
  BY <1>1, CardUntouched
<1>5. (\A S : Owner(S)' = Owner(S)) /\ \A i : HungUpAfter(i)' = HungUpAfter(i)
  BY <1>4 DEF Owner, HungUpAfter
<1>6. Idle => Idle'
  BY <1>2, <1>3 DEF Idle
<1>7. LiveBusy' /\ FailBusy'
  BY <1>1, <1>2, <1>3, <1>4 DEF Calls, LiveBusy, FailBusy, Idle
<1>8. DialingIdle' /\ RefusedIdle' /\ DialIdle'
  BY <1>1, <1>3, <1>4, <1>5, <1>6 DEF Calls, DialingIdle, RefusedIdle, DialIdle, Unsent
<1>9. LiveOwned'
  BY <1>1, <1>2, <1>4, <1>5 DEF Calls, LiveOwned
<1> QED
  BY <1>1, <1>3, <1>7, <1>8, <1>9, UntouchedCalls

-----------------------------------------------------------------------------
(* The engine, and who hangs up.                                           *)

(* What the modem has said and does is left alone. *)
LEMMA SameTalk ==
  ASSUME OwnInv, Clean, UNCHANGED <<tx, rx, call, lastcmd>>
  PROVE  /\ Calls /\ TypeOK /\ OneAnswer' /\ EndsOld' /\ Live' = Live /\ Idle' = Idle
         /\ \A L : InRx(L)' = InRx(L)
<1>1. Calls /\ TypeOK
  BY DEF OwnInv, MeetInv, IInv
<1>2. (\A L : InRx(L)' = InRx(L)) /\ Live' = Live
  BY DEF InRx, Live
<1> QED
  BY <1>1, <1>2 DEF Calls, OneAnswer, EndsOld, Idle

(* newCall on a card in service: no other call is under way. *)
LEMMA PlaceCalls ==
  ASSUME OwnInv, NEW c \in Channels, Place(c), Clean'
  PROVE  Calls'
<1>1. /\ UNCHANGED <<tx, rx, call, lastcmd, conn, incoming>>
      /\ chan[c] = "dialing" /\ chan' = [chan EXCEPT ![c] = "out"] /\ outgoing' = TRUE
      /\ Len(queue) \in Nat
      /\ Atas' = Atas /\ Dials' = Dials \cup {Len(queue) + 1}
      /\ \/ Clirs' = Clirs \cup {Len(queue) + 1} /\ Atds' = Atds
         \/ Atds' = Atds \cup {Len(queue) + 1} /\ Clirs' = Clirs
      /\ \A n : n = Len(queue) + 1 => Slot(n)'.obj = c
      /\ mishaps' = IF initialized THEN mishaps ELSE mishaps \cup {"blind"}
  BY PlaceFacts DEF OwnInv
<1>2. Clean
  BY <1>1 DEF Clean, Without
<1>3. /\ Calls /\ TypeOK /\ OneAnswer' /\ EndsOld' /\ Live' = Live /\ Idle' = Idle
  BY <1>1, <1>2, SameTalk
<1>4. conn = c /\ conn # NoConn /\ ~outgoing
  <2>1. conn = c /\ c # NoConn
    BY <1>1, <1>2, CleanFacts DEF OwnInv, Owning, NoConn
  <2> QED
    BY <1>1, <1>2, <2>1, CleanFacts DEF OwnInv
<1>5. Idle /\ Atas = {}
  BY <1>1, <1>3, <1>4 DEF Calls, DialingIdle, Owner
<1>6. Dials = {} /\ Clirs = {} /\ Atds = {}
  BY <1>3, <1>4, DialPlaces DEF Calls, DialBusy
<1>7. Owner({"out"})' /\ conn' = c
  BY <1>1, <1>3, <1>4 DEF Owner, TypeOK
<1>8. /\ Dials' = {Len(queue) + 1} /\ Atas' = {}
      /\ \A i \in Clirs' : i = Len(queue) + 1
  BY <1>1, <1>5, <1>6
<1> QED
  BY <1>1, <1>3, <1>5, <1>7, <1>8
     DEF Calls, Idle, LiveBusy, FailBusy, DialBusy, AnswerBusy, OneDial, DialingIdle, DialIdle,
         RefusedIdle, DialFirst, DialOwned, AnswerOwned, LiveOwned

(* A peer answers the call of the channel that owns the card. *)
LEMMA PickCalls ==
  ASSUME OwnInv, NEW c \in Channels, Pick(c), Clean'
  PROVE  Calls'
<1>1. /\ UNCHANGED <<tx, rx, call, lastcmd, conn, chan, incoming, outgoing, mishaps>>
      /\ chan[c] = "in" /\ incoming
      /\ Len(queue) \in Nat
      /\ Atas = {} /\ Atas' = {Len(queue) + 1}
      /\ Clirs' = Clirs /\ Atds' = Atds /\ Dials' = Dials /\ Chups' = Chups
      /\ \A i \in 0 .. Len(queue) : Slot(i)' = Slot(i)
  BY PickFacts DEF OwnInv
<1>2. Clean
  BY <1>1 DEF Clean, Without
<1>3. /\ Calls /\ TypeOK /\ OneAnswer' /\ EndsOld' /\ Live' = Live /\ Idle' = Idle
      /\ \A L : InRx(L)' = InRx(L)
  BY <1>1, <1>2, SameTalk
<1>4. conn = c /\ conn # NoConn
  BY <1>1, <1>2, CleanFacts DEF OwnInv, Owning, NoConn
<1>5. Owner({"in"}) /\ ~Owner({"out"}) /\ ~Owner({"dialing"}) /\ \A S : Owner(S)' = Owner(S)
  BY <1>1, <1>4 DEF Owner
<1>6. Clirs = {}
  BY <1>3, <1>5 DEF Calls, DialOwned
<1>7. \A i : HungUpAfter(i)' = HungUpAfter(i)
  BY <1>1 DEF HungUpAfter
<1>8. LiveBusy' /\ FailBusy' /\ DialBusy' /\ AnswerBusy' /\ OneDial'
  BY <1>1, <1>3 DEF Calls, LiveBusy, FailBusy, DialBusy, AnswerBusy, OneDial
<1>9. DialingIdle' /\ DialIdle' /\ RefusedIdle'
  BY <1>1, <1>3, <1>5 DEF Calls, DialingIdle, DialIdle, Unsent, RefusedIdle
<1>10. DialFirst'
  <2>1. \A i \in 0 .. Len(queue) : i < Len(queue) + 1
    BY <1>1
  <2> QED
    BY <1>1, <1>3, <1>6, <2>1, DialPlaces DEF DialFirst
<1>11. DialOwned' /\ AnswerOwned' /\ LiveOwned'
  BY <1>1, <1>3, <1>5, <1>6, <1>7 DEF Calls, DialOwned, AnswerOwned, LiveOwned
<1> QED
  BY <1>3, <1>8, <1>9, <1>10, <1>11 DEF Calls

(* A channel is destroyed: the AT+CHUP it owes goes behind its commands. *)
LEMMA ReleaseCalls ==
  ASSUME OwnInv, NEW c \in Channels, Release(c), Clean'
  PROVE  Calls'
<1>1. /\ UNCHANGED <<tx, rx, call, lastcmd, incoming, outgoing>>
      /\ conn' = NoConn /\ Kept
      /\ "foreign" \notin mishaps' => conn \in {c, NoConn}
      /\ "early" \notin mishaps' => \A i \in Clirs : Slot(i).obj # c
      /\ Len(queue) \in Nat
      /\ Atas' = Atas /\ Clirs' = Clirs /\ Atds' = Atds /\ Dials' = Dials
      /\ Chups \subseteq Chups' /\ (needchup => Len(queue) + 1 \in Chups')
  BY ReleaseFacts DEF OwnInv
<1>2. Clean /\ conn \in {c, NoConn} /\ \A i \in Clirs : Slot(i).obj # c
  BY <1>1, CleanKept DEF Clean, Without, Meetings
<1>3. /\ Calls /\ TypeOK /\ OneAnswer' /\ EndsOld' /\ Live' = Live /\ Idle' = Idle
      /\ \A L : InRx(L)' = InRx(L)
  BY <1>1, <1>2, SameTalk
<1>4. Clirs = {}
  BY <1>2, <1>3 DEF Calls, DialOwned, Owner
<1>5. Owner({"in"}) \/ Owner({"out"}) \/ Owner({"in", "out"}) => needchup
  BY <1>2, CleanFacts DEF OwnInv, Owner
<1>6. \A i : HungUpAfter(i) => HungUpAfter(i)'
  BY <1>1 DEF HungUpAfter
<1>7. \A i \in 0 .. Len(queue) : needchup => HungUpAfter(i)'
  <2>1. \A i \in 0 .. Len(queue) : i < Len(queue) + 1
    BY <1>1
  <2> QED
    BY <1>1, <2>1 DEF HungUpAfter
<1>8. LiveBusy' /\ FailBusy' /\ DialBusy' /\ AnswerBusy' /\ OneDial' /\ DialFirst'
  BY <1>1, <1>3 DEF Calls, LiveBusy, FailBusy, DialBusy, AnswerBusy, OneDial, DialFirst
<1>9. DialingIdle' /\ DialIdle' /\ RefusedIdle'
  BY <1>1, <1>3 DEF Calls, DialingIdle, DialIdle, Unsent, RefusedIdle, Owner
<1>10. DialOwned' /\ AnswerOwned'
  BY <1>1, <1>3, <1>4, <1>5, <1>6, <1>7, DialPlaces DEF Calls, DialOwned, AnswerOwned
<1>11. LiveOwned'
  <2>1. 0 \in 0 .. Len(queue)
    BY <1>1
  <2> QED
    BY <1>1, <1>3, <1>5, <1>6, <1>7, <2>1 DEF Calls, LiveOwned
<1> QED
  BY <1>3, <1>8, <1>9, <1>10, <1>11 DEF Calls

(* Any other step of the engine adds no command. *)
LEMMA EngineCalls ==
  ASSUME OwnInv, NEW c \in Channels, Dial(c) \/ Route(c) \/ Own(c), Clean'
  PROVE  Calls'
<1>1. /\ UNCHANGED <<tx, rx, call, queue, lastcmd, incoming, outgoing>> /\ Kept
  BY DialRouteFacts, OwnFacts DEF OwnInv, Kept
<1>2. Clean
  BY <1>1, CleanKept
<1>3. /\ Calls /\ TypeOK /\ OneAnswer' /\ EndsOld' /\ Live' = Live /\ Idle' = Idle
      /\ \A L : InRx(L)' = InRx(L)
  BY <1>1, <1>2, SameTalk
<1>4. /\ Atas' = Atas /\ Clirs' = Clirs /\ Atds' = Atds /\ Dials' = Dials /\ Chups' = Chups
      /\ \A i \in Nat : Slot(i)' = Slot(i)
  BY <1>1, SameSlots
<1>5. \A i \in Clirs' : Slot(i)' = Slot(i)
  BY <1>3, <1>4, DialPlaces
<1>6. /\ InRx(Failures)' => ~Idle
      /\ lastcmd'.cmd = "D" /\ InRx({"ERROR"})' => Idle
  BY <1>1, <1>3 DEF Calls, RefusedIdle, Idle
<1>7. /\ Owner({"in"}) => Owner({"in"})'
      /\ Owner({"out"}) => Owner({"out"})' /\ conn' = conn
      /\ Owner({"dialing"})' => Idle /\ Atas = {}
  <2>1. CASE Dial(c) \/ Route(c)
    <3>1. /\ conn' = conn
          /\ \/ chan[c] = "free" /\ chan' = [chan EXCEPT ![c] = "picked"]
             \/ chan[c] = "routing" /\ chan' = [chan EXCEPT ![c] = "in"]
      BY <2>1, DialRouteFacts DEF OwnInv
    <3>2. \A d \in Channels : /\ chan[d] \in {"in", "out"} => chan'[d] = chan[d]
                              /\ chan'[d] = "dialing" => chan[d] = "dialing"
      BY <1>3, <3>1 DEF TypeOK
    <3>3. conn # NoConn => conn \in Channels
      BY <1>3 DEF TypeOK
    <3> QED
      BY <1>3, <3>1, <3>2, <3>3 DEF Owner, Calls, DialingIdle
  <2>2. CASE Own(c)
    <3>1. ~incoming /\ ~outgoing /\ conn = NoConn
      <4>1. "overlap" \notin mishaps'
        BY DEF Clean, Without, Meetings
      <4> QED
        BY <2>2, <4>1, OwnFacts DEF OwnInv
    <3> QED
      BY <1>3, <3>1 DEF Owner, Calls, LiveBusy, FailBusy, AnswerBusy, Idle
  <2> QED
    BY <2>1, <2>2
<1> QED
  BY <1>1, <1>2, <1>3, <1>4, <1>5, <1>6, <1>7, NothingAdded

-----------------------------------------------------------------------------
(* Every step keeps it.                                                    *)

(* The step of any actor. *)
LEMMA OwnStep == OwnInv /\ [CallNext]_all => OwnInv'
<1> SUFFICES ASSUME OwnInv, [CallNext]_all, Clean' PROVE Calls'
  BY MeetStep DEF OwnInv
<1>1. CASE Connect \/ Start \/ Leave
  BY <1>1, SessionCalls
<1>2. CASE Write
  BY <1>2, WriteCalls
<1>3. CASE Read
  BY <1>3, ReadCalls
<1>4. CASE Serve
  <2>1. Clean
    BY <1>4 DEF Serve, Clean, Without
  <2> QED
    BY <1>4, <2>1, ServeCalls
<1>5. CASE NetworkCalls \/ RingsAgain \/ RemoteAnswers \/ RemoteEnds
  <2>1. Clean
    BY <1>5 DEF NetworkCalls, RingsAgain, RemoteAnswers, RemoteEnds, Clean, Without
  <2> QED
    BY <1>5, <2>1, NetworkOwned
<1>6. CASE Unplug
  <2>1. Emptied /\ rx' = <<>> /\ call' = "none"
    BY <1>6, UnplugBasic DEF OwnInv
  <2> QED
    BY <2>1, EmptiedCalls DEF Live
<1>7. CASE Engage
  BY <1>7, PlaceCalls, PickCalls, ReleaseCalls, EngineCalls DEF Engage
<1>8. CASE UNCHANGED all
  <2>1. UNCHANGED <<vars, tx, rx, call, mishaps>>
    BY <1>8 DEF all, modem
  <2>2. Clean
    BY <2>1 DEF Clean, Without
  <2>3. UNCHANGED <<conn, chan, incoming, outgoing, lastcmd>> /\ Dials' = Dials /\ Atas' = Atas
        /\ Chups' = Chups
    BY <2>1, CardUntouched
  <2>4. Calls /\ OneAnswer' /\ EndsOld' /\ Live' = Live /\ Idle' = Idle
        /\ \A L : InRx(L)' = InRx(L)
    BY <2>1, <2>2, <2>3, SameTalk
  <2>5. LiveBusy' /\ FailBusy' /\ DialingIdle' /\ DialIdle' /\ RefusedIdle' /\ LiveOwned'
    BY <2>1, <2>3, <2>4
       DEF Calls, LiveBusy, FailBusy, DialingIdle, DialIdle, Unsent, RefusedIdle, LiveOwned,
           Owner, HungUpAfter
  <2> QED
    BY <2>1, <2>2, <2>4, <2>5, UntouchedCalls
<1> QED
  BY <1>1, <1>2, <1>3, <1>4, <1>5, <1>6, <1>7, <1>8 DEF CallNext

(* The first call finds none under way. *)
LEMMA OwnStart == CallInit => OwnInv
<1> SUFFICES ASSUME CallInit PROVE Calls
  BY MeetStart DEF OwnInv
<1>1. /\ call = "none" /\ tx = <<>> /\ rx = <<>> /\ conn = NoConn /\ queue = <<>>
      /\ lastcmd = NoCmd
  BY DEF CallInit
<1>2. Len(rx) = 0 /\ \A k \in 1 .. Len(rx) : FALSE
  BY <1>1
<1>3. \A K \in SUBSET ServiceCmds : Slots(K) = {}
  BY <1>1, CommandType DEF Slots, Slot
<1>4. Atas = {} /\ Clirs = {} /\ Atds = {} /\ Dials = {}
  BY <1>3, CallKinds DEF Atas, Clirs, Atds, Dials
<1>5. (\A L : ~InRx(L)) /\ ~Live
  BY <1>1, <1>2 DEF InRx, Live
<1>6. OneAnswer /\ EndsOld /\ Idle
  BY <1>2, <1>5 DEF OneAnswer, EndsOld, Idle
<1> QED
  BY <1>1, <1>4, <1>5, <1>6
     DEF Calls, LiveBusy, FailBusy, DialBusy, AnswerBusy, OneDial, DialingIdle, DialIdle,
         RefusedIdle, DialFirst, DialOwned, AnswerOwned, LiveOwned, Owner

(* No call goes on that nobody can hang up: when all is quiet, a call that *)
(* was dialled or answered has a channel with a peer, whose destructor     *)
(* sends the AT+CHUP, or the AT+CHUP for it has been executed.  It holds   *)
(* of every history in which no two calls met in a way the code leaves to  *)
(* chance.                                                                 *)
THEOREM CallsOwnedHolds == CallSpec => []CallsOwned
<1>1. OwnInv => CallsOwned
  <2> SUFFICES ASSUME OwnInv, Quiet, call \in {"dialled", "active"}, Clean
               PROVE  Owner({"in", "out"})
    BY DEF CallsOwned, Clean, Meetings, Without, Owner
  <2>1. LiveOwned /\ Live /\ tx = <<>> /\ queue = <<>> /\ lastcmd = NoCmd
    BY DEF OwnInv, Calls, Live, Quiet, Awaiting
  <2>2. Len(queue) = 0
    BY <2>1
  <2>3. \A j \in Chups : ~(0 < j)
    BY <2>2 DEF Chups, Slots
  <2> QED
    BY <2>1, <2>3 DEF LiveOwned, HungUpAfter
<1> QED
  BY <1>1, OwnStart, OwnStep, PTL DEF CallSpec
=============================================================================
