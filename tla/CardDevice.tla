----------------------------- MODULE CardDevice -----------------------------
(***************************************************************************)
(* One CardDevice: the state its mutex protects, the monitor thread that   *)
(* drives the modem (processATEvents), the handlers of the lines the modem *)
(* sends (at_response), and the calls the telephony engine makes on it     *)
(* from other threads (msgExecute, sendSMS, sendUSSD, Connection).  Each   *)
(* action is one section of code run with m_mutex held, or one of the      *)
(* unlocked steps between two such sections.                               *)
(*                                                                         *)
(* The modem is free: any line it may send can arrive at any time, so what *)
(* holds here holds of a card that answers late, twice, or not at all.     *)
(*                                                                         *)
(* A session has one monitor thread: that of the session before has left   *)
(* when the card is connected again.  The media thread has no state here   *)
(* but may disconnect at any time (LostEarly, LostConnection), also before *)
(* the monitor is in its loop and between two of its steps.  TryConnect is *)
(* an attempt that starts both threads; DeviceLifecycle has the others.    *)
(*                                                                         *)
(* An operator introduced as a "Fault" is no part of the specification: it *)
(* is a plausible mistake in the operator that follows it, kept to show    *)
(* that the properties would notice.                                       *)
(***************************************************************************)
EXTENDS ATCommands, Integers

CONSTANTS
  Confs,       \* the configurations of the card (a section of datacard.conf)
  Lines,       \* the result codes the modem may send (at_res_t)
  SimReports,  \* the SIM states it may report
  MaxPending   \* bound: commands queued or awaiting their answer

VARIABLES
  conf,         \* m_reset_datacard, m_u2diag, m_sim_pin, ...: never changes
  link,         \* m_connected, and where the monitor thread is
  initialized,  \* m_initialized
  registered,   \* m_gsm_registered
  simstatus,    \* m_simstatus
  pincount,     \* m_pincount
  incomingPdu,  \* m_incoming_pdu
  hasVoice,     \* m_has_voice
  hasSms,       \* m_has_sms
  volSync,      \* m_volume_synchronized
  queue,        \* m_commandQueue
  lastcmd,      \* m_lastcmd: the command whose answer is awaited
  conn,         \* m_conn: the channel that owns the card
  incoming,     \* m_incoming
  outgoing,     \* m_outgoing
  needchup,     \* m_needchup
  needring,     \* m_needring
  chan          \* life of each DatacardChannel, seen from the driver

sim     == <<simstatus, pincount>>
sticky  == <<hasVoice, hasSms, volSync>>   \* not reset by disconnect
pipe    == <<queue, lastcmd>>
flags   == <<incoming, outgoing, needchup, needring>>
session == <<link, initialized, registered, incomingPdu, sim>>
vars    == <<conf, session, sticky, pipe, conn, flags, chan>>

ConfType == [reset : BOOLEAN, u2diag : BOOLEAN, pin : BOOLEAN,
             autodelete : BOOLEAN, disablesms : BOOLEAN]

LineType == {"OK", "ERROR", "CPIN", "CREG", "CMTI", "CMGR", "PDU", "ORIG", "CEND",
             "CLIP", "RING", "BUSY", "NO_DIALTONE", "NO_CARRIER", "MALFORMED"}

SimStates == -1 .. 4   \* at_parse_cpin: 0 READY, 1 PIN required, -1 no answer

ASSUME ConfAssumption == Confs \subseteq ConfType
ASSUME LineAssumption == Lines \subseteq LineType
ASSUME SimAssumption == SimReports \subseteq SimStates
ASSUME BoundAssumption == MaxPending \in Nat

ChanStates == {"free",      \* no such object
               "picked",    \* msgExecute has seen that the card is not busy
               "dialing",   \* setConnection done, newCall not yet called
               "routing",   \* incoming call, no peer connected yet
               "in", "out", \* incoming, outgoing call with a peer
               "ended"}     \* told to disconnect, destructor not run yet

Owning == {"dialing", "routing", "in", "out"}

LinkStates == {"down",       \* not connected, no monitor thread
               "starting",   \* connected, the prologue of the monitor to come
               "up",         \* connected, the monitor in its loop
               "lost",       \* not connected, the prologue still to come
               "leaving"}    \* not connected, the monitor about to write

(* m_connected *)
Connected == link \in {"starting", "up"}

NoConn == NoObj

Init ==
  /\ conf \in Confs
  /\ link = "down" /\ initialized = FALSE /\ registered = FALSE
  /\ simstatus = -1 /\ pincount = 0 /\ incomingPdu = FALSE
  /\ hasVoice \in BOOLEAN /\ hasSms \in BOOLEAN /\ volSync \in BOOLEAN
  /\ queue = <<>> /\ lastcmd = NoCmd
  /\ conn = NoConn /\ chan = [c \in Channels |-> "free"]
  /\ incoming = FALSE /\ outgoing = FALSE /\ needchup = FALSE /\ needring = FALSE

-----------------------------------------------------------------------------
(* Parts shared by the actions.                                            *)

Awaiting == lastcmd # NoCmd
Pending  == Len(queue) + (IF Awaiting THEN 1 ELSE 0)
Room     == Pending < MaxPending

Enqueue(cmds) == queue' = queue \o cmds

(* Fault: a destructor leaves the call to the other side. *)
ChupNever == <<>>

Chup == IF needchup THEN <<Plain("CHUP")>> ELSE <<>>

(* Fault: the owner is told to end but stays the owner. *)
EndOwnerKeeps ==
  /\ chan' = [c \in Channels |->
                IF c = conn /\ chan[c] \in {"in", "out"} THEN "ended" ELSE chan[c]]
  /\ UNCHANGED conn

(* Fault: the owner loses the card and is told nothing. *)
EndOwnerSilent == conn' = NoConn /\ UNCHANGED chan

(* onHangup: a channel with a peer leaves it, and is destroyed later; one  *)
(* that has no peer yet takes no notice (CallEndpoint::disconnect).        *)
EndOwner ==
  /\ conn' = NoConn
  /\ chan' = [c \in Channels |->
                IF c = conn /\ chan[c] \in {"in", "out"} THEN "ended" ELSE chan[c]]

(* Hangup, with needchup as the caller left it. *)
Hangup(chup) ==
  IF conn = NoConn
  THEN /\ needchup' = chup /\ UNCHANGED <<queue, conn, chan>>
  ELSE /\ EndOwner
       /\ needchup' = FALSE
       /\ Enqueue(IF chup THEN <<Plain("CHUP")>> ELSE <<>>)

(* Fault: what was known of the SIM outlives the session. *)
ResetKeepsPin ==
  /\ initialized' = FALSE /\ registered' = FALSE /\ incomingPdu' = FALSE
  /\ incoming' = FALSE /\ outgoing' = FALSE /\ needchup' = FALSE /\ needring' = FALSE
  /\ queue' = <<>> /\ lastcmd' = NoCmd
  /\ UNCHANGED <<conf, sim>>

(* disconnect, but for the link and the owner of the card. *)
Reset ==
  /\ initialized' = FALSE /\ registered' = FALSE
  /\ simstatus' = -1 /\ pincount' = 0 /\ incomingPdu' = FALSE
  /\ incoming' = FALSE /\ outgoing' = FALSE /\ needchup' = FALSE /\ needring' = FALSE
  /\ queue' = <<>> /\ lastcmd' = NoCmd
  /\ UNCHANGED conf

(* disconnect by the monitor thread, which leaves, but for the owner. *)
DropLink == link' = "down" /\ Reset

Disconnect == DropLink /\ EndOwner

-----------------------------------------------------------------------------
(* The discovery thread and the monitor thread.                            *)

TryConnect ==
  /\ link = "down"
  /\ link' = "starting"
  /\ UNCHANGED <<conf, initialized, registered, incomingPdu, sim, sticky, pipe, conn,
                 flags, chan>>

(* The prologue of processATEvents. *)
MonitorStart ==
  /\ link = "starting"
  /\ link' = "up"
  /\ queue' = <<Plain("AT")>>
  /\ lastcmd' = NoCmd
  /\ UNCHANGED <<conf, initialized, registered, incomingPdu, sim, sticky, conn, flags, chan>>

(* Fault: the next command does not wait for the answer to the last. *)
SendAtOnce ==
  /\ link = "up" /\ queue # <<>>
  /\ lastcmd' = Head(queue)
  /\ queue' = Tail(queue)
  /\ UNCHANGED <<conf, session, sticky, conn, flags, chan>>

(* POLLOUT: write the first command of the queue. *)
SendCommand ==
  /\ link = "up" /\ ~Awaiting /\ queue # <<>>
  /\ lastcmd' = Head(queue)
  /\ queue' = Tail(queue)
  /\ UNCHANGED <<conf, session, sticky, conn, flags, chan>>

(* The tty is gone, poll failed, or it reported something else than data.  *)
(* When it is the media thread that notices, the monitor may have come     *)
(* back from a poll that asked for POLLOUT.                                *)
LostConnection ==
  /\ link = "up"
  /\ \/ link' = "down"
     \/ link' = "leaving" /\ ~Awaiting /\ queue # <<>>
  /\ Reset /\ EndOwner
  /\ UNCHANGED sticky

(* The media thread loses the card before the monitor has begun. *)
LostEarly ==
  /\ link = "starting"
  /\ link' = "lost"
  /\ Reset /\ EndOwner
  /\ UNCHANGED sticky

(* The prologue of processATEvents on a card that is lost already: AT is   *)
(* left in its queue, and the loop ends before it begins.                  *)
MonitorLate ==
  /\ link = "lost"
  /\ link' = "down"
  /\ queue' = <<Plain("AT")>>
  /\ lastcmd' = NoCmd
  /\ UNCHANGED <<conf, initialized, registered, incomingPdu, sim, sticky, conn, flags, chan>>

(* The monitor finds its card lost.  If poll had said POLLOUT, what was    *)
(* queued since goes to a closed descriptor, and is awaited all the same.  *)
MonitorLeave ==
  /\ link = "leaving"
  /\ link' = "down"
  /\ \/ queue # <<>> /\ lastcmd' = Head(queue) /\ queue' = Tail(queue)
     \/ UNCHANGED pipe
  /\ UNCHANGED <<conf, initialized, registered, incomingPdu, sim, sticky, conn, flags, chan>>

(* Fault: a timeout ends the session without disconnect. *)
TimeoutLeaves ==
  /\ link = "up" /\ ~initialized
  /\ link' = "down"
  /\ UNCHANGED <<conf, initialized, registered, incomingPdu, sim, sticky, pipe, conn, flags,
                 chan>>

(* Fault: a timeout repeats m_lastcmd, which may be null. *)
TimeoutRepeats ==
  /\ link = "up" /\ queue = <<>>
  /\ queue' = <<lastcmd>> /\ lastcmd' = NoCmd
  /\ UNCHANGED <<conf, session, sticky, conn, flags, chan>>

(* Fault: a timeout is only logged, in service or not. *)
TimeoutLogs == link = "up" /\ UNCHANGED vars

(* Nothing arrived for a second; once initialised this is only logged. *)
Timeout ==
  /\ link = "up" /\ ~initialized
  /\ Disconnect
  /\ UNCHANGED sticky

-----------------------------------------------------------------------------
(* at_response: the answer to the awaited command.                         *)

Hears(res) == link = "up" /\ res \in Lines

(* Fault: the answered command stays the awaited one. *)
AnsweredKeeps(cmds) == Enqueue(cmds) /\ UNCHANGED lastcmd

(* The awaited command is answered; the handler appends cmds. *)
Answered(cmds) == lastcmd' = NoCmd /\ Enqueue(cmds)

OkChained ==
  /\ Hears("OK") /\ lastcmd.cmd \in ChainedCmds
  /\ Answered(IF lastcmd.cmd = "Z" \/ ~initialized
              THEN <<Plain(NextInit(lastcmd.cmd, conf))>> ELSE <<>>)
  /\ hasVoice' = (hasVoice \/ lastcmd.cmd = "CVOICE")
  /\ UNCHANGED <<conf, session, hasSms, volSync, conn, flags, chan>>

(* AT+CPIN?: go on, enter the PIN (once), or give up. *)
OkCpin ==
  /\ Hears("OK") /\ lastcmd.cmd = "CPIN"
  /\ \/ /\ initialized
        /\ Answered(<<>>)
        /\ UNCHANGED <<conf, session, conn, flags, chan>>
     \/ /\ ~initialized /\ simstatus = 0
        /\ Answered(<<Plain("CIMI")>>)
        /\ UNCHANGED <<conf, session, conn, flags, chan>>
     \/ /\ ~initialized /\ simstatus = 1 /\ conf.pin /\ pincount = 0
        /\ pincount' = pincount + 1
        /\ Answered(<<Plain("CPIN_ENTER")>>)
        /\ UNCHANGED <<conf, link, initialized, registered, incomingPdu, simstatus, conn,
                       flags, chan>>
     \/ /\ ~initialized /\ simstatus # 0
        /\ ~(simstatus = 1 /\ conf.pin /\ pincount = 0)
        /\ Disconnect
  /\ UNCHANGED sticky

(* AT+CNMI, the last of the chain: the card is in service. *)
OkCnmi ==
  /\ Hears("OK") /\ lastcmd.cmd = "CNMI"
  /\ hasSms' = TRUE
  /\ initialized' = TRUE
  /\ Answered(IF initialized THEN <<>> ELSE <<Plain("CSQ")>>)
  /\ UNCHANGED <<conf, link, registered, incomingPdu, sim, hasVoice, volSync, conn,
                 flags, chan>>

(* What the OK of a service command appends. *)
OkFollows ==
  CASE lastcmd.cmd \in {"A", "D"}                    -> <<Plain("DDSETEX")>>
    [] lastcmd.cmd = "CLIR"                          -> <<With("D", lastcmd.obj)>>
    [] lastcmd.cmd = "CMGR" /\ conf.autodelete       -> <<With("CMGD", lastcmd.obj)>>
    [] lastcmd.cmd = "CLVL" /\ ~volSync              -> <<Plain("CLVL")>>
    [] OTHER                                         -> <<>>

(* Fault: the volume is never taken for synchronized. *)
OkServiceResyncs ==
  /\ Hears("OK") /\ lastcmd.cmd \in ServiceCmds
  /\ Answered(OkFollows)
  /\ volSync' = (volSync /\ lastcmd.cmd # "CLVL")
  /\ UNCHANGED <<conf, session, hasVoice, hasSms, conn, flags, chan>>

OkService ==
  /\ Hears("OK") /\ lastcmd.cmd \in ServiceCmds
  /\ Answered(OkFollows)
  /\ volSync' = (volSync \/ lastcmd.cmd = "CLVL")
  /\ UNCHANGED <<conf, session, hasVoice, hasSms, conn, flags, chan>>

ErrorRequired ==
  /\ Hears("ERROR") /\ lastcmd.cmd \in RequiredCmds \cup {"CHUP"}
  /\ Disconnect
  /\ UNCHANGED sticky

(* Fault: a card without registration skips its own number. *)
ErrorOptionalSkips ==
  /\ Hears("ERROR") /\ lastcmd.cmd \in OptionalCmds
  /\ Answered(IF initialized THEN <<>>
              ELSE <<Plain(IF lastcmd.cmd = "CREG" THEN "CVOICE" ELSE "CMGF")>>)
  /\ hasVoice' = (hasVoice /\ lastcmd.cmd # "CVOICE")
  /\ UNCHANGED <<conf, session, hasSms, volSync, conn, flags, chan>>

ErrorOptional ==
  /\ Hears("ERROR") /\ lastcmd.cmd \in OptionalCmds
  /\ Answered(IF initialized THEN <<>>
              ELSE <<Plain(IF lastcmd.cmd = "CREG" THEN "CNUM" ELSE "CMGF")>>)
  /\ hasVoice' = (hasVoice /\ lastcmd.cmd # "CVOICE")
  /\ UNCHANGED <<conf, session, hasSms, volSync, conn, flags, chan>>

(* Fault: a card with voice but no SMS is left in service. *)
ErrorSmsProbeReady ==
  /\ Hears("ERROR") /\ lastcmd.cmd \in SmsProbes
  /\ hasSms' = FALSE /\ initialized' = TRUE
  /\ Answered(<<Plain("CSQ")>>)
  /\ UNCHANGED <<conf, link, registered, incomingPdu, sim, hasVoice, volSync, conn, flags, chan>>

(* No SMS support.  For a card with voice the code appends AT+CSQ and sets *)
(* m_initialized, then returns -1 all the same: both are undone at once.   *)
ErrorSmsProbe ==
  /\ Hears("ERROR") /\ lastcmd.cmd \in SmsProbes
  /\ hasSms' = FALSE
  /\ IF initialized
     THEN Answered(<<>>) /\ UNCHANGED <<conf, session, conn, flags, chan>>
     ELSE Disconnect
  /\ UNCHANGED <<hasVoice, volSync>>

ErrorService ==
  /\ Hears("ERROR") /\ lastcmd.cmd \in ServiceCmds \ {"CHUP"}
  /\ lastcmd' = NoCmd
  /\ \/ /\ lastcmd.cmd = "A"
        /\ Hangup(needchup)
        /\ UNCHANGED outgoing
     \/ /\ lastcmd.cmd = "D"
        /\ outgoing' = FALSE
        /\ Hangup(FALSE)
     \/ /\ lastcmd.cmd = "CLIR"
        /\ Enqueue(<<With("D", lastcmd.obj)>>)
        /\ UNCHANGED <<outgoing, needchup, conn, chan>>
     \/ /\ lastcmd.cmd \notin {"A", "D", "CLIR"}
        /\ UNCHANGED <<queue, outgoing, needchup, conn, chan>>
  /\ volSync' = (volSync /\ lastcmd.cmd # "CLVL")
  /\ UNCHANGED <<conf, session, hasVoice, hasSms, incoming, needring>>

-----------------------------------------------------------------------------
(* at_response: unsolicited lines, and the data lines of an answer.        *)

(* Fault: a report of the SIM starts the count of PIN entries again. *)
ResponseCpinRecounts(s) ==
  /\ Hears("CPIN")
  /\ simstatus' = s /\ pincount' = 0
  /\ UNCHANGED <<conf, link, initialized, registered, incomingPdu, sticky, pipe, conn, flags,
                 chan>>

ResponseCpin(s) ==
  /\ Hears("CPIN")
  /\ simstatus' = s
  /\ UNCHANGED <<conf, link, initialized, registered, incomingPdu, pincount, sticky, pipe,
                 conn, flags, chan>>

(* AT+COPS? is appended even when the line does not parse (reg = registered). *)
ResponseCreg(reg) ==
  /\ Hears("CREG") /\ Room
  /\ Enqueue(<<Plain("COPS")>>)
  /\ registered' = reg
  /\ UNCHANGED <<conf, link, initialized, incomingPdu, sim, sticky, lastcmd, conn, flags,
                 chan>>

(* Fault: a message announced while an answer is awaited is passed over. *)
ResponseCmtiIdle(i) ==
  /\ Hears("CMTI") /\ Room
  /\ ~conf.disablesms
  /\ Enqueue(IF Awaiting THEN <<>> ELSE <<With("CMGR", i)>>)
  /\ UNCHANGED <<conf, session, sticky, lastcmd, conn, flags, chan>>

ResponseCmti(i) ==
  /\ Hears("CMTI") /\ Room
  /\ ~conf.disablesms
  /\ Enqueue(<<With("CMGR", i)>>)
  /\ UNCHANGED <<conf, session, sticky, lastcmd, conn, flags, chan>>

ResponseCmgr ==
  /\ Hears("CMGR")
  /\ incomingPdu' = TRUE
  /\ UNCHANGED <<conf, link, initialized, registered, sim, sticky, pipe, conn, flags, chan>>

(* Fault: a PDU that does not parse is passed over. *)
ResponsePduSkips(parsed) ==
  /\ Hears("PDU") /\ lastcmd.cmd = "CMGR" /\ incomingPdu
  /\ incomingPdu' = FALSE
  /\ UNCHANGED <<conf, link, initialized, registered, sim, sticky, pipe, conn, flags, chan>>

(* A line no prefix classifies, while a message is being read: its PDU. *)
ResponsePdu(parsed) ==
  /\ Hears("PDU") /\ lastcmd.cmd = "CMGR" /\ incomingPdu
  /\ IF parsed
     THEN /\ incomingPdu' = FALSE
          /\ UNCHANGED <<conf, link, initialized, registered, sim, pipe, conn, flags, chan>>
     ELSE Disconnect
  /\ UNCHANGED sticky

(* A line that does not parse and whose handler returns -1 (^RSSI, +CSQ,   *)
(* +CPMS, ^ORIG, ^CONN, +CMTI, +CUSD).                                     *)
MalformedLine ==
  /\ Hears("MALFORMED")
  /\ Disconnect
  /\ UNCHANGED sticky

SyncVolume == Enqueue(<<Plain("CLVL")>>) /\ volSync' = FALSE

ResponseOrig ==
  /\ Hears("ORIG") /\ Room
  /\ SyncVolume
  /\ UNCHANGED <<conf, session, hasVoice, hasSms, lastcmd, conn, flags, chan>>

(* Fault: the end of a call without an owner is passed over. *)
ResponseCendOwned ==
  /\ Hears("CEND")
  /\ IF conn = NoConn
     THEN UNCHANGED <<queue, conn, chan, flags>>
     ELSE /\ Hangup(FALSE)
          /\ incoming' = FALSE /\ outgoing' = FALSE /\ needring' = FALSE
  /\ UNCHANGED <<conf, session, sticky, lastcmd>>

ResponseCend ==
  /\ Hears("CEND")
  /\ Hangup(FALSE)
  /\ incoming' = FALSE /\ outgoing' = FALSE /\ needring' = FALSE
  /\ UNCHANGED <<conf, session, sticky, lastcmd>>

(* A new channel takes the card, whoever had it. *)
ResponseClip(c) ==
  /\ Hears("CLIP") /\ initialized /\ ~needring
  /\ chan[c] = "free"
  /\ chan' = [chan EXCEPT ![c] = "routing"]
  /\ conn' = c
  /\ incoming' = TRUE /\ needchup' = TRUE /\ needring' = TRUE
  /\ UNCHANGED <<conf, session, sticky, pipe, outgoing>>

(* startRouter fails and destroys the new channel, which clears m_conn: the *)
(* disconnect that follows finds no owner to tell.                          *)
ResponseClipFails ==
  /\ Hears("CLIP") /\ initialized /\ ~needring
  /\ DropLink
  /\ conn' = NoConn
  /\ UNCHANGED <<sticky, chan>>

(* Fault: a card that is not in service takes calls. *)
ResponseRingEarly ==
  /\ Hears("RING") /\ Room
  /\ incoming' = TRUE
  /\ IF incoming THEN UNCHANGED <<queue, volSync>> ELSE SyncVolume
  /\ UNCHANGED <<conf, session, hasVoice, hasSms, lastcmd, conn, outgoing, needchup, needring,
                 chan>>

ResponseRing ==
  /\ Hears("RING") /\ initialized /\ Room
  /\ incoming' = TRUE
  /\ IF incoming THEN UNCHANGED <<queue, volSync>> ELSE SyncVolume
  /\ UNCHANGED <<conf, session, hasVoice, hasSms, lastcmd, conn, outgoing, needchup, needring,
                 chan>>

(* BUSY and NO DIALTONE *)
ResponseBusy ==
  /\ \E res \in {"BUSY", "NO_DIALTONE"} : Hears(res)
  /\ Room
  /\ Hangup(TRUE)
  /\ UNCHANGED <<conf, session, sticky, lastcmd, incoming, outgoing, needring>>

ResponseNoCarrier ==
  /\ Hears("NO_CARRIER") /\ Room
  /\ lastcmd' = IF lastcmd.cmd = "A" THEN NoCmd ELSE lastcmd
  /\ Hangup(TRUE)
  /\ UNCHANGED <<conf, session, sticky, incoming, outgoing, needring>>

-----------------------------------------------------------------------------
(* Calls from the engine's threads.                                        *)

SendSms ==
  /\ Connected /\ initialized /\ registered /\ hasSms /\ Room
  /\ Enqueue(<<Plain("CMGS")>>)
  /\ UNCHANGED <<conf, session, sticky, lastcmd, conn, flags, chan>>

SendUssd ==
  /\ Connected /\ initialized /\ registered /\ Room
  /\ Enqueue(<<Plain("CUSD")>>)
  /\ UNCHANGED <<conf, session, sticky, lastcmd, conn, flags, chan>>

Busy == ~initialized \/ incoming \/ outgoing

(* msgExecute, up to its test of isBusy. *)
Execute(c) ==
  /\ chan[c] = "free" /\ ~Busy
  /\ chan' = [chan EXCEPT ![c] = "picked"]
  /\ UNCHANGED <<conf, session, sticky, pipe, conn, flags>>

(* msgExecute: new DatacardChannel and setConnection, without the lock. *)
SetConnection(c) ==
  /\ chan[c] = "picked"
  /\ chan' = [chan EXCEPT ![c] = "dialing"]
  /\ conn' = c
  /\ UNCHANGED <<conf, session, sticky, pipe, flags>>

(* msgExecute: newCall, which takes the lock but tests nothing. *)
NewCall(c, clir) ==
  /\ chan[c] = "dialing" /\ Room
  /\ chan' = [chan EXCEPT ![c] = "out"]
  /\ Enqueue(<<With(IF clir THEN "CLIR" ELSE "D", c)>>)
  /\ outgoing' = TRUE /\ needchup' = TRUE
  /\ UNCHANGED <<conf, session, sticky, lastcmd, conn, incoming, needring>>

(* The router has connected an incoming call to a peer. *)
Routed(c) ==
  /\ chan[c] = "routing"
  /\ chan' = [chan EXCEPT ![c] = "in"]
  /\ UNCHANGED <<conf, session, sticky, pipe, conn, flags>>

SendAnswer(c) ==
  /\ chan[c] = "in" /\ incoming /\ Room
  /\ Enqueue(<<Plain("A")>>)
  /\ UNCHANGED <<conf, session, sticky, lastcmd, conn, flags, chan>>

SendDtmf(c) ==
  /\ chan[c] \in {"in", "out"} /\ Room
  /\ Enqueue(<<Plain("DTMF")>>)
  /\ UNCHANGED <<conf, session, sticky, lastcmd, conn, flags, chan>>

(* The destructor of a channel runs sendHangup, whoever owns the card now. *)
Destroy(c) ==
  /\ chan[c] \in Owning \cup {"ended"} /\ (needchup => Room)
  /\ chan' = [chan EXCEPT ![c] = "free"]
  /\ Enqueue(Chup)
  /\ conn' = NoConn
  /\ needchup' = FALSE /\ needring' = FALSE
  /\ UNCHANGED <<conf, session, sticky, lastcmd, incoming, outgoing>>

-----------------------------------------------------------------------------

Monitor == \/ TryConnect \/ MonitorStart \/ SendCommand \/ Timeout
           \/ LostConnection \/ LostEarly \/ MonitorLate \/ MonitorLeave

Answer == \/ OkChained \/ OkCpin \/ OkCnmi \/ OkService
          \/ ErrorRequired \/ ErrorOptional \/ ErrorSmsProbe \/ ErrorService

Unsolicited ==
  \/ \E s \in SimReports : ResponseCpin(s)
  \/ \E reg \in BOOLEAN : ResponseCreg(reg)
  \/ \E i \in SmsIndexes : ResponseCmti(i)
  \/ ResponseCmgr
  \/ \E parsed \in BOOLEAN : ResponsePdu(parsed)
  \/ MalformedLine \/ ResponseOrig \/ ResponseCend
  \/ \E c \in Channels : ResponseClip(c)
  \/ ResponseClipFails \/ ResponseRing \/ ResponseBusy \/ ResponseNoCarrier

Engine ==
  \/ SendSms \/ SendUssd
  \/ \E c \in Channels : \/ Execute(c) \/ SetConnection(c)
                         \/ \E clir \in BOOLEAN : NewCall(c, clir)
                         \/ Routed(c) \/ SendAnswer(c) \/ SendDtmf(c) \/ Destroy(c)

Next == Monitor \/ Answer \/ Unsolicited \/ Engine

Spec == Init /\ [][Next]_vars
=============================================================================
