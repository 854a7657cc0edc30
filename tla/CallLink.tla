------------------------------ MODULE CallLink ------------------------------
(***************************************************************************)
(* A CardDevice, the modem it talks to, and the calls of the network and   *)
(* of the engine.  The modem has one call at a time and refuses a dial     *)
(* while it has one.  It executes each command once and answers it,        *)
(* reports its call with RING and +CLIP, ^ORIG and ^CEND, and may say BUSY *)
(* or NO CARRIER before ^CEND.  No answer is lost or late: ModemLink has   *)
(* those.  The engine runs msgExecute in its three steps, and connects,    *)
(* answers and destroys channels at any time.                              *)
(***************************************************************************)
EXTENDS CardDeviceProps

CONSTANTS
  MaxEvents   \* bound: calls begun, second rings, losses of the card

ASSUME EventsAssumption == MaxEvents \in Nat

(* The card comes into service with a SIM that is ready. *)
ASSUME SimReadyAssumption == 0 \in SimReports

VARIABLES
  tx,       \* commands written and not yet executed
  rx,       \* lines the driver has not read
  call,     \* of the modem: "none", "dialled", "ringing" or "active"
  events,   \* how many of MaxEvents have happened
  mishaps   \* history: in which ways the calls have met

modem == <<tx, rx, call, events>>
all   == <<vars, modem, mishaps>>

(* What the code leaves to chance when two calls meet, or a call meets the *)
(* loss of the card; the properties name the ones they except.             *)
(*   blind     newCall on a card that is not in service                    *)
(*   overlap   a channel took the card of a call in progress               *)
(*   unheard   a channel without a peer was told of its end                *)
(*   foreign   a destructor cleared the m_conn of another channel          *)
(*   early     a channel ended with its AT+CLIR not yet answered           *)
(*   stale     a call ended with its ATA still queued                      *)
(*   undialled a call ended with the ATD of another still queued           *)
(*   unrouted  the router of an incoming call could not be started         *)

(* The card is in service when the first call comes. *)
CallInit ==
  /\ conf \in Confs
  /\ link = "up" /\ initialized = TRUE /\ registered = TRUE
  /\ simstatus = 0 /\ pincount = 0 /\ incomingPdu = FALSE
  /\ hasVoice = TRUE /\ hasSms = TRUE /\ volSync = TRUE
  /\ queue = <<>> /\ lastcmd = NoCmd
  /\ conn = NoConn /\ chan = [c \in Channels |-> "free"]
  /\ incoming = FALSE /\ outgoing = FALSE /\ needchup = FALSE /\ needring = FALSE
  /\ tx = <<>> /\ rx = <<>> /\ call = "none" /\ events = 0
  /\ mishaps = {}

Event == events < MaxEvents /\ events' = events + 1

Note(kind, happens) == mishaps' = IF happens THEN mishaps \cup {kind} ELSE mishaps

(* Objects have no identity before they are created: any free one will do. *)
NewChannel(c) == chan[c] = "free" /\ c = CHOOSE d \in Channels : chan[d] = "free"

-----------------------------------------------------------------------------
(* The driver.                                                             *)

(* What becomes of the owner when its call ends with the line res. *)
EndNoted(res) ==
  mishaps' = mishaps
    \cup (IF conn # NoConn /\ chan[conn] \notin {"in", "out"} THEN {"unheard"} ELSE {})
    \cup (IF Slots({"A"}) # {} THEN {"stale"} ELSE {})
    \cup (IF res = "CEND" /\ Slots({"CLIR", "D"}) # {} THEN {"undialled"} ELSE {})

Ignored(res) ==
  \/ res \in {"OK", "ERROR"} /\ ~Awaiting
  \/ res = "RING" /\ ~initialized
  \/ res = "CLIP" /\ (~initialized \/ needring)

AtResponse(res) ==
  \/ /\ \/ res = "OK" /\ (OkChained \/ OkCpin \/ OkCnmi \/ OkService)
        \/ res = "CPIN" /\ ResponseCpin(0)
        \/ res = "ORIG" /\ ResponseOrig
        \/ res = "RING" /\ ResponseRing
        \/ Ignored(res) /\ UNCHANGED vars
     /\ UNCHANGED mishaps
  \/ /\ \/ res = "ERROR" /\ (ErrorRequired \/ ErrorService)
        \/ res = "CEND" /\ ResponseCend
        \/ res = "BUSY" /\ ResponseBusy
        \/ res = "NO_CARRIER" /\ ResponseNoCarrier
     /\ EndNoted(res)
  \/ /\ res = "CLIP"
     /\ \E c \in Channels : NewChannel(c) /\ ResponseClip(c)
     /\ Note("overlap", conn # NoConn)
  \/ res = "CLIP" /\ ResponseClipFails /\ Note("unrouted", TRUE)

Connect == TryConnect /\ UNCHANGED <<modem, mishaps>>
Start   == MonitorStart /\ UNCHANGED <<modem, mishaps>>

(* The monitor of a lost session leaves. *)
Leave   == (MonitorLate \/ MonitorLeave) /\ UNCHANGED <<modem, mishaps>>

(* POLLIN is served before POLLOUT. *)
Write ==
  /\ rx = <<>>
  /\ SendCommand
  /\ tx' = Append(tx, Head(queue))
  /\ UNCHANGED <<rx, call, events, mishaps>>

(* What is not read when the session ends is lost. *)
Read ==
  /\ link = "up" /\ rx # <<>>
  /\ AtResponse(Head(rx))
  /\ rx' = IF link' = "down" THEN <<>> ELSE Tail(rx)
  /\ tx' = IF link' = "down" THEN <<>> ELSE tx
  /\ UNCHANGED <<call, events>>

-----------------------------------------------------------------------------
(* The engine.                                                             *)

Dial(c)  == NewChannel(c) /\ Event /\ Execute(c) /\ UNCHANGED <<tx, rx, call, mishaps>>
Own(c)   == SetConnection(c) /\ Note("overlap", Busy \/ conn # NoConn) /\ UNCHANGED modem
Place(c) == \E clir \in BOOLEAN :
              NewCall(c, clir) /\ Note("blind", ~initialized) /\ UNCHANGED modem
Route(c) == Routed(c) /\ UNCHANGED <<modem, mishaps>>

(* A peer answers once, as far as the pipe can tell. *)
Pick(c)  == Slots({"A"}) = {} /\ SendAnswer(c) /\ UNCHANGED <<modem, mishaps>>

Release(c) ==
  /\ Destroy(c)
  /\ mishaps' = mishaps
       \cup (IF conn \notin {c, NoConn} THEN {"foreign"} ELSE {})
       \cup (IF \E i \in 0 .. Len(queue) : Slot(i) = With("CLIR", c) THEN {"early"} ELSE {})
  /\ UNCHANGED modem

-----------------------------------------------------------------------------
(* The modem and the network.                                              *)

Hear(lines) == rx' = IF link = "up" THEN rx \o lines ELSE rx

(* The answer to a command, and what becomes of the call. *)
ServeDial ==
  /\ Head(tx).cmd = "D"
  /\ IF call = "none" THEN call' = "dialled" /\ Hear(<<"OK", "ORIG">>)
                      ELSE Hear(<<"ERROR">>) /\ UNCHANGED call

ServeAnswer ==
  /\ Head(tx).cmd = "A"
  /\ \/ call = "ringing" /\ call' = "active" /\ Hear(<<"OK">>)
     \/ /\ call # "ringing"
        /\ \E res \in {"ERROR", "NO_CARRIER"} : Hear(<<res>>)
        /\ UNCHANGED call

ServeHangup ==
  /\ Head(tx).cmd = "CHUP"
  /\ call' = "none"
  /\ Hear(IF call = "none" THEN <<"OK">> ELSE <<"OK", "CEND">>)

ServeOther ==
  /\ Head(tx).cmd \notin {"D", "A", "CHUP"}
  /\ Hear(IF Head(tx).cmd = "CPIN" THEN <<"CPIN", "OK">> ELSE <<"OK">>)
  /\ UNCHANGED call

Serve ==
  /\ tx # <<>>
  /\ ServeDial \/ ServeAnswer \/ ServeHangup \/ ServeOther
  /\ tx' = Tail(tx)
  /\ UNCHANGED <<vars, events, mishaps>>

NetworkCalls ==
  /\ call = "none" /\ Event
  /\ call' = "ringing"
  /\ Hear(<<"RING", "CLIP">>)
  /\ UNCHANGED <<vars, tx, mishaps>>

RingsAgain ==
  /\ call = "ringing" /\ Event
  /\ Hear(<<"RING", "CLIP">>)
  /\ UNCHANGED <<vars, tx, call, mishaps>>

RemoteAnswers ==
  /\ call = "dialled"
  /\ call' = "active"
  /\ UNCHANGED <<vars, tx, rx, events, mishaps>>

RemoteEnds ==
  /\ call # "none"
  /\ call' = "none"
  /\ \/ Hear(<<"CEND">>)
     \/ call # "ringing" /\ (\E res \in {"BUSY", "NO_CARRIER"} : Hear(<<res, "CEND">>))
  /\ UNCHANGED <<vars, tx, events, mishaps>>

(* The card is pulled out, or resets itself, with its call. *)
Unplug ==
  /\ Event
  /\ LostConnection \/ LostEarly
  /\ tx' = <<>> /\ rx' = <<>> /\ call' = "none"
  /\ EndNoted("LOST")

-----------------------------------------------------------------------------

Engage == \E c \in Channels :
            Dial(c) \/ Own(c) \/ Place(c) \/ Route(c) \/ Pick(c) \/ Release(c)

CallNext ==
  \/ Connect \/ Start \/ Leave \/ Write \/ Read \/ Serve
  \/ NetworkCalls \/ RingsAgain \/ RemoteAnswers \/ RemoteEnds \/ Unplug
  \/ Engage

(* The discovery thread and the monitor thread run, and the modem executes *)
(* what it is sent.                                                        *)
CallFairness ==
  /\ WF_all(Connect) /\ WF_all(Start) /\ WF_all(Leave)
  /\ WF_all(Write) /\ WF_all(Read) /\ WF_all(Serve)

CallSpec == CallInit /\ [][CallNext]_all /\ CallFairness

-----------------------------------------------------------------------------

(* Each property names the mishaps it excepts: without them the code does  *)
(* break it.                                                               *)
Without(kinds) == mishaps \cap kinds = {}

(* All that was said has been heard. *)
Quiet == /\ link = "up" /\ initialized
         /\ tx = <<>> /\ rx = <<>> /\ queue = <<>> /\ ~Awaiting

(* isBusy is not true for ever of a card without a call: whatever became   *)
(* of the calls, both flags are down when the card is quiet again.         *)
FreeWhenQuiet ==
  Quiet /\ call = "none" /\ Without({"blind"}) => ~incoming /\ ~outgoing

(* Nor does such a card owe an AT+CHUP, or refuse the next +CLIP: what     *)
(* BUSY, NO CARRIER and the destructors left in these flags is used up.    *)
NothingOwed ==
  Quiet /\ call = "none" /\ Without({"blind", "stale"}) => ~needchup /\ ~needring

(* No channel waits on a call that is over: each end of a call reaches the *)
(* channel it concerns.                                                    *)
EndsTold ==
  Quiet /\ call = "none" /\ Without({"overlap", "unheard", "foreign", "unrouted"})
    => \A c \in Channels : chan[c] \notin {"in", "out"}

(* No call goes on that nobody can hang up: one that was dialled or        *)
(* answered has an owner with a peer.                                      *)
CallsOwned ==
  Quiet /\ call \in {"dialled", "active"}
    /\ Without({"overlap", "unheard", "foreign", "early", "stale", "undialled", "unrouted"})
    => conn # NoConn /\ chan[conn] \in {"in", "out"}

(* The commands that calls append come to an end, AT+CLVL too, which is    *)
(* sent twice for each call: after any calls the card is quiet again.      *)
Settles == []<>Quiet
=============================================================================
