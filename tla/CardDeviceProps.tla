-------------------------- MODULE CardDeviceProps ---------------------------
(***************************************************************************)
(* What a CardDevice keeps true, whatever the modem and the engine do.     *)
(***************************************************************************)
EXTENDS CardDevice

(* Every field holds a value of its declared type; in particular a command *)
(* that awaits an answer is one the driver created.                        *)
TypeOK ==
  /\ conf \in Confs
  /\ link \in LinkStates
  /\ initialized \in BOOLEAN /\ registered \in BOOLEAN /\ incomingPdu \in BOOLEAN
  /\ simstatus \in SimStates /\ pincount \in {0, 1}
  /\ hasVoice \in BOOLEAN /\ hasSms \in BOOLEAN /\ volSync \in BOOLEAN
  /\ queue \in Seq(Command) /\ lastcmd \in Command \cup {NoCmd}
  /\ conn \in Channels \cup {NoConn}
  /\ incoming \in BOOLEAN /\ outgoing \in BOOLEAN
  /\ needchup \in BOOLEAN /\ needring \in BOOLEAN
  /\ chan \in [Channels -> ChanStates]

(* The slots of the pipe: slot 0 is the awaited command, the others the queue. *)
Slot(i) == IF i = 0 THEN lastcmd ELSE queue[i]
Slots(kinds) == {i \in 0 .. Len(queue) : Slot(i).cmd \in kinds}

PinCmds == {"CPIN_ENTER"}

Initializing == link = "up" /\ ~initialized

(* The AT of a prologue that came too late: it is queued on a card that is *)
(* not connected, and cleared by the prologue of the next session.         *)
LeftBehind ==
  link \in {"down", "starting"} /\ Slots(InitCmds) = {1} /\ Slots({"AT"}) = {1}

(* While a session initialises, exactly one command of the chain is in the *)
(* pipe, queued or awaiting its answer, and at any other time there is     *)
(* none, but for the AT left behind, which is never sent: a stale, doubled *)
(* or unexpected OK neither forks the chain of at_response_ok nor breaks   *)
(* it, and the chain never restarts.                                       *)
InitToken ==
  IF Initializing THEN \E i \in 0 .. Len(queue) : Slots(InitCmds) = {i}
                  ELSE Slots(InitCmds) = {} \/ LeftBehind

(* A card in service has its monitor in the loop and has passed AT+CNMI:   *)
(* the refusal of sendSMS by a card without SMS support is never reached.  *)
ReadyHasSms == initialized => link = "up" /\ hasSms

(* The PIN is in the pipe only if one is configured and m_pincount counts it. *)
PinCounted == Slots(PinCmds) # {} => conf.pin /\ pincount = 1

(* An incoming call is only recorded on a card in service, and a ringing   *)
(* one is recorded as incoming: disconnect, ^CEND and the destructor of a  *)
(* channel each clear these flags in their own place.                      *)
IncomingInService == (needring => incoming) /\ (incoming => initialized)

(* m_conn never points to a channel that is destroyed, or that has already *)
(* been told to end: Hangup and sendHangup both clear it first.            *)
OwnerAlive == conn # NoConn => chan[conn] \in Owning

(* What the engine appends without looking whether the card is connected. *)
BlindCmds == {"CLIR", "D", "DTMF", "CHUP"}

(* No command outlives its session, queued or awaiting its answer: outside *)
(* of one the pipe holds only what was put there since, by threads of the  *)
(* engine or a monitor that came too late, and the prologue of the next    *)
(* session drops that.  So the first answer of a session is never taken    *)
(* for that of a command of the one before.                                *)
NothingOutlives ==
  link # "up" => \A i \in 0 .. Len(queue) : Slot(i).cmd \in BlindCmds \cup {"AT", "none"}

(* datacard.conf.sample, disablesms: "Disable sending and receive SMS".     *)
NoSmsWhenDisabled == conf.disablesms => Slots({"CMGR", "CMGS"}) = {}

Safety == /\ InitToken /\ ReadyHasSms /\ PinCounted /\ IncomingInService
          /\ OwnerAlive /\ NothingOutlives

-----------------------------------------------------------------------------

(* The PIN enters the pipe only for a SIM that waits for it, and only if no *)
(* PIN was counted; the count never falls but when the link drops.          *)
PinStep == Slots(PinCmds) = {} /\ Slots(PinCmds)' # {} => pincount = 0 /\ simstatus = 1
CountStep == pincount' < pincount => ~Connected'

(* One session enters the PIN at most once: a SIM locks itself for good    *)
(* after three wrong ones.                                                 *)
PinOncePerSession == [][PinStep /\ CountStep]_vars
=============================================================================
