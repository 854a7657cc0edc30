--------------------------- MODULE DeviceLifecycle ---------------------------
(***************************************************************************)
(* The sessions of one CardDevice as its threads see them: the discovery   *)
(* thread opens the two ttys and starts a monitor and a media thread; both *)
(* of these may call disconnect, and both run on until they next look at   *)
(* m_running, which a new session may by then have set again.  What they   *)
(* say to the modem is CardDevice's matter: here a thread finds its tty    *)
(* well or not.  An operator introduced as a "Fault" is a plausible        *)
(* mistake in the one that follows it.                                     *)
(***************************************************************************)
EXTENDS Naturals, FiniteSets

CONSTANTS
  Monitors,     \* bound: the monitor threads that may exist at once
  Medias,       \* bound: the media threads that may exist at once
  Fds,          \* the descriptors the process may have open
  NoFd,         \* -1
  MaxFailures,  \* bound: attempts to connect that fail
  MaxLosses     \* bound: failures of a tty that a thread notices

ASSUME FdAssumption == Fds \subseteq Nat /\ IsFiniteSet(Fds) /\ NoFd \notin Fds
ASSUME BoundAssumption == MaxFailures \in Nat /\ MaxLosses \in Nat

VARIABLES
  connected,  \* m_connected
  running,    \* m_running
  dataFd,     \* m_data_fd
  audioFd,    \* m_audio_fd
  open,       \* the descriptors of ttys the process has open
  monitor,    \* where each monitor thread is in processATEvents
  media,      \* where each media thread is in MediaThread::run
  fds,        \* the copy of m_data_fd a monitor thread polls
  pfd,        \* the copy of m_audio_fd a media thread polls
  failures, losses

card == <<connected, running, dataFd, audioFd, open>>
vars == <<card, monitor, media, fds, pfd, failures, losses>>

MonitorPlaces == {"none", "starting", "test", "check", "copy", "poll", "failed"}
MediaPlaces   == {"none", "starting", "test", "copy", "poll", "failed"}

(* m_running is not set by the constructor. *)
Init ==
  /\ connected = FALSE /\ running \in BOOLEAN
  /\ dataFd = NoFd /\ audioFd = NoFd /\ open = {}
  /\ monitor = [t \in Monitors |-> "none"]
  /\ media = [t \in Medias |-> "none"]
  /\ fds = [t \in Monitors |-> NoFd] /\ pfd = [t \in Medias |-> NoFd]
  /\ failures = 0 /\ losses = 0

-----------------------------------------------------------------------------
(* The discovery thread.                                                   *)

(* open gives the lowest descriptor that is free. *)
Lowest(free) == CHOOSE f \in free : \A g \in free : f <= g
FirstFree(free) == IF free = {} THEN {} ELSE {Lowest(free)}

Fails == failures < MaxFailures /\ failures' = failures + 1

(* The data tty, or the audio tty after it, does not open, or opens and    *)
(* does not answer tcgetattr: a descriptor that did open stays so.         *)
OpenFails ==
  /\ ~connected /\ Fails
  /\ \E replies \in BOOLEAN :
       \/ /\ dataFd' = NoFd
          /\ open' = open \cup IF replies THEN {} ELSE FirstFree(Fds \ open)
          /\ UNCHANGED audioFd
       \/ /\ Fds \ open # {}
          /\ dataFd' = Lowest(Fds \ open) /\ audioFd' = NoFd
          /\ open' = open \cup {dataFd'} \cup
                     IF replies THEN {} ELSE FirstFree((Fds \ open) \ {dataFd'})
  /\ UNCHANGED <<connected, running, monitor, media, fds, pfd, losses>>

OpenTtys ==
  /\ Cardinality(Fds \ open) >= 2
  /\ dataFd' = Lowest(Fds \ open)
  /\ audioFd' = Lowest((Fds \ open) \ {dataFd'})
  /\ open' = open \cup {dataFd', audioFd'}
  /\ running' = TRUE

StartMonitor(t) == monitor[t] = "none" /\ monitor' = [monitor EXCEPT ![t] = "starting"]
StartMedia(t)   == media[t] = "none" /\ media' = [media EXCEPT ![t] = "starting"]

(* The bounds on threads leave room for an attempt that succeeds: a failed  *)
(* one leaves m_running set, so the threads there are need not leave.       *)
SpareThreads ==
  /\ \E t, u \in Monitors : t # u /\ monitor[t] = "none" /\ monitor[u] = "none"
  /\ \E t \in Medias : media[t] = "none"

(* Fault: m_connected is set before the threads have started. *)
StartFailsConnected(t) ==
  /\ ~connected /\ SpareThreads /\ Fails
  /\ OpenTtys /\ connected' = TRUE
  /\ \/ UNCHANGED monitor
     \/ StartMonitor(t)
  /\ UNCHANGED <<media, fds, pfd, losses>>

(* One of the two threads does not start: the monitor, or the media thread *)
(* after it.  The card is not connected, and nothing is undone.            *)
StartFails(t) ==
  /\ ~connected /\ SpareThreads /\ Fails
  /\ OpenTtys
  /\ \/ UNCHANGED monitor
     \/ StartMonitor(t)
  /\ UNCHANGED <<connected, media, fds, pfd, losses>>

Connects(t, u) ==
  /\ ~connected
  /\ StartMonitor(t) /\ StartMedia(u)
  /\ OpenTtys /\ connected' = TRUE
  /\ UNCHANGED <<fds, pfd, failures, losses>>

-----------------------------------------------------------------------------

(* Fault: one descriptor is not closed. *)
DisconnectForgets ==
  IF connected
  THEN /\ connected' = FALSE /\ running' = FALSE
       /\ dataFd' = NoFd /\ audioFd' = NoFd /\ open' = open \ {dataFd}
  ELSE UNCHANGED card

(* Fault: m_running is cleared, and the card still connected. *)
DisconnectKeeps ==
  /\ running' = FALSE /\ dataFd' = NoFd /\ audioFd' = NoFd
  /\ open' = open \ {dataFd, audioFd}
  /\ UNCHANGED connected

Disconnect ==
  IF connected
  THEN /\ connected' = FALSE /\ running' = FALSE
       /\ dataFd' = NoFd /\ audioFd' = NoFd /\ open' = open \ {dataFd, audioFd}
  ELSE UNCHANGED card

Loses == losses < MaxLosses /\ losses' = losses + 1

(* A tty is found gone: it failed, or its descriptor is not open. *)
FoundGone(ttys) == IF ttys \subseteq open THEN Loses ELSE UNCHANGED losses

-----------------------------------------------------------------------------
(* A monitor thread.                                                       *)

MonitorAt(t, here, there) == monitor[t] = here /\ monitor' = [monitor EXCEPT ![t] = there]

MonitorBegin(t) ==
  /\ MonitorAt(t, "starting", "test")
  /\ UNCHANGED <<card, media, fds, pfd, failures, losses>>

MonitorTest(t) ==
  /\ MonitorAt(t, "test", IF running THEN "check" ELSE "none")
  /\ UNCHANGED <<card, media, fds, pfd, failures, losses>>

(* dataStatus and audioStatus, with the lock. *)
MonitorCheck(t) ==
  /\ \/ /\ {dataFd, audioFd} \subseteq open
        /\ MonitorAt(t, "check", "copy")
        /\ UNCHANGED <<card, losses>>
     \/ /\ FoundGone({dataFd, audioFd})
        /\ MonitorAt(t, "check", "none")
        /\ Disconnect
  /\ UNCHANGED <<media, fds, pfd, failures>>

(* Without the lock. *)
MonitorCopy(t) ==
  /\ MonitorAt(t, "copy", "poll")
  /\ fds' = [fds EXCEPT ![t] = dataFd]
  /\ UNCHANGED <<card, media, pfd, failures, losses>>

(* poll of the copy, then a read of m_data_fd: nothing is wrong, or        *)
(* something is.                                                           *)
MonitorPoll(t) ==
  /\ \/ MonitorAt(t, "poll", "test") /\ UNCHANGED losses
     \/ MonitorAt(t, "poll", "failed") /\ FoundGone({fds[t], dataFd})
  /\ fds' = [fds EXCEPT ![t] = NoFd]
  /\ UNCHANGED <<card, media, pfd, failures>>

MonitorLeave(t) ==
  /\ MonitorAt(t, "failed", "none")
  /\ Disconnect
  /\ UNCHANGED <<media, fds, pfd, failures, losses>>

-----------------------------------------------------------------------------
(* A media thread.                                                         *)

MediaAt(t, here, there) == media[t] = here /\ media' = [media EXCEPT ![t] = there]

MediaBegin(t) ==
  /\ MediaAt(t, "starting", "test")
  /\ UNCHANGED <<card, monitor, fds, pfd, failures, losses>>

(* Fault: the loop does not look at m_running. *)
MediaTestAlways(t) ==
  /\ MediaAt(t, "test", "copy")
  /\ UNCHANGED <<card, monitor, fds, pfd, failures, losses>>

MediaTest(t) ==
  /\ MediaAt(t, "test", IF running THEN "copy" ELSE "none")
  /\ UNCHANGED <<card, monitor, fds, pfd, failures, losses>>

MediaCopy(t) ==
  /\ MediaAt(t, "copy", "poll")
  /\ pfd' = [pfd EXCEPT ![t] = audioFd]
  /\ UNCHANGED <<card, monitor, fds, failures, losses>>

(* poll ignores a negative descriptor. *)
MediaPoll(t) ==
  /\ \/ MediaAt(t, "poll", "test") /\ UNCHANGED losses
     \/ MediaAt(t, "poll", "failed") /\ pfd[t] # NoFd /\ FoundGone({pfd[t]})
  /\ pfd' = [pfd EXCEPT ![t] = NoFd]
  /\ UNCHANGED <<card, monitor, fds, failures>>

MediaLeave(t) ==
  /\ MediaAt(t, "failed", "none")
  /\ Disconnect
  /\ UNCHANGED <<monitor, fds, pfd, failures, losses>>

-----------------------------------------------------------------------------

Discovery == \/ OpenFails
             \/ \E t \in Monitors : StartFails(t) \/ \E u \in Medias : Connects(t, u)

MonitorStep(t) == \/ MonitorBegin(t) \/ MonitorTest(t) \/ MonitorCheck(t)
                  \/ MonitorCopy(t) \/ MonitorPoll(t) \/ MonitorLeave(t)

MediaStep(t) == \/ MediaBegin(t) \/ MediaTest(t) \/ MediaCopy(t)
                \/ MediaPoll(t) \/ MediaLeave(t)

Next == \/ Discovery
        \/ \E t \in Monitors : MonitorStep(t)
        \/ \E t \in Medias : MediaStep(t)

(* The discovery thread comes round after m_interval seconds, and finds    *)
(* the ttys; poll returns within a second, so every thread goes on.        *)
Fairness == /\ WF_vars(\E t \in Monitors, u \in Medias : Connects(t, u))
            /\ \A t \in Monitors : WF_vars(MonitorStep(t))
            /\ \A t \in Medias : WF_vars(MediaStep(t))

Spec == Init /\ [][Next]_vars

FairSpec == Spec /\ Fairness

-----------------------------------------------------------------------------

(* Every field holds a value of its declared type. *)
TypeOK ==
  /\ connected \in BOOLEAN /\ running \in BOOLEAN
  /\ dataFd \in Fds \cup {NoFd} /\ audioFd \in Fds \cup {NoFd}
  /\ open \subseteq Fds
  /\ monitor \in [Monitors -> MonitorPlaces]
  /\ media \in [Medias -> MediaPlaces]
  /\ fds \in [Monitors -> Fds \cup {NoFd}] /\ pfd \in [Medias -> Fds \cup {NoFd}]
  /\ failures \in 0 .. MaxFailures /\ losses \in 0 .. MaxLosses

(* A connected card is attended: a monitor thread exists that will notice  *)
(* its loss, and none of its threads finds m_running cleared.  tryConnect  *)
(* never looks again at a card that is connected, so without a monitor it  *)
(* would be lost for good.                                                 *)
Attended == connected => running /\ \E t \in Monitors : monitor[t] # "none"

(* A connected card holds two open descriptors of its own; disconnect, by  *)
(* whichever thread, closes those and never others.                        *)
HoldsTtys == connected => dataFd # audioFd /\ {dataFd, audioFd} \subseteq open

(* Sessions leak no descriptor however they end, by either thread or by    *)
(* both: only a failed attempt to connect does, two at most.               *)
DescriptorBound == Cardinality(open) <= 2 * failures + (IF connected THEN 2 ELSE 0)

(* A card whose ttys open is connected to them again after every loss,     *)
(* whichever thread of whichever session noticed it.                       *)
Reconnected == []<>(connected /\ {dataFd, audioFd} \subseteq open)

(* Once m_running is cleared the threads of the session leave, unless it   *)
(* is set again before they look.                                          *)
StoppedLeave ==
  /\ \A t \in Monitors : (monitor[t] # "none" /\ ~running) ~> (monitor[t] = "none" \/ running)
  /\ \A t \in Medias : (media[t] # "none" /\ ~running) ~> (media[t] = "none" \/ running)
=============================================================================
