# A verification of yate-datacard

yate-datacard is a channel driver for the Yate telephony engine. It drives
Huawei UMTS modems ("cards") through two serial lines: AT commands on the data
tty, raw audio on the audio tty. This directory holds a TLA+ model of the
driver, the configurations TLC checks it with, and proofs checked by TLAPS.

## 1. Inventory

| Component | Source | State | Operations | Talks to |
|---|---|---|---|---|
| AT command engine | `at_response.cpp`, `at_io.cpp` | `m_commandQueue`, `m_lastcmd`, `m_incoming_pdu`, `m_volume_synchronized` | `processATEvents`, `at_response` and its handlers | modem (data tty); session; calls |
| Initialisation | `at_response.cpp:166-523` | `m_initialized`, `m_simstatus`, `m_pincount`, `m_has_voice`, `m_has_sms` | the `OK` and `ERROR` of each init command | AT command engine |
| Device session | `datacarddevice.cpp:34-365` | `m_connected`, `m_running`, the two descriptors | `opentty`, `tryConnect`, `startMonitor`, `disconnect`, `stopRunning` | discovery thread, monitor and media threads |
| Call control | `datacard.cpp:217-335`, `datacarddevice.cpp:542-620, 983-1061` | `m_conn`, `m_incoming`, `m_outgoing`, `m_needchup`, `m_needring`; the `DatacardChannel`s | `msgExecute`, `incomingCall`, `newCall`, `Hangup`, `sendAnswer`, `sendHangup`, `sendDTMF` | engine threads, AT command engine |
| SMS | `datacarddevice.cpp:475-519`, `at_response.cpp:777-826, 1008` | commands in the queue, `m_incoming_pdu` | `sendSMS`, `receiveSMS`, `+CMTI`, `+CMGR`, prompt, PDU | engine, PDU codec |
| USSD | `datacarddevice.cpp:521-540, 769`, `at_response.cpp:828` | commands in the queue | `sendUSSD`, `+CUSD` | engine, character conversion |
| Line reader | `at_io.cpp:34-84` | `m_rd_buff`, `m_rd_buff_pos`, `m_state` | `handle_rd_data` | AT command engine |
| Threads and lifecycle | `datacarddevice.cpp:82-187, 819-960` | the threads, `m_run`, `m_devices` | `run`, `cleanDevices`, `stopEP` | everything |
| Registry | `datacarddevice.cpp:889-935` | `m_devices` | `appendDevice`, `findDevice` | engine glue |
| Answer parsing | `at_parse.cpp` | none | `at_parse_*` | AT command engine |
| PDU codec | `pdu.cpp`, `pdu.h` | the fields of a `PDU` | `parse`, `generate` | SMS |
| Character conversion | `char_conv.cpp` | none | UCS-2, hexadecimal, 7-bit | SMS, USSD |
| End reasons | `endreasons.h`, `datacarddevice.cpp:622` | none | `getReason` | call control |
| Engine glue | `datacard.cpp` | module settings | `received`, `initialize`, handlers, command line | engine |

**How they interact.** One discovery thread (`DevicesEndPoint::run`) calls
`tryConnect` on each card that is down. `tryConnect` opens the ttys and starts a
monitor thread and a media thread. The monitor thread polls the data tty: data
goes, one line at a time, to `at_response`; when there is none and no answer is
awaited the first queued command is written. Threads of the engine dial, answer,
hang up and send messages by appending commands to the same queue. `m_mutex`
protects a card, but not every access takes it: `setConnection`, `isRunning` and
`stopRunning` do not.

**What is hard.** A final result (`OK`, `ERROR`) names no command: the driver
attributes it to the one command awaited, so a late, lost or doubled answer
shifts or stops everything after it. The init chain, the engine's requests and
the reactions to unsolicited lines share one queue. `disconnect` can happen at
any line, and must leave nothing behind. `msgExecute` works in three steps with
the lock released between them. `m_conn` is a raw pointer to an object the
engine destroys when it likes.

**What makes each component correct.**

- AT command engine: an answer is read for the command it answers; nothing
  awaited survives the session; what is queued is eventually written or dropped.
- Initialisation: one command at a time, in order, the PIN at most once, no
  service without the last command; it ends.
- Device session: it comes back after faults.
- Call control: the card never refers to a channel that has ended; the flags of a
  call are consistent with the session and do not outlive it.
- SMS: a message is not deleted before the engine has it; what was accepted for
  sending is sent or dropped with the session; `disablesms` disables.
- Line reader: lines are delivered whole, in order, in the session they belong to.
- Lifecycle: a connected card has a monitor and its own descriptors; nothing leaks;
  it is connected again after every loss.
- Codecs: decoding what was encoded gives it back; lengths agree with contents.

## 2. Modules

| Module | What it is |
|---|---|
| `ATCommands` | the commands, and the order of the init chain |
| `CardDevice` | one card: its state, and one action for every handler, request and step of a thread |
| `CardDeviceProps` | its type invariant, safety invariants and action property |
| `CardDevice_proofs` | their proofs |
| `CardInit` | abstract specification: initialisation as a sequential program |
| `CardInitRefinement` | the refinement mapping from `CardDevice` to `CardInit` |
| `CardInit_proofs` | the proof that it is one |
| `ModemLink` | a `CardDevice` composed with a modem and the two directions of the tty |
| `ModemLink_proofs` | the proofs of its two invariants |
| `CallLink` | a `CardDevice` composed with a modem that has a call, the network and the engine |
| `CallLink_proofs` | the proofs of its four invariants |
| `LineReader` | `handle_rd_data`, byte by byte, and the dialogue of `AT+CMGS` that depends on it |
| `LineReader_proofs` | the proofs of its two invariants and of the order of lines |
| `DeviceLifecycle` | the sessions of one card as its discovery, monitor and media threads see them |
| `DeviceLifecycle_proofs` | the proofs of its invariants |
| `UserData` | the user data of a short message, written and read (`pdu.cpp`) |
| `UserData_proofs` | the proofs that a message is read as it was written, or refused, and a USSD decoded as it was encoded; on `MCUserData` |
| `SevenBit` | the 7-bit coding of USSD (`char_conv.cpp`) |
| `Pdu` | whole messages: `PDU::parse` and `PDU::generate` |
| `Pdu_proofs` | the proofs about addresses, whole messages, reports, what is cut, messages to submit, and the three answers; on `MCFormats` |
| `Answers` | `+CREG`, `+CUSD` and `+COPS` taken apart (`at_parse.cpp`) |
| `MCCardDevice`, `MCModemLink`, `MCCallLink`, `MCDeviceLifecycle`, `MCUserData`, `MCFormats` | instances for TLC |

### CardDevice

Variables are named for the fields they model (`initialized` is `m_initialized`,
and so on). Three deserve a word:

- `link` is `m_connected` and where the monitor thread is: `"down"`, not connected and without
  one; `"starting"`, connected, between the `tryConnect` that starts the threads and the first
  locked section of `processATEvents` (the prologue); `"up"`, in its loop. The media
  thread may disconnect the card at any of these places, so there are two more: `"lost"`, when it did
  before the prologue, which then queues `AT` on a card that is down and ends
  (`LostEarly`, `MonitorLate`), and `"leaving"`, when it did while the monitor was in a poll
  that asked for POLLOUT, so that the monitor writes a command queued since to a closed
  descriptor and awaits its answer (`LostConnection`, `MonitorLeave`). What they leave in the
  pipe, `LeftBehind` and `BlindCmds`, the prologue of the next session drops. In `"starting"`
  a card is connected although its queue has not been reset.
- `lastcmd` is the command awaiting its answer, `NoCmd` when there is none. A
  command is a kind and an object: the index of a stored message, or the channel
  that dials (standing for the number).
- `chan[c]` is the life of a `DatacardChannel` as the driver sees it. The steps
  of `msgExecute` are `free -> picked -> dialing -> out`, as it takes the lock in
  `isBusy`, not at all in `setConnection`, and again in `newCall`. An incoming
  call is `routing` until the router gives it a peer. `ended` is a channel that
  was told to end and whose destructor, which calls `sendHangup`, has not run.

Each action is a section of code run with `m_mutex` held, or an unlocked step
between two of them, with everything it changes: a handler that returns -1 is
followed in the same locked section by `disconnect`, so `Disconnect` is a part of
the action.
`disconnect` calls `Hangup` for the owner of the card: `EndOwner`. A channel that
has no peer takes no notice of `onHangup` (the engine's `disconnect` of an end
point does nothing then); so it stays as it is and is only cleared from `m_conn`.

`CardDevice` assumes that **a session has one monitor thread**, as it is when the
threads of a session have left before the next `tryConnect`. The code does not ensure it:
`m_running` is a field of the card, and a thread that does not look at it
between `disconnect` and the next `tryConnect` (by default seconds later) stays. Likewise
an attempt is one that starts both threads: the monitor of an attempt whose media thread does not start runs its
prologue on a card that is not connected, as `MonitorLate` does. `DeviceLifecycle`
has those overlaps and attempts, and what holds in spite of them. What two
monitors would do to one queue of commands is not modelled.

In `CardDevice` **the modem is free**: any line may arrive at any time. What holds
there holds of a modem that answers late, twice, wrongly or never. `m_has_voice`,
`m_has_sms` and `m_volume_synchronized` are not set by the constructor, and start
with any value.

A few operators are introduced by a comment that starts with "Fault". They are not part of
the specification. Each is a plausible mistake in the operator that follows it;
replacing that operator by it makes TLC report the property it endangers, which
shows that the property depends on that piece of code.

### ModemLink

Adds the two directions of the data tty as first-in first-out sequences and a
modem that executes each command once and answers it with its data lines and one
final result. It may lose an answer, interpose a line the driver does not know,
report a message at any time, or be pulled out; these faults, and the requests of
the engine, are counted and bounded by `MaxEvents`. With `LateAnswers` an answer may
take longer than the second after which `poll` returns, and reach the next session.
An unread line is lost with the session. The modem is not code of this
repository; its definitions say how the driver uses it.

`missed` is history: the messages that were not reported when the session they
came in ended, or when one of its answers was lost. Nothing in the code reads
those again, so `MessageReported` excepts them, and says of all others that they
reach the engine whatever else is pending.

### CallLink

The same card, in service, with calls. The modem has one call at a time: it
refuses `ATD` while it has one, reports it with `RING` and `+CLIP`, `^ORIG` and
`^CEND`, and may say `BUSY` or `NO CARRIER` before `^CEND`. The network calls and ends
calls, the engine runs the three steps of `msgExecute` and answers and destroys
channels, at any time; the card may be lost, with its call. No answer is late or
lost (`ModemLink` has those); DTMF, messages and USSD, and the answering of one call
twice, are left out.

Where two calls meet the code leaves something to chance, and a property that
ignored it would be false. `mishaps` is history and names the ways in which they
met; each property excepts those that do break it, and no other:

| Mishap | What happens, and where | What it breaks |
|---|---|---|
| `blind` | `newCall` on a card lost since `isBusy` (`datacard.cpp:322`): `m_outgoing` is set on a card that is down | the card stays busy |
| `overlap` | a channel becomes the owner of a card that has a call (`datacard.cpp:319`, `at_response.cpp:751`) | the former owner is not told of its end |
| `unheard` | `onHangup` of a channel without a peer (`datacard.cpp:278`) | the channel stays |
| `foreign` | the destructor clears the `m_conn` of another channel (`datacarddevice.cpp:1035`) | that channel is not told of its end |
| `early` | a channel ends while its `AT+CLIR` is unanswered; its `ATD` is appended afterwards (`at_response.cpp:338`) | the call has no channel |
| `stale` | a call ends with its `ATA` queued (`datacarddevice.cpp:1012`) | the next call is answered by nobody; a flag stays |
| `undialled` | a call ends while the `ATD` of another is still queued: `^CEND` ends the channel that dials and clears `m_needchup` (`at_response.cpp:694`, `datacarddevice.cpp:618`) | the call then dialled has no channel |
| `unrouted` | the router of an incoming call fails; the `AT+CHUP` queued for it is cleared (`at_response.cpp:754`) | the caller is not refused |

### LineReader

A byte knows its line and its place in it, so that the properties can say what was
cut where; what it spells is its line's kind. The modem puts CR LF before and
after a line, nothing after the prompt of `AT+CMGS`, and echoes commands with their
CR until the echo is off. `reading` is true while `handle_rd_data` waits for the
rest of a line with `m_mutex` held. `m_state` and `m_rd_buff` belong to the card
and survive a session, as in the code. The constructor sets neither `m_rd_buff` nor
`m_rd_buff_pos`, so the first session begins with anything in the buffer, at any position
in it (`Unset`; a position outside has the effect of the last, `at_io.cpp:41`): what it reads first may be
taken for a line of any kind. `stale` says that the buffer was not clear, there or after a session lost in a line,
and the properties that except the first line of such a session say so. `at_response` is reduced to what the dialogue
needs: it may fail, take a result, or write the text of a message, or an empty one, at the prompt.
Numbers of lines are taken modulo `MaxWire + 1`, more than can be on the way.

### DeviceLifecycle

The state is `m_connected`, `m_running`, the two descriptors, the descriptors the
process has open, and for each thread its place in its loop: `test` looks at
`m_running` (without the lock), `check` is `devStatus` (with it), `poll` waits without
the lock, `failed` is on the way to `disconnect`. The media thread copies the
descriptor before it polls (`copy`), so it may poll that of an earlier session: the
copy is `pfd`. So does the monitor thread, without the lock (`fds`), and reads from `m_data_fd` when its
poll has said so. `open` gives the lowest free descriptor, as the system does, so that
the number a stale copy holds may name a tty of the new session. `OpenFails` and `StartFails` are the early
returns of `tryConnect`, with what they leave undone: a descriptor, a monitor
thread on a card that is not connected. `Disconnect` is part of the action of the
thread that calls it.

### UserData and SevenBit

Pure operators, named for the C functions. A user data is a length field and a
sequence of octets; the digits that spell an octet are abstracted, the end that
a short line lacks is not. `text2pdu` packs bit by bit behind a header,
`char_to_hexstr_7bit` shifts characters against each other: two algorithms for one
format, which `PackersAgree` compares. `MCUserData` enumerates their inputs: a
message is composed, written, and loses its end octet by octet. The driver sends
UCS-2 without headers only (`sendSMS`); texts and headers come from the network,
packed in the same format. A USSD text is not empty: `sendUSSD` does not refuse an empty
one, but `in_length - 1` wraps (`char_conv.cpp:170`), and what is then read is undefined.

### Pdu and Answers

`Pdu` is `PDU::parse` and `PDU::generate` over sequences of octets: a PDU is read
from its front, each test of its length included, and refused where the code
returns false. `Sender` stands for the branches on numeric and alphanumeric
addresses, which `parseDeliver` and `parseStatusReport` have twice. `generate`
has no `"old"` mode, header, flash or report: the class has no setter for them, and they are as
the constructor leaves them. An alphabet of 0 is stored as -1 by the code.

Where the code goes beyond an array, the result is `Undefined`, a value of its own, and
nothing is stated of it:

- `generate` writes the PDU, as hexadecimal text, into `m_pdu` and asks for no length (`FitsPdu`,
  `pdu.cpp:597, 1466-1480`), nor does `sendSMS`. With the 160 characters of the code, a
  UCS-2 text of more than 32 characters to a number of eleven digits does not fit. `SubmitRead` says
  of every message whether it fits, and of those that do what the network reads.
- `parse` copies a service centre into the 64 characters of `m_smsc` when it has 33
  octets or more (`SmscOverruns`, `pdu.cpp:861`), and a number of 63 or 64 digits into those
  of `m_number` (`NumberOverruns`, `pdu.cpp:992`). The same goes for a number that does not end before
  the PDU does: no length is tested there, and what is behind the end is read.

`pdu_room`, the size of `m_pdu`, is a constant apart from `max_pdu`, which is also the most
characters a text may have: in the code both are 160. A service centre so long that
`generate` would cut it (`snprintf` into 64 characters) is left out; the driver sets none.

`Answers` has the three parsers of `at_parse.cpp` that scan by hand or by
expression; a line is a sequence of tokens. `Space` and `Quote` are names (constants) for
the tokens of a space and a quote, since the strings that spell them are beyond the provers; all that
is assumed of them is that they differ from every other token. `CregStep` is one turn of the loop of
`at_parse_creg`, with its states and its cases that fall through.

`MCFormats` states how the network spells a message, a report, an address and
an answer; the driver's operators are compared with that.

## 3. Runs

| Run | Checks | Bounds | Shows |
|---|---|---|---|
| `session` | `TypeOK` `InitToken` `ReadyHasSms` `PinCounted` `NothingOutlives` `PinOncePerSession` `InitChain` | no channels, 1 stored message, 3 pending commands, 2 configurations | a session against a free modem |
| `calls` | `IncomingInService` `OwnerAlive` | 2 channels (symmetric), 2 pending commands | two calls, each dialled or incoming |
| `modem` | `AnswersMatch` `MessageKept` `MessageReported` `InitEnds` `ServiceReached` | 1 message, 3 events, 9 pending commands, SIM with or without PIN | the card and a modem in time |
| `callmodem` | `FreeWhenQuiet` `NothingOwed` `EndsTold` `CallsOwned` `Settles` | 2 channels, 2 events (calls, second rings, losses), 12 pending commands | two calls over a modem with one |
| `linereader` | `LinesInOrder` `TextWhenAsked` `CommandsHeard` `Released` `SmsAnswered` | buffer of 3, clear or unset at first, lines of 1, 2, 3 and 5 characters, 2 lines on the way | lines cut out of bytes, and the prompt |
| `lifecycle` | `Attended` `HoldsTtys` `DescriptorBound` `Reconnected` `StoppedLeave` | 2 monitor and 2 media threads at once, 6 descriptors, 2 failed attempts, 2 failures of a tty | overlapping sessions |
| `userdata` | `RoundTrip` `NeverGarbled` `UssdRoundTrip` `PackersAgree` `MessageRead` `ReportRead` `CutRefused` `SubmitRead` `CregRead` `QuotedRead` | messages of up to 9 characters, headers of up to 8 octets, limits of 12 septets and 7 octets; `m_pdu` of 27 characters, `m_number` of 20, `m_smsc` of 5; numbers of up to 4 digits, names of up to 11 characters, all cuts behind the address | coding of SMS and USSD, whole PDUs, answers |
| `atsign` | `DeliveredWhole`, violated | 2 characters | finding 5 |
| `late` | `MessageKept`, violated | 1 message, no other fault | finding 2 |
| `lostanswer` | `SmsLeaves`, violated | 2 events | finding 3 |
| `voiceonly` | `ServiceReached`, violated | modem refusing `AT+CMGF` | finding 1 |
| `disablesms` | `NoSmsWhenDisabled`, violated | `disablesms=yes` | finding 4 |

**Why the bounds are enough.** The interplay in the pipe is between the one
command of the chain, one command of another origin and the awaited one, so three
pending commands show every order; the two configurations of `session` take both
values of every option. Two channels are needed for a call to meet another one,
and a channel is reused after its destructor, so sequences of calls are not
bounded. In `modem` the limit of nine commands never binds (at most five are ever
pending): no step is withheld because of it, which the liveness properties need.
Three events allow a fault in the session that recovers from a fault.
In `callmodem` two events are two calls, or a call and the loss of the card. A
channel is reused after its destructor, so a third call may well meet the two:
the attempt to prove `CallsOwned` found `undialled`, which takes three (a dial is queued
while a second `RING` and the `^CEND` of an older call cross it). The four invariants are proved, for
any number of events; the conjuncts that the proof of `CallsOwned` adds were also checked with three. Twelve
pending commands are never reached. In `linereader` a buffer of three characters is
exceeded by a line of three (its end does not fit), and by one of five twice over
with its end; one and two are the whole lines. Two lines on the way are an echo and the answer
after it, or a prompt and the report that completes it. The buffer of a new card is clear or, up to
any position, holds what is taken for a line of any of the four kinds: fourteen initial states.

In `lifecycle` two threads of each kind are one of the present session and one of an earlier
one, or of a failed attempt; the same invariants hold with three monitors. `SpareThreads` is the
bound's own guard: a failed attempt may not use up the threads the model has.
Six descriptors are two of a session and two for each failed attempt, so the model
never runs out of them. In `userdata` nine characters pass the eighth, where the packing starts anew;
headers take every length modulo seven, which gives every number of filler bits;
names have up to eleven characters, the most the network puts into an address, and numbers of one to four digits
have an even and an odd length with and without a digit between;
the limits are small, so that messages exceed them; messages to submit have 10 to 17 octets, and `m_pdu` has room for 13; `Space` and `Quote` are model values. The two characters are each
other's complement and no palindrome of bits: a bit moved to another place shows.

`Room` (fewer than `MaxPending` commands pending) is the only bound in a guard of
`CardDevice`. The code has none: its queue grows without limit. It guards the
actions that add a command without an answer being consumed. `BUSY`, `NO CARRIER` and the destructor
are held back by it as well when they may add `AT+CHUP`.

`CHECK_DEADLOCK FALSE` is set where `ModemLink`, `CallLink` and `LineReader` are checked: a card in service with
nothing to do, when the bounded events are used up, really stops; and for `MCUserData` and `MCFormats`, which end with the octets. The
other runs check for deadlock.

**Fairness** (`ModemLink`). Weak fairness of `Connect` (the discovery thread tries
each card again, on a timer), of the monitor thread (`Start`, `Write`, `Read`,
`Silence`: a loop around `poll` with a timeout) and of the modem executing
commands (`Serve`). Nothing is assumed of the network, of requests, or that an
answer ever arrives. `Serve` may lose an answer as long as `MaxEvents` allows, so
`ServiceReached` says: after finitely many faults the card is in service, again and again.

`CallLink` has the same fairness. Nothing is assumed of the engine or the other
side: a channel may never be destroyed, a call may ring for ever.

In `LineReader`, weak fairness of reading a byte that is there, strong fairness of
the modem taking what was written (the tty may be closed again and again
meanwhile), and weak fairness of reports: the modem goes on reporting its signal strength. The last is
needed, and says something of the code. The prompt has no line end, so `handle_rd_data` waits
in `read` with `m_mutex` held until the next line begins; with a modem that says
nothing while it waits for the text, nobody would ever go on.

In `DeviceLifecycle`, weak fairness of `Connects` (the ttys are there when the
discovery thread comes round) and of the steps of each thread, whose `poll` returns within a
second. That a thread notices a tty that failed is not assumed but follows: it polls again.

### Findings

1. `voiceonly`. A card with voice but without SMS support is marked initialised,
   logged as "initialized and ready" and disconnected in the same handler
   (`at_response.cpp:509-521`); the discovery thread repeats this for ever.
2. `late`. The tty is reopened without a flush (`datacarddevice.cpp:72-73`). One
   `OK` that arrives after the session that awaited it is taken for the first
   answer of the next, which reaches service one answer ahead of its modem. The
   `OK` taken for that of `AT+CMGR` lets `AT+CMGD` delete the message; its PDU
   then finds another command awaited and is ignored.
3. `lostanswer`. In service a missing answer is only logged (`at_io.cpp:145-155`,
   where the `disconnect()` is commented out). `m_lastcmd` stays set: no command
   is ever written again, yet `sendSMS` goes on returning true.
4. `disablesms`. `sendSMS` does not read `m_disablesms`, which
   `datacard.conf.sample:39` documents as "Disable sending and receive SMS".
5. `atsign`. `receiveSMS` gives the text to the engine as a C string
   (`datacarddevice.cpp:517`): a text is cut at its first "@", which is the
   character 0 that `pdu.cpp:496` calls valid.

## 4. Proofs

All for every value of the constants, under the named assumptions
of `ATCommands`, `CardDevice`, `CallLink`, `LineReader`, `DeviceLifecycle`, `UserData`, `MCUserData`, `Pdu`, `Answers` and `MCFormats` (`NoObj` is no channel and no index; the
configurations, lines and SIM reports are of their types; bounds and limits are natural
numbers; the line buffer holds a prompt; the descriptors are finitely many numbers; `m_pdu` has 256 characters at most; the messages read by `MCFormats` fit the limits of the
format and the arrays of an address, and the items of a line are what they look like). TLC evaluates those assumptions in every run.

| Theorem | Statement |
|---|---|
| `TypeCorrect` | `Spec => []TypeOK` |
| `SafetyHolds` | `Spec => []Safety`, the conjunction of the six invariants, with one corollary for each |
| `PinOnceHolds` | `Spec => PinOncePerSession` |
| `InitChainHolds` | `Spec => InitChain`, the card implements `CardInit` |
| `AnswersMatchHolds`, `MessageKeptHolds` | the invariants of `ModemLink`, without late answers (`late` shows that they fail with them) |
| `FreeHolds`, `NothingOwedHolds`, `EndsToldHolds`, `CallsOwnedHolds` | the invariants of `CallLink`, for any number of channels, calls, second rings and losses of the card |
| `TextWhenAskedHolds`, `CommandsHeardHolds` | the invariants of `LineReader`, for every size of the buffer and every length of lines |
| `LinesInOrderHolds` | `Spec => LinesInOrder`: each line is read once, in order, without parts of another, but for the first line of a session that found the buffer not clear |
| `RoundTripHolds`, `NeverGarbledHolds` | the invariants of `MCUserData` about user data, for all characters, lengths and limits |
| `AttendedHolds`, `HoldsTtysHolds`, `DescriptorBoundHolds` | the invariants of `DeviceLifecycle`, for any number of overlapping sessions; its types are `TypeCorrect` there |
| `TextRoundTrip` | `pdu2text` gives back every text and header that `text2pdu` wrote, at any length that fits |
| `NumberRoundTrip` | swapping the digits of what `generate` wrote, without its F, gives the number back |
| `PackersAgreeHolds`, `UssdRoundTripHolds` | the invariants of `MCUserData` about USSD, for texts of any length |
| `CodingHolds` | `FormatsSpec`, which the run `userdata` checks, implements the specification of `MCUserData`, so the four invariants hold there too |
| `MessageReadHolds`, `ReportReadHolds`, `CutRefusedHolds` | a message or a report is read as the network sent it, or refused if any of its end behind the address is lost, for numbers and names of any length that fits |
| `SubmitReadHolds` | what `generate` writes of a message that fits into `m_pdu` has its fields where the network looks for them, for numbers of any length and every size of `m_pdu`; of the others it is undefined |
| `QuotedReadHolds` | a text in quotes of any length is taken whole out of `+CUSD`, and a name out of `+COPS` |
| `CregReadHolds` | status and cell are read in each form of `+CREG` |
| `NameLength`, `NameFits` | the characters of an alphanumeric sender, from its length in semi-octets; they are all in its octets |

**The argument.** `InitToken` is the heart: exactly one init command is in the
pipe while the session initialises, and otherwise none, or the `AT` that a monitor left behind
which began after its card was lost. That one stays at the head of the queue, is never awaited, and
is there only while the card is `"down"` or `"starting"`, until the prologue of the next session
clears the queue. `InitToken` is the reason that
at_response's guard `!m_initialized` is enough to keep the chain from forking
although the final results are not matched with commands. It is inductive only
together with the types, with `NothingOutlives` (outside of a session the pipe holds only what
was put there since) and with `ReadyHasSms` (initialised means in the loop). `PinCounted` needs
`InitToken`: the PIN is appended only when `AT+CPIN?`, which was the token, is
answered, so nothing else of the chain can be there. `IncomingInService` and
`OwnerAlive` are inductive with the types. `Safety` is the conjunction; each
step is proved by one lemma per action. Actions that only append commands, or
only take the answer, share lemmas on what that does to `Slots`.

For the refinement, the stage of the abstract program is the kind of the token,
which `InitToken` makes unique. Each action maps to a step of `CardInit` if it
answers the token, to `Drop` if it ends the session, and to a stutter otherwise. A session lost before
its prologue has not begun to initialise, so `LostEarly` and `MonitorLate` are stutters; that needs `CountIdle`,
that no PIN is counted outside of a loop.

In `DeviceLifecycle`, `Attended` is inductive with the types: `connected` and
`running` are set together and cleared together, and a monitor leaves by itself only
when it finds `running` cleared, or with a `Disconnect`. `HoldsTtys` is inductive alone, since
nothing closes a descriptor but the `Disconnect` of the card that holds it.
`DescriptorBound` is a count: every action adds to the open descriptors at most what it adds
to the right-hand side. `Disconnect` takes both away, which needs `HoldsTtys`.

In `ModemLink` the inductive invariant `LinkInv` is that of the card, the types of the
modem's lists, and four statements about what is on its way. `AnswersMatch` is
one: a command is written only when nothing is awaited, and an answer ends with its only
final result. `MessageKept` needs the other three, which say where a
deletion can come from: `DeletesReported`, an `AT+CMGD` that is queued or awaited
names a message the engine has; `ReadFirst`, while an `AT+CMGR` for a message the engine does not have is awaited,
before its `OK` there is a line that will be taken for its PDU; and `PduAnswered`, the PDU of a
message on its way has its final result behind it, so that none is left over for the next
`AT+CMGR`. Each step of the composition is a step of the card or leaves it
alone (`CardStep`), so `CardDevice_proofs` is used as it is; the rest is one lemma for each
action and each of the four statements. Outside of a session nothing is on its way (`LinesIdle`), whatever a
monitor that leaves puts into the pipe. Both theorems assume that no answer is late.

In `CallLink` the first three theorems rest on `MeetInv`: the card's own invariant, and
what the three queues (the driver's, `tx`, `rx`) still owe a call. `InCall` says that
the modem has a call or that its `^CEND` is still to be read; a card that thinks itself in a call has
one in that sense (`CallIn`), and one that dialled has one or has a dial on its way
(`CallOut`). `Reported`, `OneSent`, `AnswerDue` and `Carried` are what makes this
inductive: every report of a call has the end of that call behind it, one command is on its
way at a time, an `ATA` is for a call of the modem, and a `NO CARRIER` ends a call or refuses an `ATA` that
came too late. `HangupDue` says the same of `m_needchup`, `Owned` of the channels: one
in a call is the owner, and the flags of the card are those of its call. When all is
quiet nothing is left in the queues, so nothing is owed.

`CallsOwned` needs `OwnInv`, which adds who hangs up, on histories without the seven mishaps it excepts. A command that
begins a call (`DialOwned`, `AnswerOwned`), and then the call itself (`LiveOwned`),
has an owner with a peer, or an `AT+CHUP` behind it. The danger is a line of an older call, read after
the next was begun: `EndsOld` says that such a `^CEND` is read before
the answer to the command that began the next call, when the owner is not yet one in a call; `OneDial`, `DialFirst`, `DialIdle`,
`DialingIdle` and `RefusedIdle` say that there is one dial at a time and that it finds
the modem without a call or is refused; `LiveBusy`, `FailBusy`, `DialBusy` and
`AnswerBusy`, that the flags isBusy looks at are up as long as any of this is under
way. Both invariants were checked by TLC before they were proved. Each line that is read is one of eight cases (`LineCases`), by what its handler does
to calls, so that the proof has one lemma for each case and not one for each handler.

In `LineReader` the inductive invariant `DialogueInv` follows the prompt, the text and the
result of `AT+CMGS` by the first byte of each, since at_response recognises a line by its
beginning: bytes of a line that overflowed may be anywhere, but its beginning is in one
place or lost. A modem that asked for a text has one prompt on its way to at_response, or
one text coming, or has lost them (`Asked`); one that did not has neither (`NotAsked`),
except that the buffer of a lost session may hold a prompt. That one is answered with the
empty text, because the next session is not initialised before it has read the buffer
(`LeftOver`), and only an initialised card sends `AT+CMGS`. `Waiting` says the same of the
command that `m_lastcmd` awaits and its result, as long as no session ended before it.

`LinesInOrder` needs `OrderInv`, which follows the bytes from the modem to `at_response`.
`Wire` says that what is in the buffer and on its way is in the order in which it was
said: each byte is followed by the next one of its line, or by the beginning of the
next line. `EndsTwice` adds that CR LF are both there behind a line that may overflow the
buffer, which takes one of them with it. `Stored` says that the buffer
holds consecutive characters of one line, and `First` what the first byte not
yet given can be: a character of the line that is due, the first one if the line
fits in the buffer, or what is left of the end of the line before. `LeftOrder` says of a
buffer of a lost session, or of a new card, that nothing on its way can be joined to it unseen. The invariant
needs `DialogueInv`: a prompt has no line end behind it and an echo none before
it, so that the two would be read as one line, if a modem that asked for a text
were sent a command (`NoPromptLast`). TLC checked `OrderInv` on the bounds of the run
`linereader` before it was proved.

`TextRoundTrip` needs no induction: every bit of the result is a bit of the text.
`FillAligns` shows that writer and reader agree on where the text starts, for headers of every length
(7 septets-of-header = 8 octets-of-header + filler bits); `WrittenBit` that bit n of the
octets is bit n - filler of the text; `ReaderFinds` that it is where the reader looks;
`SeptetOfBits` that its bits make the character. `TextNotGarbled` needs the same of
octets whose end is missing: the reader refuses those that do not reach the last bit
of the text, and no bit before it has moved. `BinaryNotGarbled` rests on the length field, which counts what
`binary2pdu` leaves out, so that a copy that was cut is refused. `Kept` says that a
user data is what was written, but for its end; both invariants follow. They are
theorems of `Spec` of `MCUserData`; the run `userdata` checks `FormatsSpec`, which implements
it (`CodingHolds`): its steps are those of `Spec`, or leave the user data alone.

The packers of a USSD and the parsers of answers are **folds** of the community modules, whose
definition recurs over sets of indices and chooses the greatest one left. The
proofs that need one show first that such a function exists, by induction over finite sets, and
that it takes the indices in order (`FoldDefined`, `CregFold`), and then use its equation for
each step. So `char_to_hexstr_7bit` is a formula for each octet, which shifts one septet against the
next; the same formula describes what `text2pdu` writes without a header (`PackersAgree`), and
`UssdRoundTrip` follows from it as `TextRoundTrip` does.

For **whole messages** `FormatsInv` says that an item is whole, or a message or report that has lost
at most its body. An address is `Formed` when `parse` reads out of its octets, whatever is behind
them, what was written, and goes on where they end; every number that fits and every
name is (`NumberRoundTrip`, `NameLength`, `NameFits`). `CentreFound` says it of the address of the service
centre. What is left after both is the body, so that `BodyShape` can say what each
octet of it is, and `RoundTrip` of its user data what text is read. For `CutRefused` the length of what is left
falls short of one of the tests on the way: of the identifiers, the time
stamp, the length of the user data, or, inside it, of what that length announces. In `SubmitRead` each
field that `generate` writes is found at its distance from the beginning, and its octets are counted
against `m_pdu` (`SubmitBounded`). That nothing of the run's messages overruns `m_smsc` or `m_number` is part of
`CentreFound` and `AddressFound`.

Of a **line** with a quoted text the tokens before and behind the text are known; the first comma is
before it and the last one behind it, whatever the text holds, so both expressions
end where the line was put together (`CusdAfter`, `FirstFound`). For `+CREG` the loop is
followed turn by turn: after the colon, a space, an item, a comma it is in the state, and has found the
fields, that `At` names (`StatusPlace`, `CellPlace`); the strings that begin there end at the next
comma (`StringFound`), and `FieldsRead` says which of them are status and cell.

**Only model-checked**: the liveness properties (`MessageReported`, `InitEnds`,
`ServiceReached`, `Settles`, `Released`, `SmsAnswered`, `Reconnected`, `StoppedLeave`), which the prover
does not do. Every other property of a passing run is a theorem. The messages, reports and
lines of `MCFormats` are those its definitions enumerate: a proof holds for every bound and every limit, but
three service centres, three texts and the items of a `+CREG` line stand for
all others, as they do in the run; texts of any kind are the subject of `RoundTrip`.

## 5. Not modelled, and what comes next

Left out on purpose: audio data, texts of status displays and the command line,
the fields that only they show (operator, signal, IMEI), module registration. Lines whose handler
changes only such fields are not actions.

- Names: of hangup reasons (`getReason` and the tables of `endreasons.h`), of header
  elements (`explain_udh`, which keeps the name of the last element it knew for one it
  does not), of types of address and of delivery statuses. No state depends on them.
- iconv, and with it UCS-2; hexadecimal digits (`ucs2char_to_hexstr` prints a
  signed `char`). The remaining parsers are single `sscanf` calls.
- `findDevice` by parameters, a search of one list: `disconnect` clears the IMEI and
  the IMSI, so a card that is down matches any request that leaves out one of them.
- `sendDTMF` adds the digit to the literal as an offset (`datacarddevice.cpp:1055`):
  what is sent is not the digit. `CardDevice` has the command, not its text.
- The end of the module (`cleanDevices`, `stopEP`): what the threads read of a
  destroyed device is undefined.
- What two monitor threads of one card would do to one queue; `DeviceLifecycle` says
  when there are two.

The plan, in order:

1. An abstract specification of a call, with the mishaps of `CallLink` as its only
   deviations, and `CardDevice` shown to implement it; calls with late answers.
2. `DeviceLifecycle`: the audio buffer, and the timing under which sessions do not overlap.
3. `LineReader` refined to the sequence of lines that `ModemLink` reads.
4. Proofs: that `LineReader` implements a sequence of lines; messages with any text that fits.
