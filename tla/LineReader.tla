----------------------------- MODULE LineReader -----------------------------
(***************************************************************************)
(* handle_rd_data, which cuts what the modem sends into the lines given to *)
(* at_response, and the dialogue that depends on where it cuts: AT+CMGS is *)
(* answered with a prompt, which has no line end, and the text of the      *)
(* message is written when at_response is given the prompt.                *)
(*                                                                         *)
(* The tty is open with VMIN = 1: once poll has said that there is a byte, *)
(* handle_rd_data waits for each further one, with m_mutex held, until it  *)
(* has a line.  m_state and m_rd_buff belong to the card, not to the       *)
(* session: half a line may outlive the loss of the tty.  The constructor  *)
(* sets neither m_rd_buff nor m_rd_buff_pos: the first session of a card   *)
(* begins with whatever its memory held.                                   *)
(*                                                                         *)
(* Of what at_response does, the dialogue of AT+CMGS is kept, and whether  *)
(* it fails.  What a failed session leaves in the tty may reach the next.  *)
(***************************************************************************)
EXTENDS Integers, SequencesExt

CONSTANTS
  RDBUFF_MAX,  \* size of m_rd_buff
  Lengths,     \* how long the reports of the modem may be
  MaxWire      \* bound: lines in the tty, or commands, that the other side
               \* has not taken

ASSUME ReaderAssumption ==
  /\ RDBUFF_MAX \in Nat /\ RDBUFF_MAX > 2   \* the prompt is of two characters
  /\ Lengths \subseteq Nat \ {0}
  /\ MaxWire \in Nat /\ MaxWire >= 2        \* an echo and the answer after it

VARIABLES
  link,      \* "up" while a monitor thread serves an open tty
  ready,     \* m_initialized
  lastcmd,   \* what m_lastcmd waits for: "none", "plain", "sms" (AT+CMGS)
  m_state,   \* WANT_CONTROL or WANT_CMD
  rd_buff,   \* m_rd_buff up to m_rd_buff_pos
  reading,   \* the monitor thread is in handle_rd_data and holds m_mutex
  rx,        \* bytes in the tty
  tx,        \* what the modem has not executed: commands, or the text of an SMS
  mode,      \* what the modem takes its input for: "command" or "text"
  sent,      \* number of the next line of the modem
  due,       \* history: number of the line at_response must be given next
  stale,     \* history: the buffer was not clear when the session began, and
             \* no line has been given since
  cut        \* history: it was not clear, or a session ended with a command
             \* unanswered

reader  == <<m_state, rd_buff, reading>>
modem   == <<tx, mode, sent>>
history == <<due, stale, cut>>
vars    == <<link, ready, lastcmd, reader, rx, modem, history>>

-----------------------------------------------------------------------------
(* Lines and bytes: a byte knows its line and its place in it.  The places *)
(* 0 and len + 1 are those of the line ends before and after.              *)

Lap == MaxWire + 1                    \* numbers of lines are taken modulo Lap
Following(n) == (n + 1) % Lap

Line(kind, len) == [n |-> sent, kind |-> kind, len |-> len]
Byte(line, i) == [line |-> line, i |-> i]
IsEnd(c) == c.i = 0 \/ c.i = c.line.len + 1
Characters(line) == [i \in 1 .. line.len |-> Byte(line, i)]

(* The modem puts CR LF before and after what it reports, nothing after    *)
(* the prompt, and echoes a command with the CR it ended with.             *)
Framed(line) ==
  LET before == <<Byte(line, 0), Byte(line, 0)>>
      end    == Byte(line, line.len + 1)
  IN  CASE line.kind = "prompt" -> before \o Characters(line)
        [] line.kind = "echo"   -> Append(Characters(line), end)
        [] OTHER                -> before \o Characters(line) \o <<end, end>>

LinesIn(bytes) == {bytes[k].line.n : k \in DOMAIN bytes}
RoomFor(n) == Cardinality(LinesIn(rx)) + n <= MaxWire

Kinds == {"prompt", "echo", "result", "report"}

(* What an unset buffer may hold up to an unset position: anything, so     *)
(* also what is taken for a line of any kind.  A position outside of the   *)
(* buffer, on either side, has the effect of RDBUFF_MAX.  What lies behind *)
(* the position reaches at_response too: also with nothing before it, the  *)
(* buffer is not clear.                                                    *)
Unset == {Characters([n |-> 0, kind |-> kind, len |-> pos]) :
            kind \in Kinds, pos \in 0 .. RDBUFF_MAX}

(* The constructor.                                                        *)
Init ==
  /\ link = "down" /\ ready = FALSE /\ lastcmd = "none"
  /\ m_state = "WANT_CONTROL" /\ reading = FALSE
  /\ \/ rd_buff = <<>> /\ stale = FALSE
     \/ rd_buff \in Unset /\ stale = TRUE
  /\ rx = <<>> /\ tx = <<>> /\ mode = "command"
  /\ sent = 0 /\ due = 0 /\ cut = stale

-----------------------------------------------------------------------------
(* The threads of the card.                                                *)

(* tryConnect and the prologue of processATEvents. *)
Connect ==
  /\ link = "down"
  /\ link' = "up" /\ lastcmd' = "none"
  /\ UNCHANGED <<ready, reader, rx, modem, history>>

(* Fault: a command is written while another is unanswered. *)
SendCommandAtOnce ==
  /\ link = "up" /\ ~reading /\ rx = <<>> /\ Len(tx) < MaxWire
  /\ lastcmd' \in IF ready THEN {"plain", "sms"} ELSE {"plain"}
  /\ tx' = Append(tx, lastcmd')
  /\ UNCHANGED <<link, ready, reader, rx, mode, sent, history>>

(* POLLIN is served before POLLOUT. *)
SendCommand ==
  /\ link = "up" /\ ~reading /\ rx = <<>> /\ lastcmd = "none" /\ Len(tx) < MaxWire
  /\ lastcmd' \in IF ready THEN {"plain", "sms"} ELSE {"plain"}
  /\ tx' = Append(tx, lastcmd')
  /\ UNCHANGED <<link, ready, reader, rx, mode, sent, history>>

Disconnect ==
  /\ link' = "down" /\ ready' = FALSE /\ lastcmd' = "none"
  /\ cut' = (cut \/ lastcmd # "none")

(* poll returns 0 on a card that is not initialised. *)
Timeout ==
  /\ link = "up" /\ ~reading /\ rx = <<>> /\ ~ready
  /\ Disconnect
  /\ UNCHANGED <<reader, rx, modem, due, stale>>

(* The card is pulled out: the tty fails under poll or under read, and the *)
(* modem starts anew.  What was read of a line stays in the buffer.        *)
LostTty ==
  /\ link = "up"
  /\ link' = "down" /\ ready' = FALSE /\ lastcmd' = "none"
  /\ reading' = FALSE
  /\ rx' = <<>> /\ tx' = <<>> /\ mode' = "command"
  /\ due' = sent /\ stale' = (stale \/ m_state = "WANT_CMD") /\ cut' = stale'
  /\ UNCHANGED <<m_state, rd_buff, sent>>

-----------------------------------------------------------------------------
(* at_response, given rd_buff.                                             *)

(* at_read_result_classification: the characters it begins with decide. *)
Kind(line) ==
  LET first == line[1].line IN
    IF line # <<>> /\ IsPrefix(Characters(first), line) THEN first.kind ELSE "unknown"

(* Fault: the text is written whatever is awaited. *)
SmsPromptAlways ==
  /\ tx' = Append(tx, "text")
  /\ UNCHANGED <<link, ready, lastcmd, cut>>

(* Fault: the prompt goes unanswered. *)
SmsPromptSilent == UNCHANGED <<link, ready, lastcmd, tx, cut>>

at_response_sms_prompt ==
  /\ tx' = Append(tx, IF lastcmd = "sms" THEN "text" ELSE "empty")
  /\ UNCHANGED <<link, ready, lastcmd, cut>>

Result ==
  /\ lastcmd' = "none"
  /\ ready' \in {ready, TRUE}
  /\ UNCHANGED <<link, tx, cut>>

Passed == UNCHANGED <<link, ready, lastcmd, tx, cut>>

Fails == Disconnect /\ UNCHANGED tx

at_response(kind) ==
  \/ kind = "prompt" /\ at_response_sms_prompt
  \/ kind = "result" /\ Result
  \/ kind \in {"report", "echo", "unknown"} /\ Passed
  \/ kind \in {"result", "report", "unknown"} /\ Fails

-----------------------------------------------------------------------------
(* handle_rd_data: what it does with one byte.                             *)

Full == Len(rd_buff) >= RDBUFF_MAX

(* Fault: the byte is put back and the buffer stays full. *)
OverflowKeeps ==
  /\ Full
  /\ reading' = TRUE
  /\ UNCHANGED <<link, ready, lastcmd, m_state, rd_buff, rx, modem, history>>

(* The buffer is cleared, and the byte with it, be it a line end. *)
Overflow ==
  /\ Full
  /\ rd_buff' = <<>> /\ reading' = TRUE
  /\ rx' = Tail(rx)
  /\ UNCHANGED <<link, ready, lastcmd, m_state, modem, history>>

SkipControl ==
  /\ ~Full /\ m_state = "WANT_CONTROL" /\ IsEnd(Head(rx))
  /\ reading' = FALSE
  /\ rx' = Tail(rx)
  /\ UNCHANGED <<link, ready, lastcmd, m_state, rd_buff, modem, history>>

Store ==
  /\ ~Full /\ ~IsEnd(Head(rx))
  /\ m_state' = "WANT_CMD" /\ rd_buff' = Append(rd_buff, Head(rx)) /\ reading' = TRUE
  /\ rx' = Tail(rx)
  /\ UNCHANGED <<link, ready, lastcmd, modem, history>>

(* The line due after the one that ends with the byte c: a line end that   *)
(* stands before a line ends a prompt, or what the session found.          *)
DueAfter(c) ==
  CASE ~stale           -> Following(due)
    [] stale /\ c.i = 0 -> c.line.n
    [] stale /\ c.i > 0 -> Following(c.line.n)

(* Fault: the buffer is left as it is when at_response has had it. *)
GiveKeeps ==
  /\ ~Full /\ m_state = "WANT_CMD" /\ IsEnd(Head(rx))
  /\ at_response(Kind(rd_buff))
  /\ m_state' = "WANT_CONTROL" /\ reading' = FALSE
  /\ \/ rx' = Tail(rx) /\ due' = DueAfter(Head(rx))
     \/ link' = "down" /\ rx' = <<>> /\ due' = sent
  /\ stale' = FALSE
  /\ UNCHANGED <<mode, sent, rd_buff>>

(* The end of a line: at_response has it, and handle_rd_data returns. *)
Give ==
  /\ ~Full /\ m_state = "WANT_CMD" /\ IsEnd(Head(rx))
  /\ at_response(Kind(rd_buff))
  /\ m_state' = "WANT_CONTROL" /\ rd_buff' = <<>> /\ reading' = FALSE
  /\ \/ rx' = Tail(rx) /\ due' = DueAfter(Head(rx))
     \/ link' = "down" /\ rx' = <<>> /\ due' = sent
  /\ stale' = FALSE
  /\ UNCHANGED <<mode, sent>>

ReadByte ==
  /\ link = "up" /\ rx # <<>>
  /\ Overflow \/ SkipControl \/ Store \/ Give

-----------------------------------------------------------------------------
(* The modem.  What it says while the tty is closed is lost.               *)

Hears(bytes, lines) ==
  IF link = "up" THEN rx' = rx \o bytes /\ sent' = (sent + lines) % Lap
                 ELSE UNCHANGED <<rx, sent>>

Say(line) == Hears(Framed(line), 1)

OK == Line("result", 2)

ServeCommand ==
  /\ mode = "command"
  /\ \/ Head(tx) # "empty" /\ Say(OK) /\ UNCHANGED mode
     \/ /\ Head(tx) = "plain" /\ ~ready /\ RoomFor(2)
        /\ Hears(Framed(Line("echo", 2)) \o Framed([OK EXCEPT !.n = Following(sent)]), 2)
        /\ UNCHANGED mode
     \/ Head(tx) = "sms" /\ Say(Line("prompt", 2)) /\ mode' = "text"
     \/ Head(tx) = "empty" /\ UNCHANGED <<rx, sent, mode>>

ServeText ==
  /\ mode = "text"
  /\ \/ Head(tx) \in {"text", "empty"} /\ Say(OK) /\ mode' = "command"
     \/ Head(tx) \in {"plain", "sms"} /\ UNCHANGED <<rx, sent, mode>>

Serve ==
  /\ tx # <<>> /\ RoomFor(1)
  /\ ServeCommand \/ ServeText
  /\ tx' = Tail(tx)
  /\ UNCHANGED <<link, ready, lastcmd, reader, history>>

Report ==
  /\ link = "up" /\ RoomFor(1)
  /\ \E len \in Lengths : Say(Line("report", len))
  /\ UNCHANGED <<link, ready, lastcmd, reader, tx, mode, history>>

-----------------------------------------------------------------------------

Next == \/ Connect \/ SendCommand \/ Timeout \/ LostTty
        \/ ReadByte \/ Serve \/ Report

(* The monitor thread reads, the modem executes what it is sent, and goes  *)
(* on reporting (signal strength, registration): handle_rd_data needs it   *)
(* to come back from a prompt.                                             *)
Fairness == WF_vars(ReadByte) /\ SF_vars(Serve) /\ WF_vars(Report)

Spec == Init /\ [][Next]_vars /\ Fairness

-----------------------------------------------------------------------------

Given == m_state = "WANT_CMD" /\ m_state' = "WANT_CONTROL"

(* Each line is given to at_response once, in the order of the modem, and  *)
(* never with parts of another: whole, or what follows the last overflow   *)
(* if it does not fit.  Excepted is the first line of a session that found *)
(* the buffer not clear: what the loss of the tty left of an older line,   *)
(* or the memory of a new card, stands before it.                          *)
LineDue ==
  Given /\ ~stale =>
    LET line == IF rd_buff # <<>> THEN rd_buff[1].line ELSE Head(rx).line
    IN  /\ line.n = due
        /\ line.len < RDBUFF_MAX => rd_buff = Characters(line)
        /\ \A k \in DOMAIN rd_buff :
             rd_buff[k] = Byte(line, line.len - Len(rd_buff) + k)
LinesInOrder == [][LineDue]_vars

(* The text of a message is written only to a modem that asked for it. *)
TextWhenAsked == \A k \in DOMAIN tx : tx[k] = "text" => mode = "text"

(* No command is taken for the text of a message, unless a session ended   *)
(* in a line, or before its last command was answered, or the buffer of a  *)
(* new card was not clear.                                                 *)
CommandsHeard ==
  tx # <<>> /\ Head(tx) \in {"plain", "sms"} /\ ~cut => mode = "command"

(* m_mutex is not held for ever: a line that was begun comes to its end. *)
Released == reading ~> ~reading

(* AT+CMGS is answered: its prompt is seen, and its text written. *)
SmsAnswered == lastcmd = "sms" /\ ~cut ~> lastcmd # "sms" \/ cut
=============================================================================
