------------------------- MODULE LineReader_proofs -------------------------
(***************************************************************************)
(* Proofs about the dialogue of AT+CMGS and the order of lines, for every  *)
(* size of the buffer, every length of the reports and any number of lines *)
(* and commands on their way, with lines that overflow and sessions that   *)
(* end in them.                                                            *)
(***************************************************************************)
EXTENDS LineReader, SequenceTheorems, TLAPS

USE ReaderAssumption

Commands == {"plain", "sms"}
Texts    == {"text", "empty"}
Words    == Commands \cup Texts
LineSet  == [n : Nat, kind : {"prompt", "echo", "result", "report"}, len : Nat \ {0}]
ByteSet  == [line : LineSet, i : Nat]

TypeInv ==
  /\ link \in {"up", "down"} /\ ready \in BOOLEAN
  /\ lastcmd \in Commands \cup {"none"}
  /\ m_state \in {"WANT_CONTROL", "WANT_CMD"}
  /\ rd_buff \in Seq(ByteSet) /\ rx \in Seq(ByteSet) /\ tx \in Seq(Words)
  /\ mode \in {"command", "text"} /\ sent \in Nat
  /\ stale \in BOOLEAN /\ cut \in BOOLEAN
  /\ m_state = "WANT_CONTROL" /\ ~stale => rd_buff = <<>>
  /\ link = "down" => lastcmd = "none"

(* A line is recognised by its characters, so by the first at least. *)
Starts(kind) == {c \in ByteSet : c.line.kind = kind /\ c.i = 1}

None(s, S)      == \A k \in DOMAIN s : s[k] \notin S
AtMostOne(s, S) == \A k, l \in DOMAIN s : s[k] \in S /\ s[l] \in S => k = l
Nowhere(kind)   == None(rd_buff, Starts(kind)) /\ None(rx, Starts(kind))
Once(kind) ==
  /\ AtMostOne(rd_buff, Starts(kind)) /\ AtMostOne(rx, Starts(kind))
  /\ None(rd_buff, Starts(kind)) \/ None(rx, Starts(kind))

(* No text waits behind an AT+CMGS. *)
TextsFirst(words) ==
  \A k, l \in DOMAIN words : k < l /\ words[k] = "sms" => words[l] \notin Texts

(* A modem that asked for a text has one prompt on the way to the driver,  *)
(* or one text on the way back, or has lost them.                          *)
Asked ==
  mode = "text" =>
    /\ Once("prompt") /\ AtMostOne(tx, Texts)
    /\ None(tx, Texts) \/ Nowhere("prompt")

(* One that did not has neither, but for what the session found in the     *)
(* buffer, and the empty text that answers it.                             *)
NotAsked ==
  mode = "command" =>
    /\ None(rx, Starts("prompt")) /\ (stale \/ None(rd_buff, Starts("prompt")))
    /\ None(tx, {"text"}) /\ TextsFirst(tx)

(* What a session found in the buffer is read before AT+CMGS can be sent. *)
LeftOver ==
  stale => ~ready /\ lastcmd # "sms" /\ mode = "command" /\ cut /\ None(tx, {"sms"})

(* The awaited command is in one place: on its way to the modem, waiting   *)
(* for its text, or answered.  Nothing is anywhere if none is awaited.     *)
Waiting ==
  ~cut =>
    /\ lastcmd = "none" => None(tx, Commands) /\ mode = "command" /\ Nowhere("result")
    /\ AtMostOne(tx, Commands) /\ Once("result")
    /\ mode = "command" \/ (None(tx, Commands) /\ Nowhere("result"))
    /\ None(tx, Commands) \/ Nowhere("result")

Dialogue    == Asked /\ NotAsked /\ LeftOver /\ Waiting
DialogueInv == TypeInv /\ Dialogue

-----------------------------------------------------------------------------
(* Sequences: how many elements of a set are in them.                      *)

LEMMA EmptyNone == \A S : None(<<>>, S)
BY DEF None

LEMMA NoneOnce == \A s, S : None(s, S) => AtMostOne(s, S)
BY DEF None, AtMostOne

LEMMA OfTail ==
  ASSUME NEW T, NEW s \in Seq(T), s # <<>>, NEW S
  PROVE  /\ None(s, S) => None(Tail(s), S) /\ Head(s) \notin S
         /\ AtMostOne(s, S) => AtMostOne(Tail(s), S)
         /\ AtMostOne(s, S) /\ Head(s) \in S => None(Tail(s), S)
<1>1. /\ DOMAIN s = 1 .. Len(s) /\ Len(s) \in Nat \ {0} /\ Head(s) = s[1]
      /\ DOMAIN Tail(s) = 1 .. Len(s) - 1
      /\ \A k \in 1 .. Len(s) - 1 : Tail(s)[k] = s[k + 1]
  BY HeadTailProperties, LenProperties
<1>2. QED
  BY <1>1 DEF None, AtMostOne

LEMMA OfAppend ==
  ASSUME NEW T, NEW s \in Seq(T), NEW e \in T, NEW S
  PROVE  /\ None(s, S) /\ e \notin S => None(Append(s, e), S)
         /\ None(s, S) => AtMostOne(Append(s, e), S)
         /\ AtMostOne(s, S) /\ e \notin S => AtMostOne(Append(s, e), S)
<1>1. /\ DOMAIN s = 1 .. Len(s) /\ Len(s) \in Nat
      /\ DOMAIN Append(s, e) = 1 .. Len(s) + 1
      /\ \A k \in 1 .. Len(s) : Append(s, e)[k] = s[k]
      /\ Append(s, e)[Len(s) + 1] = e
  BY AppendProperties, LenProperties
<1>2. QED
  BY <1>1 DEF None, AtMostOne

LEMMA OfConcat ==
  ASSUME NEW T, NEW s \in Seq(T), NEW t \in Seq(T), NEW S
  PROVE  /\ None(s, S) /\ None(t, S) => None(s \o t, S)
         /\ AtMostOne(s, S) /\ None(t, S) => AtMostOne(s \o t, S)
         /\ None(s, S) /\ AtMostOne(t, S) => AtMostOne(s \o t, S)
<1> DEFINE u == s \o t
<1>1. /\ DOMAIN s = 1 .. Len(s) /\ Len(s) \in Nat /\ DOMAIN t = 1 .. Len(t) /\ Len(t) \in Nat
      /\ DOMAIN u = 1 .. Len(s) + Len(t)
  BY ConcatProperties, LenProperties
<1>2. ASSUME NEW k \in DOMAIN u
      PROVE  \/ k \in DOMAIN s /\ u[k] = s[k]
             \/ k - Len(s) \in DOMAIN t /\ u[k] = t[k - Len(s)] /\ k > Len(s)
  BY <1>1, ConcatProperties
<1> HIDE DEF u
<1>3. None(s, S) /\ None(t, S) => None(u, S)
  BY <1>2 DEF None
<1>4. ASSUME AtMostOne(s, S), None(t, S), NEW k \in DOMAIN u, NEW l \in DOMAIN u,
             u[k] \in S, u[l] \in S
      PROVE  k = l
  BY <1>2, <1>4 DEF None, AtMostOne
<1>5. ASSUME None(s, S), AtMostOne(t, S), NEW k \in DOMAIN u, NEW l \in DOMAIN u,
             u[k] \in S, u[l] \in S
      PROVE  k = l
  <2>1. k - Len(s) \in DOMAIN t /\ l - Len(s) \in DOMAIN t
    BY <1>2, <1>5 DEF None
  <2>2. k - Len(s) = l - Len(s)
    BY <1>2, <1>5, <2>1 DEF None, AtMostOne
  <2>3. QED
    BY <1>1, <2>2
<1>6. QED
  BY <1>3, <1>4, <1>5 DEF AtMostOne, u

LEMMA OrderTail ==
  ASSUME NEW s \in Seq(Words), s # <<>>, TextsFirst(s)
  PROVE  TextsFirst(Tail(s)) /\ (Head(s) = "sms" => None(Tail(s), Texts))
<1>1. /\ DOMAIN s = 1 .. Len(s) /\ Len(s) \in Nat \ {0} /\ Head(s) = s[1]
      /\ DOMAIN Tail(s) = 1 .. Len(s) - 1
      /\ \A k \in 1 .. Len(s) - 1 : Tail(s)[k] = s[k + 1]
  BY HeadTailProperties, LenProperties
<1>2. QED
  BY <1>1 DEF None, TextsFirst

LEMMA OrderAppend ==
  ASSUME NEW s \in Seq(Words), NEW e \in Words
  PROVE  /\ TextsFirst(s) /\ e \notin Texts => TextsFirst(Append(s, e))
         /\ None(s, {"sms"}) => TextsFirst(Append(s, e))
         /\ None(s, Texts) => TextsFirst(s)
<1>1. /\ DOMAIN s = 1 .. Len(s) /\ Len(s) \in Nat
      /\ DOMAIN Append(s, e) = 1 .. Len(s) + 1
      /\ \A k \in 1 .. Len(s) : Append(s, e)[k] = s[k]
      /\ Append(s, e)[Len(s) + 1] = e
  BY AppendProperties, LenProperties
<1>2. QED
  BY <1>1 DEF None, TextsFirst

-----------------------------------------------------------------------------
(* The lines of the modem.                                                 *)

LEMMA ByteOf ==
  ASSUME NEW line \in LineSet, NEW i \in Nat, NEW kind
  PROVE  /\ Byte(line, i) \in ByteSet
         /\ Byte(line, i) \in Starts(kind) <=> line.kind = kind /\ i = 1
BY DEF Byte, ByteSet, Starts

LEMMA CharactersOf ==
  ASSUME NEW line \in LineSet, NEW kind
  PROVE  /\ Characters(line) \in Seq(ByteSet)
         /\ AtMostOne(Characters(line), Starts(kind))
         /\ line.kind # kind => None(Characters(line), Starts(kind))
<1>1. line.len \in Nat
  BY DEF LineSet
<1>2. \A i \in 1 .. line.len : /\ Byte(line, i) \in ByteSet
                               /\ Byte(line, i) \in Starts(kind) <=> line.kind = kind /\ i = 1
  BY <1>1, ByteOf
<1>3. Characters(line) \in Seq(ByteSet)
  BY <1>1, <1>2 DEF Characters
<1>4. DOMAIN Characters(line) = 1 .. line.len
      /\ \A i \in 1 .. line.len : Characters(line)[i] = Byte(line, i)
  BY DEF Characters
<1>5. QED
  BY <1>2, <1>3, <1>4 DEF AtMostOne, None

(* A line has one beginning, that of its kind. *)
LEMMA FramedLine ==
  ASSUME NEW line \in LineSet, NEW kind
  PROVE  /\ Framed(line) \in Seq(ByteSet)
         /\ AtMostOne(Framed(line), Starts(kind))
         /\ line.kind # kind => None(Framed(line), Starts(kind))
<1> DEFINE text   == Characters(line)
           before == <<Byte(line, 0), Byte(line, 0)>>
           end    == Byte(line, line.len + 1)
           S      == Starts(kind)
<1>1. /\ Byte(line, 0) \in ByteSet /\ Byte(line, 0) \notin S
      /\ end \in ByteSet /\ end \notin S
  <2>1. line.len + 1 \in Nat /\ line.len + 1 # 1
    BY DEF LineSet
  <2>2. QED
    BY <2>1, ByteOf
<1>2. /\ before \in Seq(ByteSet) /\ None(before, S)
      /\ <<end, end>> \in Seq(ByteSet) /\ None(<<end, end>>, S)
  BY <1>1 DEF None
<1>3. /\ text \in Seq(ByteSet) /\ AtMostOne(text, S)
      /\ line.kind # kind => None(text, S)
  BY CharactersOf
<1> HIDE DEF before, end, text, S
<1>4. /\ before \o text \in Seq(ByteSet) /\ AtMostOne(before \o text, S)
      /\ line.kind # kind => None(before \o text, S)
  BY <1>2, <1>3, OfConcat, ConcatProperties
<1>5. /\ (before \o text) \o <<end, end>> \in Seq(ByteSet)
      /\ AtMostOne((before \o text) \o <<end, end>>, S)
      /\ line.kind # kind => None((before \o text) \o <<end, end>>, S)
  BY <1>2, <1>4, OfConcat, ConcatProperties
<1>6. /\ Append(text, end) \in Seq(ByteSet)
      /\ AtMostOne(Append(text, end), S)
      /\ line.kind # kind => None(Append(text, end), S)
  BY <1>1, <1>3, OfAppend, AppendProperties
<1>7. \/ Framed(line) = before \o text
      \/ Framed(line) = Append(text, end)
      \/ Framed(line) = (before \o text) \o <<end, end>>
  BY Zenon DEF Framed, before, end, text
<1>8. QED
  BY <1>4, <1>5, <1>6, <1>7 DEF S

(* What at_read_result_classification recognises begins with its kind. *)
LEMMA KindOf ==
  ASSUME NEW bytes \in Seq(ByteSet)
  PROVE  /\ Kind(bytes) \in {"prompt", "echo", "result", "report", "unknown"}
         /\ Kind(bytes) # "unknown" => bytes # <<>> /\ Head(bytes) \in Starts(Kind(bytes))
<1>1. CASE bytes # <<>> /\ IsPrefix(Characters(bytes[1].line), bytes)
  <2> DEFINE line == bytes[1].line
  <2>1. bytes[1] \in ByteSet /\ bytes[1] = Head(bytes) /\ line \in LineSet
    <3>1. Len(bytes) \in Nat \ {0} /\ 1 \in DOMAIN bytes
      BY <1>1, LenProperties
    <3>2. bytes[1] \in ByteSet /\ bytes[1] = Head(bytes)
      BY <1>1, <3>1, ElementOfSeq
    <3>3. QED
      BY <3>2 DEF ByteSet
  <2>2. Kind(bytes) = line.kind
    BY <1>1 DEF Kind
  <2>3. line.len \in Nat \ {0} /\ line.kind \in {"prompt", "echo", "result", "report"}
    BY <2>1 DEF LineSet
  <2>4. Characters(line) \in Seq(ByteSet) /\ Len(Characters(line)) = line.len
        /\ Characters(line)[1] = Byte(line, 1)
    <3>1. Characters(line) \in Seq(ByteSet)
      BY <2>1, CharactersOf
    <3>2. Len(Characters(line)) = line.len /\ Characters(line)[1] = Byte(line, 1)
      BY <2>3 DEF Characters
    <3>3. QED
      BY <3>1, <3>2
  <2>5. Characters(line)[1] = bytes[1]
    <3>1. /\ Len(Characters(line)) <= Len(bytes)
          /\ SubSeq(Characters(line), 1, line.len) = SubSeq(bytes, 1, line.len)
      BY <1>1, <2>4 DEF IsPrefix
    <3>2. SubSeq(Characters(line), 1, line.len)[1] = Characters(line)[1]
      BY <2>3, <2>4
    <3>3. SubSeq(bytes, 1, line.len)[1] = bytes[1]
      BY <2>3, <2>4, <3>1
    <3>4. QED
      BY <3>1, <3>2, <3>3
  <2>6. bytes[1] \in Starts(line.kind)
    BY <2>1, <2>4, <2>5, ByteOf
  <2>7. QED
    BY <1>1, <2>1, <2>2, <2>3, <2>6
<1>2. CASE ~(bytes # <<>> /\ IsPrefix(Characters(bytes[1].line), bytes))
  BY <1>2 DEF Kind
<1>3. QED
  BY <1>1, <1>2

-----------------------------------------------------------------------------
(* Types.                                                                  *)

LEMMA LapType == Lap \in Nat /\ Lap > 0 /\ \A n \in Nat : n % Lap \in Nat
BY DEF Lap

LEMMA SentType ==
  \A n \in Nat : Following(n) \in Nat /\ (n + 1) % Lap \in Nat /\ (n + 2) % Lap \in Nat
BY LapType DEF Following

LEMMA LineType ==
  ASSUME sent \in Nat
  PROVE  /\ \A kind \in {"prompt", "echo"} : Line(kind, 2) \in LineSet /\ Line(kind, 2).kind = kind
         /\ \A len \in Lengths : Line("report", len) \in LineSet /\ Line("report", len).kind = "report"
         /\ OK \in LineSet /\ OK.kind = "result"
         /\ [OK EXCEPT !.n = Following(sent)] \in LineSet
         /\ [OK EXCEPT !.n = Following(sent)].kind = "result"
BY SentType DEF Line, LineSet, OK

(* What handle_rd_data does with a byte. *)
LEMMA ReadByteType == TypeInv /\ ReadByte => TypeInv'
<1> SUFFICES ASSUME TypeInv, ReadByte PROVE TypeInv'
  OBVIOUS
<1>1. /\ link = "up" /\ rx # <<>> /\ rx \in Seq(ByteSet) /\ rd_buff \in Seq(ByteSet)
      /\ <<>> \in Seq(ByteSet) /\ tx \in Seq(Words)
  BY DEF ReadByte, TypeInv
<1>2. Tail(rx) \in Seq(ByteSet) /\ Append(rd_buff, Head(rx)) \in Seq(ByteSet)
  <2>1. Tail(rx) \in Seq(ByteSet) /\ Head(rx) \in ByteSet
    BY <1>1, HeadTailProperties
  <2>2. QED
    BY <1>1, <2>1, AppendProperties
<1>3. CASE Overflow
  BY <1>1, <1>2, <1>3 DEF Overflow, TypeInv, modem, history
<1>4. CASE SkipControl
  BY <1>1, <1>2, <1>4 DEF SkipControl, TypeInv, modem, history
<1>5. CASE Store
  BY <1>1, <1>2, <1>5 DEF Store, TypeInv, modem, history
<1>6. CASE Give
  <2>1. /\ link' \in {"up", "down"} /\ ready' \in BOOLEAN /\ cut' \in BOOLEAN
        /\ lastcmd' \in Commands \cup {"none"} /\ (link' = "down" => lastcmd' = "none")
        /\ tx' \in Seq(Words)
    <3>1. /\ Append(tx, "text") \in Seq(Words) /\ Append(tx, "empty") \in Seq(Words)
      BY <1>1, AppendProperties DEF Words, Texts
    <3>2. CASE at_response_sms_prompt
      BY <1>1, <3>1, <3>2 DEF at_response_sms_prompt, TypeInv
    <3>3. CASE Result \/ Passed \/ Fails
      BY <1>1, <3>3 DEF Result, Passed, Fails, Disconnect, TypeInv
    <3>4. QED
      BY <1>6, <3>2, <3>3 DEF Give, at_response
  <2>2. /\ m_state' = "WANT_CONTROL" /\ rd_buff' = <<>> /\ stale' = FALSE
        /\ UNCHANGED <<mode, sent>> /\ rx' \in Seq(ByteSet)
    BY <1>1, <1>2, <1>6 DEF Give
  <2>3. QED
    BY <1>1, <2>1, <2>2 DEF TypeInv
<1>7. QED
  BY <1>3, <1>4, <1>5, <1>6 DEF ReadByte

(* What the modem says. *)
LEMMA HearsType ==
  ASSUME TypeInv, NEW bytes \in Seq(ByteSet), NEW lines \in {1, 2}, Hears(bytes, lines)
  PROVE  rx' \in Seq(ByteSet) /\ sent' \in Nat
<1>1. rx \o bytes \in Seq(ByteSet)
  BY ConcatProperties DEF TypeInv
<1>2. (sent + lines) % Lap \in Nat
  BY SentType DEF TypeInv
<1>3. QED
  BY <1>1, <1>2 DEF Hears, TypeInv

(* The lines of the modem are of one kind, or an echo and a result. *)
LEMMA Replies ==
  ASSUME sent \in Nat
  PROVE  /\ \A line \in LineSet : Framed(line) \in Seq(ByteSet)
         /\ Framed(Line("echo", 2)) \o Framed([OK EXCEPT !.n = Following(sent)]) \in Seq(ByteSet)
<1>1. \A line \in LineSet : Framed(line) \in Seq(ByteSet)
  BY FramedLine
<1>2. QED
  BY <1>1, LineType, ConcatProperties

LEMMA ServeType == TypeInv /\ Serve => TypeInv'
<1> SUFFICES ASSUME TypeInv, Serve PROVE TypeInv'
  OBVIOUS
<1>1. tx' \in Seq(Words)
  BY HeadTailProperties DEF Serve, TypeInv
<1>2. rx' \in Seq(ByteSet) /\ sent' \in Nat /\ mode' \in {"command", "text"}
  <2>1. sent \in Nat /\ rx \in Seq(ByteSet) /\ mode \in {"command", "text"}
    BY DEF TypeInv
  <2>2. CASE Say(OK) /\ mode' \in {"command", "text"}
    BY <2>1, <2>2, LineType, Replies, HearsType DEF Say
  <2>3. CASE Say(Line("prompt", 2)) /\ mode' = "text"
    BY <2>1, <2>3, LineType, Replies, HearsType DEF Say
  <2>4. CASE /\ Hears(Framed(Line("echo", 2)) \o Framed([OK EXCEPT !.n = Following(sent)]), 2)
             /\ UNCHANGED mode
    BY <2>1, <2>4, LineType, Replies, HearsType
  <2>5. CASE UNCHANGED <<rx, sent, mode>>
    BY <2>1, <2>5
  <2>6. QED
    BY <2>1, <2>2, <2>3, <2>4, <2>5 DEF Serve, ServeCommand, ServeText
<1>3. UNCHANGED <<link, ready, lastcmd, m_state, rd_buff, stale, cut>>
  BY DEF Serve, reader, history
<1>4. QED
  BY <1>1, <1>2, <1>3 DEF TypeInv

LEMMA TypeKept == TypeInv /\ [Next]_vars => TypeInv'
<1> SUFFICES ASSUME TypeInv, [Next]_vars PROVE TypeInv'
  OBVIOUS
<1>1. CASE Connect
  BY <1>1 DEF Connect, TypeInv, reader, modem, history
<1>2. CASE SendCommand
  <2>1. lastcmd' \in Commands
    BY <1>2 DEF SendCommand, Commands
  <2>2. tx' \in Seq(Words)
    BY <1>2, <2>1, AppendProperties DEF SendCommand, TypeInv, Words
  <2>3. QED
    BY <1>2, <2>1, <2>2 DEF SendCommand, TypeInv, reader, history
<1>3. CASE Timeout
  <2>1. link' = "down" /\ ready' = FALSE /\ lastcmd' = "none" /\ cut' \in BOOLEAN
    BY <1>3 DEF Timeout, Disconnect
  <2>2. UNCHANGED <<m_state, rd_buff, rx, tx, mode, sent, stale>>
    BY <1>3 DEF Timeout, reader, modem
  <2>3. QED
    BY <2>1, <2>2 DEF TypeInv
<1>4. CASE LostTty
  <2>1. /\ stale' \in BOOLEAN /\ cut' \in BOOLEAN
        /\ m_state = "WANT_CONTROL" /\ ~stale' => ~stale
    BY <1>4 DEF LostTty, TypeInv
  <2>2. /\ link' = "down" /\ ready' = FALSE /\ lastcmd' = "none" /\ mode' = "command"
        /\ rx' = <<>> /\ tx' = <<>> /\ UNCHANGED <<m_state, rd_buff, sent>>
    BY <1>4 DEF LostTty
  <2>3. <<>> \in Seq(ByteSet) /\ <<>> \in Seq(Words)
    OBVIOUS
  <2>4. QED
    BY <2>1, <2>2, <2>3 DEF TypeInv
<1>5. CASE ReadByte
  BY <1>5, ReadByteType
<1>6. CASE Serve
  BY <1>6, ServeType
<1>7. CASE Report
  <2>1. PICK len \in Lengths : Say(Line("report", len))
    BY <1>7 DEF Report
  <2>2. rx' \in Seq(ByteSet) /\ sent' \in Nat
    BY <2>1, LineType, Replies, HearsType DEF Say, TypeInv
  <2>3. QED
    BY <1>7, <2>2 DEF Report, TypeInv, reader, history
<1>8. CASE UNCHANGED vars
  BY <1>8 DEF vars, TypeInv, reader, modem, history
<1>9. QED
  BY <1>1, <1>2, <1>3, <1>4, <1>5, <1>6, <1>7, <1>8 DEF Next

-----------------------------------------------------------------------------
(* The dialogue, step by step.                                             *)

(* handle_rd_data before the end of a line: bytes are moved or dropped.    *)
LEMMA BytesMoved ==
  ASSUME TypeInv, Overflow \/ SkipControl \/ Store, rx # <<>>, NEW kind
  PROVE  /\ Nowhere(kind) => Nowhere(kind)'
         /\ Once(kind) => Once(kind)'
         /\ None(rx, Starts(kind)) => None(rx', Starts(kind))
         /\ None(rx, Starts(kind)) /\ None(rd_buff, Starts(kind)) => None(rd_buff', Starts(kind))
<1> DEFINE S == Starts(kind)
<1> HIDE DEF S
<1>1. /\ rx \in Seq(ByteSet) /\ rd_buff \in Seq(ByteSet)
  BY DEF TypeInv
<1>2. /\ None(rx, S) => None(Tail(rx), S) /\ Head(rx) \notin S
      /\ AtMostOne(rx, S) => AtMostOne(Tail(rx), S)
      /\ AtMostOne(rx, S) /\ Head(rx) \in S => None(Tail(rx), S)
      /\ Head(rx) \in ByteSet
  BY <1>1, OfTail, HeadTailProperties
<1>3. CASE rx' = Tail(rx) /\ rd_buff' = <<>>
  BY <1>2, <1>3, EmptyNone, NoneOnce DEF Nowhere, Once, S
<1>4. CASE rx' = Tail(rx) /\ rd_buff' = rd_buff
  BY <1>2, <1>4, NoneOnce DEF Nowhere, Once, S
<1>5. CASE rx' = Tail(rx) /\ rd_buff' = Append(rd_buff, Head(rx))
  <2>1. /\ None(rd_buff, S) /\ Head(rx) \notin S => None(rd_buff', S)
        /\ None(rd_buff, S) => AtMostOne(rd_buff', S)
        /\ AtMostOne(rd_buff, S) /\ Head(rx) \notin S => AtMostOne(rd_buff', S)
    BY <1>1, <1>2, <1>5, OfAppend
  <2>2. QED
    BY <1>2, <1>5, <2>1, NoneOnce DEF Nowhere, Once, S
<1>6. QED
  BY <1>3, <1>4, <1>5 DEF Overflow, SkipControl, Store

LEMMA MovedKept ==
  ASSUME TypeInv, Dialogue, Overflow \/ SkipControl \/ Store, rx # <<>>
  PROVE  Dialogue'
<1>1. UNCHANGED <<tx, mode, stale, cut, ready, lastcmd>>
  BY DEF Overflow, SkipControl, Store, modem, history
<1>2. \A kind \in {"prompt", "result"} :
        /\ Nowhere(kind) => Nowhere(kind)'
        /\ Once(kind) => Once(kind)'
        /\ None(rx, Starts(kind)) => None(rx', Starts(kind))
        /\ None(rx, Starts(kind)) /\ None(rd_buff, Starts(kind)) => None(rd_buff', Starts(kind))
  BY BytesMoved
<1>3. Asked' /\ NotAsked'
  BY <1>1, <1>2 DEF Dialogue, Asked, NotAsked
<1>4. LeftOver' /\ Waiting'
  BY <1>1, <1>2 DEF Dialogue, LeftOver, Waiting
<1>5. QED
  BY <1>3, <1>4 DEF Dialogue

(* The end of a line: what it began with is taken out of the buffer. *)
LEMMA LineTaken ==
  ASSUME TypeInv, Give, rx # <<>>, NEW kind
  PROVE  /\ None(rd_buff', Starts(kind))
         /\ None(rx, Starts(kind)) => None(rx', Starts(kind))
         /\ AtMostOne(rx, Starts(kind)) => AtMostOne(rx', Starts(kind))
         /\ Kind(rd_buff) = kind /\ kind # "unknown" => ~None(rd_buff, Starts(kind))
<1> DEFINE S == Starts(kind)
<1> HIDE DEF S
<1>1. rx \in Seq(ByteSet) /\ rd_buff \in Seq(ByteSet)
  BY DEF TypeInv
<1>2. None(rd_buff', S)
  BY EmptyNone DEF Give
<1>3. /\ None(rx, S) => None(rx', S)
      /\ AtMostOne(rx, S) => AtMostOne(rx', S)
  <2>1. /\ None(rx, S) => None(Tail(rx), S)
        /\ AtMostOne(rx, S) => AtMostOne(Tail(rx), S)
    BY <1>1, OfTail
  <2>2. rx' = Tail(rx) \/ rx' = <<>>
    BY DEF Give
  <2>3. QED
    BY <2>1, <2>2, EmptyNone, NoneOnce
<1>4. ASSUME Kind(rd_buff) = kind, kind # "unknown"
      PROVE  ~None(rd_buff, Starts(kind))
  <2>1. rd_buff # <<>> /\ Head(rd_buff) \in Starts(kind)
    BY <1>1, <1>4, KindOf
  <2>2. 1 \in DOMAIN rd_buff /\ rd_buff[1] = Head(rd_buff)
    BY <1>1, <2>1
  <2>3. QED
    BY <2>1, <2>2 DEF None
<1>5. QED
  BY <1>2, <1>3, <1>4 DEF S

LEMMA GiveKept ==
  ASSUME TypeInv, Dialogue, Give, rx # <<>>
  PROVE  Dialogue'
<1>1. \A kind \in {"prompt", "result"} :
        /\ None(rd_buff', Starts(kind))
        /\ None(rx, Starts(kind)) => None(rx', Starts(kind))
        /\ AtMostOne(rx, Starts(kind)) => AtMostOne(rx', Starts(kind))
        /\ Kind(rd_buff) = kind => ~None(rd_buff, Starts(kind))
  BY LineTaken
<1>2. \A kind \in {"prompt", "result"} :
        /\ Nowhere(kind) => Nowhere(kind)'
        /\ Once(kind) => Once(kind)'
        /\ Once(kind) /\ Kind(rd_buff) = kind => Nowhere(kind)'
  BY <1>1, NoneOnce DEF Nowhere, Once
<1>3. UNCHANGED mode /\ stale' = FALSE
  BY DEF Give
<1>4. LeftOver'
  BY <1>3 DEF LeftOver
<1>5. CASE Kind(rd_buff) = "prompt" /\ at_response_sms_prompt
  <2>1. UNCHANGED <<link, ready, lastcmd, cut>> /\ ~None(rd_buff, Starts("prompt"))
    BY <1>1, <1>5 DEF at_response_sms_prompt
  <2>2. PICK e \in Texts : tx' = Append(tx, e) /\ (lastcmd # "sms" => e = "empty")
    BY <1>5 DEF at_response_sms_prompt, Texts
  <2>3. tx \in Seq(Words) /\ e \in Words /\ e \notin Commands
    BY DEF TypeInv, Words, Texts, Commands
  <2>4. ASSUME mode = "text" PROVE Asked' /\ NotAsked'
    <3>1. None(tx, Texts) /\ Nowhere("prompt")' /\ Once("prompt")'
      BY <1>2, <1>5, <2>1, <2>4 DEF Dialogue, Asked, Nowhere
    <3>2. AtMostOne(tx', Texts)
      BY <2>2, <2>3, <3>1, OfAppend
    <3>3. QED
      BY <1>3, <2>4, <3>1, <3>2 DEF Asked, NotAsked
  <2>5. ASSUME mode = "command" PROVE Asked' /\ NotAsked'
    <3>1. stale /\ lastcmd # "sms" /\ None(tx, {"sms"}) /\ None(tx, {"text"})
          /\ None(rx, Starts("prompt"))
      BY <2>1, <2>5 DEF Dialogue, NotAsked, LeftOver
    <3>2. None(tx', {"text"}) /\ TextsFirst(tx')
      BY <2>2, <2>3, <3>1, OfAppend, OrderAppend
    <3>3. QED
      BY <1>1, <1>3, <2>5, <3>1, <3>2 DEF Asked, NotAsked
  <2>6. Waiting'
    <3>1. /\ None(tx, Commands) => None(tx', Commands)
          /\ AtMostOne(tx, Commands) => AtMostOne(tx', Commands)
      BY <2>2, <2>3, OfAppend
    <3>2. QED
      BY <1>2, <1>3, <2>1, <3>1 DEF Dialogue, Waiting
  <2>7. QED
    BY <1>4, <2>4, <2>5, <2>6 DEF Dialogue, TypeInv
<1>6. ASSUME UNCHANGED tx PROVE Asked' /\ NotAsked'
  BY <1>1, <1>2, <1>3, <1>6 DEF Dialogue, Asked, NotAsked
<1>7. CASE Kind(rd_buff) = "result" /\ Result
  <2>1. UNCHANGED <<tx, cut>> /\ lastcmd' = "none"
    BY <1>7 DEF Result
  <2>2. ~cut => None(tx, Commands) /\ mode = "command" /\ Nowhere("result")'
    BY <1>1, <1>2, <1>7 DEF Dialogue, Waiting, Nowhere
  <2>3. Waiting'
    BY <1>2, <1>3, <2>1, <2>2 DEF Dialogue, Waiting
  <2>4. QED
    BY <1>4, <1>6, <2>1, <2>3 DEF Dialogue
<1>8. CASE Passed
  <2>1. UNCHANGED <<tx, cut, lastcmd>>
    BY <1>8 DEF Passed
  <2>2. Waiting'
    BY <1>2, <1>3, <2>1 DEF Dialogue, Waiting
  <2>3. QED
    BY <1>4, <1>6, <2>1, <2>2 DEF Dialogue
<1>9. CASE Fails
  <2>1. UNCHANGED tx /\ lastcmd' = "none" /\ (~cut' => ~cut /\ lastcmd = "none")
    BY <1>9 DEF Fails, Disconnect
  <2>2. Waiting'
    BY <1>2, <1>3, <2>1 DEF Dialogue, Waiting
  <2>3. QED
    BY <1>4, <1>6, <2>1, <2>2 DEF Dialogue
<1>10. QED
  BY <1>5, <1>7, <1>8, <1>9 DEF Give, at_response

(* The modem: what it says comes after what is in the tty. *)
LEMMA Said ==
  ASSUME TypeInv, UNCHANGED rd_buff, NEW bytes \in Seq(ByteSet), NEW lines,
         Hears(bytes, lines), NEW kind
  PROVE  /\ None(bytes, Starts(kind)) =>
              /\ None(rx, Starts(kind)) => None(rx', Starts(kind))
              /\ Nowhere(kind) => Nowhere(kind)'
              /\ Once(kind) => Once(kind)'
         /\ AtMostOne(bytes, Starts(kind)) /\ Nowhere(kind) => Once(kind)'
<1> DEFINE S == Starts(kind)
<1> HIDE DEF S
<1>1. rx' = rx \o bytes \/ rx' = rx
  BY DEF Hears
<1>2. /\ None(rx, S) /\ None(bytes, S) => None(rx', S)
      /\ AtMostOne(rx, S) /\ None(bytes, S) => AtMostOne(rx', S)
      /\ None(rx, S) /\ AtMostOne(bytes, S) => AtMostOne(rx', S)
  <2>1. rx \in Seq(ByteSet)
    BY DEF TypeInv
  <2>2. CASE rx' = rx
    BY <2>2, NoneOnce
  <2>3. CASE rx' = rx \o bytes
    BY <2>1, <2>3, OfConcat
  <2>4. QED
    BY <1>1, <2>2, <2>3
<1>3. QED
  BY <1>2, NoneOnce DEF Nowhere, Once, S

(* An answer begins at most one result and no prompt. *)
LEMMA Answered ==
  ASSUME TypeInv, UNCHANGED rd_buff,
         \/ Say(OK)
         \/ Hears(Framed(Line("echo", 2)) \o Framed([OK EXCEPT !.n = Following(sent)]), 2)
  PROVE  /\ None(rx, Starts("prompt")) => None(rx', Starts("prompt"))
         /\ Nowhere("prompt") => Nowhere("prompt")'
         /\ Nowhere("result") => Once("result")'
<1> DEFINE last == [OK EXCEPT !.n = Following(sent)]
           two  == Framed(Line("echo", 2)) \o Framed(last)
<1>1. /\ Line("echo", 2) \in LineSet /\ Line("echo", 2).kind = "echo"
      /\ OK \in LineSet /\ OK.kind = "result" /\ last \in LineSet /\ last.kind = "result"
  BY LineType DEF TypeInv
<1>2. /\ Framed(OK) \in Seq(ByteSet)
      /\ None(Framed(OK), Starts("prompt")) /\ AtMostOne(Framed(OK), Starts("result"))
  BY <1>1, FramedLine
<1>3. /\ two \in Seq(ByteSet)
      /\ None(two, Starts("prompt")) /\ AtMostOne(two, Starts("result"))
  <2>1. /\ Framed(Line("echo", 2)) \in Seq(ByteSet)
        /\ None(Framed(Line("echo", 2)), Starts("prompt"))
        /\ None(Framed(Line("echo", 2)), Starts("result"))
    BY <1>1, FramedLine
  <2>2. /\ Framed(last) \in Seq(ByteSet)
        /\ None(Framed(last), Starts("prompt")) /\ AtMostOne(Framed(last), Starts("result"))
    BY <1>1, FramedLine
  <2>3. QED
    BY <2>1, <2>2, OfConcat, ConcatProperties
<1>4. CASE Hears(Framed(OK), 1)
  BY <1>2, <1>4, Said
<1>5. CASE Hears(two, 2)
  BY <1>3, <1>5, Said
<1>6. QED
  BY <1>4, <1>5 DEF Say

(* A prompt begins no result, and a report begins neither. *)
LEMMA SaidLine ==
  ASSUME TypeInv, UNCHANGED rd_buff, NEW line \in LineSet, Say(line), NEW kind
  PROVE  /\ line.kind # kind =>
              /\ None(rx, Starts(kind)) => None(rx', Starts(kind))
              /\ Nowhere(kind) => Nowhere(kind)'
              /\ Once(kind) => Once(kind)'
         /\ Nowhere(kind) => Once(kind)'
<1>1. /\ Framed(line) \in Seq(ByteSet) /\ AtMostOne(Framed(line), Starts(kind))
      /\ line.kind # kind => None(Framed(line), Starts(kind))
  BY FramedLine
<1>2. Hears(Framed(line), 1)
  BY DEF Say
<1>3. QED
  BY <1>1, <1>2, Said

(* The modem takes the first of what it has been sent. *)
LEMMA ServeKept ==
  ASSUME TypeInv, Dialogue, Serve
  PROVE  Dialogue'
<1>1. /\ UNCHANGED <<link, ready, lastcmd, m_state, rd_buff, stale, cut>>
      /\ tx' = Tail(tx) /\ tx # <<>> /\ (ServeCommand \/ ServeText)
  BY DEF Serve, reader, history
<1>2. /\ tx \in Seq(Words) /\ tx' \in Seq(Words) /\ Head(tx) \in Words
      /\ mode \in {"command", "text"} /\ stale \in BOOLEAN
  BY <1>1, HeadTailProperties DEF TypeInv
<1>3. \A S \in {Commands, Texts, {"text"}, {"sms"}} :
        /\ None(tx, S) => None(tx', S) /\ Head(tx) \notin S
        /\ AtMostOne(tx, S) => AtMostOne(tx', S)
        /\ AtMostOne(tx, S) /\ Head(tx) \in S => None(tx', S)
  BY <1>1, <1>2, OfTail
<1>4. TextsFirst(tx) => TextsFirst(tx') /\ (Head(tx) = "sms" => None(tx', Texts))
  BY <1>1, <1>2, OrderTail
<1>5. None(tx', Texts) => None(tx', {"text"}) /\ TextsFirst(tx')
  <2>1. None(tx', Texts) => None(tx', {"text"})
    BY DEF None, Texts
  <2>2. None(tx', Texts) => TextsFirst(tx')
    BY <1>2, OrderAppend
  <2>3. QED
    BY <2>1, <2>2
<1>6. None(tx, {"sms"}) => None(tx', {"sms"}) /\ Head(tx) # "sms"
  BY <1>3
<1>7. ASSUME mode = "command", Head(tx) # "empty", UNCHANGED mode,
             \/ Say(OK)
             \/ Hears(Framed(Line("echo", 2)) \o Framed([OK EXCEPT !.n = Following(sent)]), 2)
      PROVE  Dialogue'
  <2>1. None(rx, Starts("prompt")) => None(rx', Starts("prompt"))
    BY <1>1, <1>7, Answered
  <2>2. Nowhere("result") => Once("result")'
    BY <1>1, <1>7, Answered
  <2>3. None(tx, {"text"}) /\ TextsFirst(tx) /\ None(rx, Starts("prompt"))
        /\ (stale \/ None(rd_buff, Starts("prompt")))
    BY <1>7 DEF Dialogue, NotAsked
  <2>4. Head(tx) \in Commands
    BY <1>2, <1>3, <1>7, <2>3 DEF Words, Texts, Commands
  <2>5. Asked' /\ NotAsked'
    BY <1>1, <1>3, <1>4, <1>7, <2>1, <2>3 DEF Asked, NotAsked
  <2>6. LeftOver'
    BY <1>1, <1>6, <1>7 DEF Dialogue, LeftOver
  <2>7. Waiting'
    <3>1. ASSUME ~cut PROVE /\ lastcmd # "none" /\ None(tx', Commands) /\ Once("result")'
      BY <1>3, <2>2, <2>4, <3>1 DEF Dialogue, Waiting
    <3>2. AtMostOne(tx', Commands) \/ ~None(tx', Commands)
      BY NoneOnce
    <3>3. QED
      BY <1>1, <1>7, <3>1, <3>2 DEF Waiting
  <2>8. QED
    BY <2>5, <2>6, <2>7 DEF Dialogue
<1>8. ASSUME mode = "command", Head(tx) = "sms", Say(Line("prompt", 2)), mode' = "text"
      PROVE  Dialogue'
  <2>1. /\ None(rx, Starts("prompt")) /\ (stale \/ None(rd_buff, Starts("prompt")))
        /\ TextsFirst(tx) /\ ~stale
    BY <1>6, <1>8 DEF Dialogue, NotAsked, LeftOver
  <2>2. Line("prompt", 2) \in LineSet /\ Line("prompt", 2).kind = "prompt"
    BY LineType DEF TypeInv
  <2>3. Once("prompt")'
    <3>1. Nowhere("prompt") => Once("prompt")'
      BY <1>1, <1>8, <2>2, SaidLine
    <3>2. QED
      BY <2>1, <3>1 DEF Nowhere
  <2>4. Nowhere("result") => Nowhere("result")'
    BY <1>1, <1>8, <2>2, SaidLine
  <2>5. Asked' /\ NotAsked' /\ LeftOver'
    BY <1>1, <1>4, <1>8, <2>1, <2>3, NoneOnce DEF Asked, NotAsked, LeftOver
  <2>6. Waiting'
    <3>1. ASSUME ~cut
          PROVE  lastcmd # "none" /\ None(tx', Commands) /\ Nowhere("result")'
      <4>1. Head(tx) \in Commands
        BY <1>8 DEF Commands
      <4>2. QED
        BY <1>3, <2>4, <3>1, <4>1 DEF Dialogue, Waiting
    <3>2. /\ None(tx', Commands) => AtMostOne(tx', Commands)
          /\ Nowhere("result")' => Once("result")'
      BY NoneOnce DEF Nowhere, Once
    <3>3. QED
      BY <1>1, <3>1, <3>2 DEF Waiting
  <2>7. QED
    BY <2>5, <2>6 DEF Dialogue
<1>9. ASSUME mode = "command", UNCHANGED <<rx, mode>>
      PROVE  Dialogue'
  <2>1. Asked' /\ NotAsked' /\ LeftOver'
    BY <1>1, <1>3, <1>4, <1>9 DEF Dialogue, Asked, NotAsked, LeftOver
  <2>2. Waiting'
    BY <1>1, <1>3, <1>9 DEF Dialogue, Waiting, Nowhere, Once
  <2>3. QED
    BY <2>1, <2>2 DEF Dialogue
<1>10. ASSUME mode = "text", Head(tx) \in Texts, Say(OK), mode' = "command"
       PROVE  Dialogue'
  <2>1. Nowhere("prompt") /\ AtMostOne(tx, Texts) /\ ~stale
    BY <1>3, <1>10 DEF Dialogue, Asked, LeftOver
  <2>2. None(tx', Texts)
    BY <1>3, <1>10, <2>1
  <2>3. /\ None(rx, Starts("prompt")) => None(rx', Starts("prompt"))
        /\ Nowhere("result") => Once("result")'
    BY <1>1, <1>10, Answered
  <2>4. Asked' /\ NotAsked' /\ LeftOver'
    BY <1>1, <1>5, <1>10, <2>1, <2>2, <2>3 DEF Asked, NotAsked, LeftOver, Nowhere
  <2>5. Waiting'
    <3>1. ASSUME ~cut
          PROVE  lastcmd # "none" /\ None(tx', Commands) /\ Once("result")'
      BY <1>3, <1>10, <2>3, <3>1 DEF Dialogue, Waiting
    <3>2. None(tx', Commands) => AtMostOne(tx', Commands)
      BY NoneOnce
    <3>3. QED
      BY <1>1, <1>10, <3>1, <3>2 DEF Waiting
  <2>6. QED
    BY <2>4, <2>5 DEF Dialogue
<1>11. ASSUME mode = "text", Head(tx) \in {"plain", "sms"}, UNCHANGED <<rx, mode>>
       PROVE  Dialogue'
  <2>1. Asked' /\ NotAsked' /\ LeftOver'
    BY <1>1, <1>3, <1>11 DEF Dialogue, Asked, NotAsked, LeftOver, Nowhere, Once
  <2>2. Waiting'
    BY <1>1, <1>3, <1>11 DEF Dialogue, Waiting, Commands
  <2>3. QED
    BY <2>1, <2>2 DEF Dialogue
<1>12. CASE ServeCommand
  BY <1>7, <1>8, <1>9, <1>12 DEF ServeCommand
<1>13. CASE ServeText
  BY <1>10, <1>11, <1>13 DEF ServeText, Texts
<1>14. QED
  BY <1>1, <1>12, <1>13

(* A command is written when none is awaited. *)
LEMMA SendKept ==
  ASSUME TypeInv, Dialogue, SendCommand
  PROVE  Dialogue'
<1>1. /\ UNCHANGED <<ready, m_state, rd_buff, rx, mode, stale, cut>>
      /\ lastcmd = "none" /\ tx' = Append(tx, lastcmd')
      /\ lastcmd' \in Commands /\ (~ready => lastcmd' = "plain")
  BY DEF SendCommand, reader, history, Commands
<1>2. tx \in Seq(Words) /\ lastcmd' \in Words /\ lastcmd' \notin Texts /\ lastcmd' # "text"
  BY <1>1 DEF TypeInv, Words, Commands, Texts
<1>3. \A S \in {Commands, Texts, {"text"}, {"sms"}} :
        /\ None(tx, S) /\ lastcmd' \notin S => None(tx', S)
        /\ None(tx, S) => AtMostOne(tx', S)
        /\ AtMostOne(tx, S) /\ lastcmd' \notin S => AtMostOne(tx', S)
  BY <1>1, <1>2, OfAppend
<1>4. TextsFirst(tx) => TextsFirst(tx')
  BY <1>1, <1>2, OrderAppend
<1>5. Asked' /\ NotAsked'
  BY <1>1, <1>2, <1>3, <1>4 DEF Dialogue, Asked, NotAsked, Nowhere, Once
<1>6. LeftOver'
  BY <1>1, <1>3 DEF Dialogue, LeftOver
<1>7. Waiting'
  BY <1>1, <1>3 DEF Dialogue, Waiting, Nowhere, Once, Commands
<1>8. QED
  BY <1>5, <1>6, <1>7 DEF Dialogue

(* The tty is lost: of what was under way the buffer is left. *)
LEMMA LostKept ==
  ASSUME TypeInv, LostTty
  PROVE  Dialogue'
<1>1. /\ ready' = FALSE /\ lastcmd' = "none" /\ rx' = <<>> /\ tx' = <<>>
      /\ mode' = "command" /\ rd_buff' = rd_buff
      /\ stale' = (stale \/ m_state = "WANT_CMD") /\ cut' = stale'
  BY DEF LostTty
<1>2. ~stale' => rd_buff' = <<>>
  BY <1>1 DEF TypeInv
<1>3. \A S : None(rx', S) /\ None(tx', S) /\ AtMostOne(rx', S) /\ AtMostOne(tx', S)
  BY <1>1, EmptyNone, NoneOnce
<1>4. ~stale' => \A kind \in {"prompt", "result"} : Nowhere(kind)' /\ Once(kind)'
  BY <1>2, <1>3, EmptyNone, NoneOnce DEF Nowhere, Once
<1>5. Asked' /\ NotAsked'
  BY <1>1, <1>2, <1>3, <1>4, EmptyNone DEF Asked, NotAsked, TextsFirst
<1>6. LeftOver' /\ Waiting'
  BY <1>1, <1>3, <1>4 DEF LeftOver, Waiting
<1>7. QED
  BY <1>5, <1>6 DEF Dialogue

(* Whatever an unset buffer holds is characters.                           *)
LEMMA UnsetType == Unset \subseteq Seq(ByteSet)
<1> SUFFICES ASSUME NEW chars \in Unset PROVE chars \in Seq(ByteSet)
  OBVIOUS
<1>1. PICK kind \in Kinds, pos \in 0 .. RDBUFF_MAX :
        chars = Characters([n |-> 0, kind |-> kind, len |-> pos])
  BY DEF Unset
<1> DEFINE line == [n |-> 0, kind |-> kind, len |-> pos]
<1>2. pos \in Nat /\ line.len = pos
  OBVIOUS
<1>3. ASSUME NEW i \in 1 .. pos PROVE Byte(line, i) \in ByteSet
  <2>1. line \in LineSet /\ i \in Nat
    BY DEF LineSet, Kinds
  <2> QED
    BY <2>1, ByteOf
<1>4. chars = [i \in 1 .. pos |-> Byte(line, i)]
  BY <1>1, <1>2 DEF Characters
<1> HIDE DEF line
<1> QED
  BY <1>2, <1>3, <1>4

(* The first session, whatever the buffer holds. *)
LEMMA DialogueInit == Init => DialogueInv
<1> SUFFICES ASSUME Init PROVE DialogueInv
  OBVIOUS
<1>1. /\ link = "down" /\ ready = FALSE /\ lastcmd = "none" /\ m_state = "WANT_CONTROL"
      /\ rx = <<>> /\ tx = <<>> /\ mode = "command" /\ sent = 0
      /\ stale \in BOOLEAN /\ cut = stale /\ (~stale => rd_buff = <<>>)
      /\ rd_buff = <<>> \/ rd_buff \in Unset
  BY DEF Init
<1>2. <<>> \in Seq(ByteSet) /\ <<>> \in Seq(Words) /\ rd_buff \in Seq(ByteSet)
  <2>1. <<>> \in Seq(ByteSet) /\ <<>> \in Seq(Words)
    OBVIOUS
  <2> QED
    BY <1>1, <2>1, UnsetType
<1>3. TypeInv
  BY <1>1, <1>2 DEF TypeInv
<1>4. \A S : None(<<>>, S) /\ AtMostOne(<<>>, S)
  BY EmptyNone, NoneOnce
<1>5. Asked /\ NotAsked /\ LeftOver
  BY <1>1, <1>4 DEF Asked, NotAsked, LeftOver, TextsFirst
<1>6. Waiting
  BY <1>1, <1>4 DEF Waiting, Nowhere, Once
<1>7. QED
  BY <1>3, <1>5, <1>6 DEF DialogueInv, Dialogue

LEMMA DialogueKept == DialogueInv /\ [Next]_vars => DialogueInv'
<1> SUFFICES ASSUME DialogueInv, [Next]_vars PROVE DialogueInv'
  OBVIOUS
<1>1. TypeInv /\ Dialogue /\ TypeInv'
  BY TypeKept DEF DialogueInv
<1>2. CASE Connect
  <2>1. lastcmd = "none" /\ lastcmd' = "none"
        /\ UNCHANGED <<ready, rd_buff, rx, tx, mode, stale, cut>>
    BY <1>1, <1>2 DEF TypeInv, Connect, reader, modem, history
  <2>2. Dialogue'
    BY <1>1, <2>1 DEF Dialogue, Asked, NotAsked, LeftOver, Waiting, Nowhere, Once
  <2>3. QED
    BY <1>1, <2>2 DEF DialogueInv
<1>3. CASE SendCommand
  BY <1>1, <1>3, SendKept DEF DialogueInv
<1>4. CASE Timeout
  <2>1. ready' = FALSE /\ lastcmd' = "none" /\ cut' = (cut \/ lastcmd # "none")
    BY <1>4 DEF Timeout, Disconnect
  <2>2. UNCHANGED <<rd_buff, rx, tx, mode, stale>>
    BY <1>4 DEF Timeout, reader, modem
  <2>3. Dialogue'
    BY <1>1, <2>1, <2>2 DEF Dialogue, Asked, NotAsked, LeftOver, Waiting, Nowhere, Once
  <2>4. QED
    BY <1>1, <2>3 DEF DialogueInv
<1>5. CASE LostTty
  BY <1>1, <1>5, LostKept DEF DialogueInv
<1>6. CASE ReadByte
  <2>1. rx # <<>> /\ (Overflow \/ SkipControl \/ Store \/ Give)
    BY <1>6 DEF ReadByte
  <2>2. Dialogue'
    BY <1>1, <2>1, MovedKept, GiveKept
  <2>3. QED
    BY <1>1, <2>2 DEF DialogueInv
<1>7. CASE Serve
  BY <1>1, <1>7, ServeKept DEF DialogueInv
<1>8. CASE Report
  <2>1. UNCHANGED <<ready, lastcmd, rd_buff, tx, mode, stale, cut>>
    BY <1>8 DEF Report, reader, history
  <2>2. PICK len \in Lengths : Say(Line("report", len))
    BY <1>8 DEF Report
  <2>3. Line("report", len) \in LineSet /\ Line("report", len).kind = "report"
    BY <1>1, LineType DEF TypeInv
  <2>4. \A kind \in {"prompt", "result"} :
          /\ None(rx, Starts(kind)) => None(rx', Starts(kind))
          /\ Nowhere(kind) => Nowhere(kind)'
          /\ Once(kind) => Once(kind)'
    BY <1>1, <2>1, <2>2, <2>3, SaidLine
  <2>5. Dialogue'
    BY <1>1, <2>1, <2>4 DEF Dialogue, Asked, NotAsked, LeftOver, Waiting
  <2>6. QED
    BY <1>1, <2>5 DEF DialogueInv
<1>9. CASE UNCHANGED vars
  <2>1. UNCHANGED <<ready, lastcmd, rd_buff, rx, tx, mode, stale, cut>>
    BY <1>9 DEF vars, reader, modem, history
  <2>2. Dialogue'
    BY <1>1, <2>1 DEF Dialogue, Asked, NotAsked, LeftOver, Waiting, Nowhere, Once
  <2>3. QED
    BY <1>1, <2>2 DEF DialogueInv
<1>10. QED
  BY <1>2, <1>3, <1>4, <1>5, <1>6, <1>7, <1>8, <1>9 DEF Next

-----------------------------------------------------------------------------

(* at_response_sms_prompt writes the text of a message only when m_lastcmd *)
(* is AT+CMGS: the modem that gets it has asked for it and waits, whatever *)
(* sessions were lost before and whatever the buffer overflowed with.      *)
THEOREM TextWhenAskedHolds == Spec => []TextWhenAsked
<1>1. DialogueInv => TextWhenAsked
  BY DEF DialogueInv, TypeInv, Dialogue, NotAsked, None, TextWhenAsked
<1>2. QED
  BY <1>1, DialogueInit, DialogueKept, PTL DEF Spec

(* processATEvents writes a command only when m_lastcmd is not set: no     *)
(* modem takes one for the text of a message, unless a session ended       *)
(* before its command was answered, or in a line.                          *)
THEOREM CommandsHeardHolds == Spec => []CommandsHeard
<1>1. ASSUME DialogueInv PROVE CommandsHeard
  <2>1. tx # <<>> => 1 \in DOMAIN tx /\ Head(tx) = tx[1]
    BY <1>1, LenProperties DEF DialogueInv, TypeInv
  <2>2. ~cut /\ mode # "command" => None(tx, Commands)
    BY <1>1 DEF DialogueInv, Dialogue, Waiting
  <2>3. QED
    BY <2>1, <2>2 DEF CommandsHeard, None, Commands
<1>2. QED
  BY <1>1, DialogueInit, DialogueKept, PTL DEF Spec

-----------------------------------------------------------------------------
(* The order of lines.                                                     *)

(* Where a line begins and ends in the tty. *)
LastPlace(line) == IF line.kind = "prompt" THEN line.len ELSE line.len + 1
AtStart(c) == c.i = IF c.line.kind = "echo" THEN 1 ELSE 0
AtEnd(c)   == c.i = LastPlace(c.line)

(* Of the lines of the modem only its reports have any length. *)
Placed(c) == c.i <= LastPlace(c.line) /\ (c.line.kind # "report" => c.line.len = 2)

(* A byte and the next one: in the same line, or the next line begins; an  *)
(* echo, which has no line end before it, does not come behind a prompt,   *)
(* which has none after it.                                                *)
Follows(b, c) ==
  \/ c.line = b.line /\ c.i = b.i + 1
  \/ c = b /\ IsEnd(b)
  \/ /\ AtEnd(b) /\ AtStart(c) /\ c.line.n = Following(b.line.n)
     /\ b.line.kind = "prompt" => c.line.kind # "echo"

(* CR and LF, of which an overflow may take one. *)
EndsTwice(s, k) ==
  s[k].line.kind \in {"result", "report"} /\ s[k].i = s[k].line.len =>
    k + 2 <= Len(s) /\ s[k + 2] = s[k + 1]

(* Bytes in the order in which they were said, up to the line before next. *)
Wire(s, next) ==
  /\ \A k \in 1 .. Len(s) : Placed(s[k]) /\ EndsTwice(s, k)
  /\ \A k \in 1 .. Len(s) - 1 : Follows(s[k], s[k + 1])
  /\ Len(s) > 0 => AtEnd(s[Len(s)]) /\ Following(s[Len(s)].line.n) = next

(* What a session found in the buffer is told from the next line that     *)
(* begins.                                                                 *)
LeftOrder ==
  stale => /\ Wire(rx, sent)
           /\ \A k \in 1 .. Len(rx) : rx[k].line.kind # "prompt"

(* The buffer holds characters of one line. *)
Stored ==
  ~stale => \A k \in 1 .. Len(rd_buff) :
              /\ ~IsEnd(rd_buff[k]) /\ rd_buff[k].line = rd_buff[1].line
              /\ rd_buff[k].i = rd_buff[1].i + k - 1

(* The first byte that handle_rd_data has, or will read. *)
First(c) ==
  IF m_state = "WANT_CMD"
  THEN c.line.n = due /\ c.i > 0 /\ (c.line.len < RDBUFF_MAX => rd_buff # <<>> /\ c.i = 1)
  ELSE \/ c.line.n = due /\ c.i \in {0, 1}
       \/ Following(c.line.n) = due /\ c.i = c.line.len + 1

Unread == rd_buff \o rx

Ordered ==
  ~stale => /\ Wire(Unread, sent)
            /\ IF Unread = <<>> THEN m_state = "WANT_CONTROL" /\ due = sent ELSE First(Unread[1])

Order    == sent < Lap /\ LeftOrder /\ Stored /\ Ordered
OrderInv == DialogueInv /\ Order

-----------------------------------------------------------------------------
(* Bytes in order stay so when the first of them are read. *)
LEMMA WireSuffix ==
  ASSUME NEW s \in Seq(ByteSet), NEW t \in Seq(ByteSet), NEW d \in Nat, NEW next,
         Len(s) = Len(t) + d, \A k \in 1 .. Len(t) : t[k] = s[k + d], Wire(s, next)
  PROVE  Wire(t, next)
<1>1. Len(s) \in Nat /\ Len(t) \in Nat
  OBVIOUS
<1>2. ASSUME NEW k \in 1 .. Len(t) PROVE Placed(t[k]) /\ EndsTwice(t, k)
  <2>1. k + d \in 1 .. Len(s) /\ t[k] = s[k + d]
    BY <1>1
  <2>2. Placed(s[k + d]) /\ EndsTwice(s, k + d)
    BY <2>1 DEF Wire
  <2>3. ASSUME k + 2 <= Len(t) PROVE t[k + 1] = s[k + d + 1] /\ t[k + 2] = s[k + d + 2]
    BY <1>1, <2>3
  <2>4. k + d + 2 <= Len(s) => k + 2 <= Len(t)
    BY <1>1
  <2> QED
    BY <2>1, <2>2, <2>3, <2>4 DEF EndsTwice
<1>3. ASSUME NEW k \in 1 .. Len(t) - 1 PROVE Follows(t[k], t[k + 1])
  <2>1. k + d \in 1 .. Len(s) - 1 /\ t[k] = s[k + d] /\ t[k + 1] = s[k + d + 1]
    BY <1>1
  <2> QED
    BY <2>1 DEF Wire
<1>4. Len(t) > 0 => AtEnd(t[Len(t)]) /\ Following(t[Len(t)].line.n) = next
  <2>1. Len(t) > 0 => Len(s) > 0 /\ t[Len(t)] = s[Len(s)]
    BY <1>1
  <2> QED
    BY <2>1 DEF Wire
<1> QED
  BY <1>2, <1>3, <1>4 DEF Wire

(* They stay so when others come behind them. *)
LEMMA WireJoin ==
  ASSUME NEW s \in Seq(ByteSet), NEW t \in Seq(ByteSet), NEW now, NEW next,
         Wire(s, now), Wire(t, next), t # <<>>,
         s # <<>> => Follows(s[Len(s)], t[1])
  PROVE  Wire(s \o t, next) /\ s \o t # <<>> /\ s \o t \in Seq(ByteSet)
         /\ (s \o t)[1] = IF s = <<>> THEN t[1] ELSE s[1]
<1> DEFINE u == s \o t
<1>1. /\ Len(s) \in Nat /\ Len(t) \in Nat /\ Len(t) > 0
      /\ u \in Seq(ByteSet) /\ Len(u) = Len(s) + Len(t)
      /\ \A k \in 1 .. Len(s) : u[k] = s[k]
      /\ \A k \in 1 .. Len(t) : u[Len(s) + k] = t[k]
      /\ s # <<>> <=> Len(s) > 0
  OBVIOUS
<1> HIDE DEF u
<1>2. ASSUME NEW k \in 1 .. Len(u)
      PROVE  k \in 1 .. Len(s) \/ \E j \in 1 .. Len(t) : k = Len(s) + j
  <2>1. k \notin 1 .. Len(s) => k - Len(s) \in 1 .. Len(t) /\ k = Len(s) + (k - Len(s))
    BY <1>1
  <2> QED
    BY <2>1
<1>3. ASSUME NEW k \in 1 .. Len(u) PROVE Placed(u[k]) /\ EndsTwice(u, k)
  <2>1. CASE k \in 1 .. Len(s)
    <3>1. u[k] = s[k] /\ Placed(s[k]) /\ EndsTwice(s, k)
      BY <1>1, <2>1 DEF Wire
    <3>2. ASSUME k + 2 <= Len(s)
          PROVE  k + 2 <= Len(u) /\ u[k + 1] = s[k + 1] /\ u[k + 2] = s[k + 2]
      <4>1. k + 1 \in 1 .. Len(s) /\ k + 2 \in 1 .. Len(s) /\ k + 2 <= Len(u)
        BY <1>1, <3>2
      <4> QED
        BY <1>1, <4>1
    <3> QED
      BY <3>1, <3>2 DEF EndsTwice
  <2>2. ASSUME NEW j \in 1 .. Len(t), k = Len(s) + j PROVE Placed(u[k]) /\ EndsTwice(u, k)
    <3>1. u[k] = t[j] /\ Placed(t[j]) /\ EndsTwice(t, j)
      BY <1>1, <2>2 DEF Wire
    <3>2. ASSUME j + 2 <= Len(t)
          PROVE  k + 2 <= Len(u) /\ u[k + 1] = t[j + 1] /\ u[k + 2] = t[j + 2]
      <4>1. /\ j + 1 \in 1 .. Len(t) /\ j + 2 \in 1 .. Len(t) /\ k + 2 <= Len(u)
            /\ k + 1 = Len(s) + (j + 1) /\ k + 2 = Len(s) + (j + 2)
        BY <1>1, <2>2, <3>2
      <4> QED
        BY <1>1, <4>1
    <3> QED
      BY <3>1, <3>2 DEF EndsTwice
  <2> QED
    BY <1>2, <2>1, <2>2
<1>4. ASSUME NEW k \in 1 .. Len(u) - 1 PROVE Follows(u[k], u[k + 1])
  <2>1. CASE k \in 1 .. Len(s) - 1
    <3>1. u[k] = s[k] /\ u[k + 1] = s[k + 1]
      BY <1>1, <2>1
    <3> QED
      BY <2>1, <3>1 DEF Wire
  <2>2. CASE k = Len(s)
    <3>1. u[k] = s[Len(s)] /\ u[k + 1] = t[1] /\ s # <<>>
      BY <1>1, <2>2
    <3> QED
      BY <3>1
  <2>3. CASE k > Len(s)
    <3>1. k - Len(s) \in 1 .. Len(t) - 1
      BY <1>1, <2>3
    <3>2. PICK j \in 1 .. Len(t) - 1 : k = Len(s) + j
      <4>1. k = Len(s) + (k - Len(s))
        BY <1>1
      <4> QED
        BY <3>1, <4>1
    <3>3. u[k] = t[j] /\ u[k + 1] = t[j + 1]
      BY <1>1, <3>2
    <3> QED
      BY <3>3 DEF Wire
  <2> QED
    BY <1>1, <2>1, <2>2, <2>3
<1>5. AtEnd(u[Len(u)]) /\ Following(u[Len(u)].line.n) = next /\ Len(u) > 0
  <2>1. Len(u) > 0 /\ u[Len(u)] = t[Len(t)]
    BY <1>1
  <2> QED
    BY <1>1, <2>1 DEF Wire
<1>6. u[1] = IF s = <<>> THEN t[1] ELSE s[1]
  BY <1>1
<1>7. Wire(u, next) /\ u # <<>>
  BY <1>1, <1>3, <1>4, <1>5 DEF Wire
<1> QED
  BY <1>1, <1>6, <1>7 DEF u

(* Where the bytes of two sequences are when they are joined. *)
LEMMA NotEmpty == \A s \in Seq(ByteSet) : Len(s) > 0 => s # <<>>
OBVIOUS

LEMMA JoinAt ==
  ASSUME NEW s \in Seq(ByteSet), NEW t \in Seq(ByteSet)
  PROVE  /\ s \o t \in Seq(ByteSet) /\ Len(s \o t) = Len(s) + Len(t)
         /\ \A k \in 1 .. Len(s) : (s \o t)[k] = s[k]
         /\ \A k \in 1 .. Len(t) : (s \o t)[Len(s) + k] = t[k]
OBVIOUS

(* What is said of a line, byte by byte. *)
LEMMA FrameBytes ==
  ASSUME NEW line \in LineSet
  PROVE  LET f == Framed(line) IN
         /\ f \in Seq(ByteSet)
         /\ line.kind = "echo" => /\ Len(f) = line.len + 1
                                  /\ \A k \in 1 .. Len(f) : f[k] = Byte(line, k)
         /\ line.kind = "prompt" => /\ Len(f) = line.len + 2
                                    /\ f[1] = Byte(line, 0)
                                    /\ \A k \in 2 .. Len(f) : f[k] = Byte(line, k - 2)
         /\ line.kind \in {"result", "report"} =>
              /\ Len(f) = line.len + 4
              /\ f[1] = Byte(line, 0) /\ f[Len(f)] = Byte(line, line.len + 1)
              /\ \A k \in 2 .. Len(f) - 1 : f[k] = Byte(line, k - 2)
<1> DEFINE text   == Characters(line)
           before == <<Byte(line, 0), Byte(line, 0)>>
           end    == Byte(line, line.len + 1)
           n      == line.len
<1>1. n \in Nat \ {0}
  BY DEF LineSet
<1>2. /\ text \in Seq(ByteSet) /\ Len(text) = n
      /\ \A i \in 1 .. n : text[i] = Byte(line, i)
  <2>1. text \in Seq(ByteSet)
    BY CharactersOf
  <2>2. Len(text) = n /\ \A i \in 1 .. n : text[i] = Byte(line, i)
    BY <1>1 DEF Characters
  <2> QED
    BY <2>1, <2>2
<1>3. /\ before \in Seq(ByteSet) /\ Len(before) = 2
      /\ before[1] = Byte(line, 0) /\ before[2] = Byte(line, 0)
      /\ <<end, end>> \in Seq(ByteSet) /\ Len(<<end, end>>) = 2
      /\ <<end, end>>[1] = end /\ <<end, end>>[2] = end
      /\ end \in ByteSet
  <2>1. Byte(line, 0) \in ByteSet /\ end \in ByteSet
    BY <1>1, ByteOf
  <2> QED
    BY <2>1
<1>4. Framed(line) \in Seq(ByteSet)
  BY FramedLine
<1> HIDE DEF text, before, end, n
<1>5. /\ before \o text \in Seq(ByteSet) /\ Len(before \o text) = n + 2
      /\ (before \o text)[1] = Byte(line, 0)
      /\ \A k \in 2 .. n + 2 : (before \o text)[k] = Byte(line, k - 2)
  <2>1. /\ before \o text \in Seq(ByteSet) /\ Len(before \o text) = 2 + n
        /\ \A k \in 1 .. 2 : (before \o text)[k] = before[k]
        /\ \A k \in 1 .. n : (before \o text)[2 + k] = text[k]
    <3>1. /\ before \o text \in Seq(ByteSet) /\ Len(before \o text) = Len(before) + Len(text)
          /\ \A k \in 1 .. Len(before) : (before \o text)[k] = before[k]
          /\ \A k \in 1 .. Len(text) : (before \o text)[Len(before) + k] = text[k]
      BY <1>2, <1>3, JoinAt
    <3> QED
      BY <1>2, <1>3, <3>1
  <2>2. (before \o text)[1] = Byte(line, 0) /\ (before \o text)[2] = Byte(line, 0)
    <3>1. 1 \in 1 .. 2 /\ 2 \in 1 .. 2
      OBVIOUS
    <3> QED
      BY <1>3, <2>1, <3>1
  <2>3. ASSUME NEW k \in 3 .. n + 2 PROVE (before \o text)[k] = Byte(line, k - 2)
    <3>1. k - 2 \in 1 .. n /\ k = 2 + (k - 2)
      BY <1>1
    <3> QED
      BY <1>2, <2>1, <3>1
  <2>4. ASSUME NEW k \in 2 .. n + 2, k # 2 PROVE k \in 3 .. n + 2
    BY <1>1, <2>4
  <2>5. 2 - 2 = 0
    OBVIOUS
  <2>6. 2 + n = n + 2
    BY <1>1
  <2> QED
    BY <2>1, <2>2, <2>3, <2>4, <2>5, <2>6
<1>6. /\ Append(text, end) \in Seq(ByteSet) /\ Len(Append(text, end)) = n + 1
      /\ \A k \in 1 .. n + 1 : Append(text, end)[k] = Byte(line, k)
  <2>1. /\ Append(text, end) \in Seq(ByteSet) /\ Len(Append(text, end)) = n + 1
        /\ \A k \in 1 .. n : Append(text, end)[k] = text[k]
        /\ Append(text, end)[n + 1] = end
    BY <1>2, <1>3, AppendProperties
  <2>2. ASSUME NEW k \in 1 .. n + 1 PROVE k \in 1 .. n \/ k = n + 1
    BY <1>1
  <2>3. end = Byte(line, n + 1)
    BY DEF end, n
  <2> QED
    BY <1>2, <2>1, <2>2, <2>3
<1>7. LET f == (before \o text) \o <<end, end>> IN
      /\ Len(f) = n + 4 /\ f[1] = Byte(line, 0) /\ f[n + 4] = end /\ f[n + 3] = end
      /\ \A k \in 2 .. n + 2 : f[k] = Byte(line, k - 2)
  <2> DEFINE f == (before \o text) \o <<end, end>>
  <2>1. /\ Len(f) = n + 4
        /\ \A k \in 1 .. n + 2 : f[k] = (before \o text)[k]
        /\ f[n + 3] = <<end, end>>[1] /\ f[n + 4] = <<end, end>>[2]
    <3>1. /\ Len(f) = (n + 2) + 2
          /\ \A k \in 1 .. n + 2 : f[k] = (before \o text)[k]
          /\ \A k \in 1 .. 2 : f[(n + 2) + k] = <<end, end>>[k]
      BY <1>3, <1>5, JoinAt
    <3>2. n + 3 = (n + 2) + 1 /\ n + 4 = (n + 2) + 2
      BY <1>1
    <3>3. /\ f[(n + 2) + 1] = <<end, end>>[1] /\ f[(n + 2) + 2] = <<end, end>>[2]
      <4>1. 1 \in 1 .. 2 /\ 2 \in 1 .. 2
        OBVIOUS
      <4> QED
        BY <3>1, <4>1
    <3> QED
      BY <3>1, <3>2, <3>3
  <2>2. 1 \in 1 .. n + 2 /\ \A k \in 2 .. n + 2 : k \in 1 .. n + 2
    BY <1>1
  <2> QED
    BY <1>3, <1>5, <2>1, <2>2
<1>8. CASE line.kind = "echo"
  <2>1. Framed(line) = Append(text, end)
    BY <1>8 DEF Framed, text, end
  <2> QED
    BY <1>4, <1>6, <1>8, <2>1 DEF n
<1>9. CASE line.kind = "prompt"
  <2>1. Framed(line) = before \o text
    BY <1>9 DEF Framed, before, text
  <2> QED
    BY <1>4, <1>5, <1>9, <2>1 DEF n
<1>10. CASE line.kind \in {"result", "report"}
  <2>1. Framed(line) = (before \o text) \o <<end, end>>
    <3>1. line.kind # "prompt" /\ line.kind # "echo"
      BY <1>10
    <3> QED
      BY <3>1, Zenon DEF Framed, before, end, text
  <2>2. ASSUME NEW k \in 2 .. n + 3 PROVE k \in 2 .. n + 2 \/ (k = n + 3 /\ k - 2 = n + 1)
    BY <1>1
  <2>3. Len(Framed(line)) - 1 = n + 3 /\ end = Byte(line, n + 1)
    BY <1>1, <1>7, <2>1 DEF n, end
  <2>4. \A k \in 2 .. n + 3 : Framed(line)[k] = Byte(line, k - 2)
    BY <1>7, <2>1, <2>2, <2>3
  <2> QED
    BY <1>4, <1>7, <1>10, <2>1, <2>3, <2>4 DEF n
<1> QED
  BY <1>8, <1>9, <1>10 DEF LineSet

(* The lines the modem says. *)
Sound(line) == line \in LineSet /\ (line.kind # "report" => line.len = 2)

(* A line in the tty. *)
LEMMA FrameWire ==
  ASSUME NEW line, Sound(line)
  PROVE  LET f == Framed(line) IN
         /\ Wire(f, Following(line.n)) /\ f \in Seq(ByteSet) /\ f # <<>>
         /\ f[1].line = line /\ AtStart(f[1])
<1> DEFINE f == Framed(line)
           n == line.len
<1>1. line \in LineSet /\ n \in Nat \ {0} /\ (line.kind # "report" => n = 2)
  BY DEF Sound, LineSet
<1>2. \A i : Byte(line, i).line = line /\ Byte(line, i).i = i
  BY DEF Byte
<1>3. \A i \in Nat : IsEnd(Byte(line, i)) <=> i = 0 \/ i = n + 1
  BY <1>2 DEF IsEnd
<1>4. f \in Seq(ByteSet)
  BY <1>1, FrameBytes
<1> HIDE DEF f, n
<1>5. ASSUME NEW i \in Nat, i <= n
      PROVE  /\ Placed(Byte(line, i))
             /\ line.kind # "prompt" => Placed(Byte(line, n + 1))
             /\ Follows(Byte(line, i), Byte(line, i + 1))
  <2>1. Placed(Byte(line, i))
    BY <1>1, <1>2, <1>5 DEF Placed, LastPlace, n
  <2>2. line.kind # "prompt" => Placed(Byte(line, n + 1))
    BY <1>1, <1>2 DEF Placed, LastPlace, n
  <2>3. Follows(Byte(line, i), Byte(line, i + 1))
    BY <1>2 DEF Follows
  <2> QED
    BY <2>1, <2>2, <2>3
<1>6. /\ Follows(Byte(line, 0), Byte(line, 0))
      /\ Follows(Byte(line, n + 1), Byte(line, n + 1))
  BY <1>1, <1>3 DEF Follows
<1>7. CASE line.kind = "echo"
  <2>1. Len(f) = n + 1 /\ \A k \in 1 .. n + 1 : f[k] = Byte(line, k)
    BY <1>1, <1>7, FrameBytes DEF f, n
  <2>2. ASSUME NEW k \in 1 .. Len(f) PROVE Placed(f[k]) /\ EndsTwice(f, k)
    <3>1. f[k] = Byte(line, k) /\ (k <= n \/ k = n + 1) /\ 0 <= n /\ k \in Nat
      BY <1>1, <2>1
    <3> QED
      BY <1>2, <1>5, <1>7, <3>1 DEF EndsTwice
  <2>3. ASSUME NEW k \in 1 .. Len(f) - 1 PROVE Follows(f[k], f[k + 1])
    <3>1. k \in Nat /\ k <= n /\ f[k] = Byte(line, k) /\ f[k + 1] = Byte(line, k + 1)
      BY <1>1, <2>1
    <3> QED
      BY <1>5, <3>1
  <2>4. f[Len(f)] = Byte(line, n + 1) /\ f[1] = Byte(line, 1) /\ Len(f) > 0
    BY <1>1, <2>1
  <2>5. AtEnd(f[Len(f)]) /\ f[Len(f)].line.n = line.n
    BY <1>2, <1>7, <2>4 DEF AtEnd, LastPlace, n
  <2>6. f[1].line = line /\ AtStart(f[1])
    BY <1>2, <1>7, <2>4 DEF AtStart
  <2> QED
    BY <1>4, <2>2, <2>3, <2>4, <2>5, <2>6 DEF Wire, f
<1>8. CASE line.kind = "prompt"
  <2>1. Len(f) = n + 2 /\ f[1] = Byte(line, 0) /\ \A k \in 2 .. n + 2 : f[k] = Byte(line, k - 2)
    BY <1>1, <1>8, FrameBytes DEF f, n
  <2>2. ASSUME NEW k \in 1 .. Len(f) PROVE Placed(f[k]) /\ EndsTwice(f, k)
    <3>1. \E i \in Nat : f[k] = Byte(line, i) /\ i <= n
      <4>1. CASE k = 1
        BY <1>1, <2>1, <4>1
      <4>2. CASE k # 1
        <5>1. k \in 2 .. n + 2 /\ k - 2 \in Nat /\ k - 2 <= n
          BY <1>1, <2>1, <4>2
        <5> QED
          BY <2>1, <5>1
      <4> QED
        BY <4>1, <4>2
    <3> QED
      BY <1>2, <1>5, <1>8, <3>1 DEF EndsTwice
  <2>3. ASSUME NEW k \in 1 .. Len(f) - 1 PROVE Follows(f[k], f[k + 1])
    <3>1. CASE k = 1
      <4>1. f[k] = Byte(line, 0) /\ f[k + 1] = Byte(line, 0)
        <5>1. 2 \in 2 .. n + 2 /\ 2 - 2 = 0
          BY <1>1
        <5> QED
          BY <2>1, <3>1, <5>1
      <4> QED
        BY <1>6, <4>1
    <3>2. CASE k # 1
      <4>1. /\ k - 2 \in Nat /\ k - 2 <= n /\ k \in 2 .. n + 2 /\ k + 1 \in 2 .. n + 2
            /\ (k + 1) - 2 = (k - 2) + 1
        BY <1>1, <2>1, <3>2
      <4>2. f[k] = Byte(line, k - 2) /\ f[k + 1] = Byte(line, (k - 2) + 1)
        BY <2>1, <4>1
      <4> QED
        BY <1>5, <4>1, <4>2
    <3> QED
      BY <3>1, <3>2
  <2>4. f[Len(f)] = Byte(line, n) /\ Len(f) > 0
    <3>1. n + 2 \in 2 .. n + 2 /\ (n + 2) - 2 = n /\ n + 2 > 0
      BY <1>1
    <3> QED
      BY <2>1, <3>1
  <2>5. AtEnd(f[Len(f)]) /\ f[Len(f)].line.n = line.n
    BY <1>2, <1>8, <2>4 DEF AtEnd, LastPlace, n
  <2>6. f[1].line = line /\ AtStart(f[1])
    BY <1>2, <1>8, <2>1 DEF AtStart
  <2> QED
    BY <1>4, <2>2, <2>3, <2>4, <2>5, <2>6 DEF Wire, f
<1>9. CASE line.kind \in {"result", "report"}
  <2>1. /\ Len(f) = n + 4 /\ f[1] = Byte(line, 0) /\ f[n + 4] = Byte(line, n + 1)
        /\ \A k \in 2 .. n + 3 : f[k] = Byte(line, k - 2)
    <3>1. /\ Len(f) = n + 4 /\ f[1] = Byte(line, 0) /\ f[Len(f)] = Byte(line, n + 1)
          /\ \A k \in 2 .. Len(f) - 1 : f[k] = Byte(line, k - 2)
      BY <1>1, <1>9, FrameBytes DEF f, n
    <3>2. (n + 4) - 1 = n + 3
      BY <1>1
    <3> QED
      BY <3>1, <3>2
  <2>2. ASSUME NEW k \in 1 .. Len(f)
        PROVE  \/ k = 1 \/ k = n + 4
               \/ /\ k - 2 \in Nat /\ k - 2 <= n + 1 /\ k \in 2 .. n + 3
    BY <1>1, <2>1
  <2>3. ASSUME NEW k \in 1 .. Len(f) PROVE Placed(f[k]) /\ EndsTwice(f, k)
    <3>1. CASE k = 1 \/ k = n + 4
      <4>1. f[k] = Byte(line, 0) \/ f[k] = Byte(line, n + 1)
        BY <2>1, <3>1
      <4>2. Placed(f[k]) /\ f[k].i # n /\ f[k].line = line
        BY <1>1, <1>2, <1>5, <1>9, <4>1
      <4> QED
        BY <4>2 DEF EndsTwice, n
    <3>2. CASE k \in 2 .. n + 3 /\ k - 2 \in Nat /\ k - 2 <= n + 1
      <4>1. f[k] = Byte(line, k - 2)
        BY <2>1, <3>2
      <4>2. k - 2 <= n \/ k - 2 = n + 1
        BY <1>1, <3>2
      <4>3. Placed(f[k])
        BY <1>1, <1>5, <1>9, <3>2, <4>1, <4>2
      <4>4. ASSUME k - 2 = n PROVE k + 2 <= Len(f) /\ f[k + 2] = f[k + 1]
        <5>1. k + 1 = n + 3 /\ k + 2 = n + 4 /\ n + 3 \in 2 .. n + 3 /\ (n + 3) - 2 = n + 1
              /\ n + 4 <= n + 4
          BY <1>1, <3>2, <4>4
        <5>2. f[n + 3] = Byte(line, n + 1)
          BY <2>1, <5>1
        <5> QED
          BY <2>1, <5>1, <5>2
      <4> QED
        BY <1>2, <4>1, <4>3, <4>4 DEF EndsTwice, n
    <3> QED
      BY <2>2, <3>1, <3>2
  <2>4. ASSUME NEW k \in 1 .. Len(f) - 1 PROVE Follows(f[k], f[k + 1])
    <3>1. CASE k = 1
      <4>1. f[k] = Byte(line, 0) /\ f[k + 1] = Byte(line, 0)
        <5>1. 2 \in 2 .. n + 3 /\ 2 - 2 = 0
          BY <1>1
        <5> QED
          BY <2>1, <3>1, <5>1
      <4> QED
        BY <1>6, <4>1
    <3>2. CASE k \in 2 .. n + 2
      <4>1. /\ k - 2 \in Nat /\ k - 2 <= n /\ k \in 2 .. n + 3 /\ k + 1 \in 2 .. n + 3
            /\ (k + 1) - 2 = (k - 2) + 1
        BY <1>1, <3>2
      <4>2. f[k] = Byte(line, k - 2) /\ f[k + 1] = Byte(line, (k - 2) + 1)
        BY <2>1, <4>1
      <4> QED
        BY <1>5, <4>1, <4>2
    <3>3. CASE k = n + 3
      <4>1. k \in 2 .. n + 3 /\ k - 2 = n + 1 /\ k + 1 = n + 4
        BY <1>1, <3>3
      <4>2. f[k] = Byte(line, n + 1) /\ f[k + 1] = Byte(line, n + 1)
        BY <2>1, <4>1
      <4> QED
        BY <1>6, <4>2
    <3>4. k = 1 \/ k \in 2 .. n + 2 \/ k = n + 3
      BY <1>1, <2>1
    <3> QED
      BY <3>1, <3>2, <3>3, <3>4
  <2>5. f[Len(f)] = Byte(line, n + 1) /\ Len(f) > 0
    BY <1>1, <2>1
  <2>6. AtEnd(f[Len(f)]) /\ f[Len(f)].line.n = line.n
    BY <1>2, <1>9, <2>5 DEF AtEnd, LastPlace, n
  <2>7. f[1].line = line /\ AtStart(f[1])
    BY <1>2, <1>9, <2>1 DEF AtStart
  <2> QED
    BY <1>4, <2>3, <2>4, <2>5, <2>6, <2>7 DEF Wire, f
<1> QED
  BY <1>1, <1>7, <1>8, <1>9 DEF LineSet

(* All its bytes are of one line. *)
LEMMA FrameLine ==
  ASSUME NEW line, Sound(line), NEW k \in 1 .. Len(Framed(line))
  PROVE  Framed(line)[k].line = line
<1> DEFINE f == Framed(line)
<1>1. line \in LineSet /\ line.len \in Nat
  BY DEF Sound, LineSet
<1>2. \A i : Byte(line, i).line = line
  BY DEF Byte
<1>3. f \in Seq(ByteSet) /\ Len(f) \in Nat
  BY <1>1, FrameBytes
<1> HIDE DEF f
<1>4. k = 1 \/ k = Len(f) \/ k \in 2 .. Len(f) - 1
  BY <1>3 DEF f
<1>5. CASE line.kind = "echo"
  BY <1>1, <1>2, <1>5, FrameBytes DEF f
<1>6. CASE line.kind = "prompt"
  <2>1. /\ f[1] = Byte(line, 0) /\ \A j \in 2 .. Len(f) : f[j] = Byte(line, j - 2)
        /\ Len(f) = line.len + 2
    BY <1>1, <1>6, FrameBytes DEF f
  <2>2. k = 1 \/ k \in 2 .. Len(f)
    BY <1>1, <1>4, <2>1
  <2> QED
    BY <1>2, <2>1, <2>2 DEF f
<1>7. CASE line.kind \in {"result", "report"}
  <2>1. /\ f[1] = Byte(line, 0) /\ f[Len(f)] = Byte(line, line.len + 1)
        /\ \A j \in 2 .. Len(f) - 1 : f[j] = Byte(line, j - 2)
    BY <1>1, <1>7, FrameBytes DEF f
  <2> QED
    BY <1>2, <1>4, <2>1 DEF f
<1> QED
  BY <1>1, <1>5, <1>6, <1>7 DEF LineSet

-----------------------------------------------------------------------------
(* What comes next in the tty.                                             *)

(* What a byte is made of. *)
LEMMA ByteParts ==
  ASSUME NEW c \in ByteSet
  PROVE  /\ c.line \in LineSet /\ c.i \in Nat /\ c.line.len \in Nat /\ c.line.len > 0
         /\ c.line.n \in Nat
         /\ c.line.kind \in {"prompt", "echo", "result", "report"}
         /\ AtEnd(c) => c.i > 0 /\ (IsEnd(c) <=> c.line.kind # "prompt")
         /\ AtStart(c) => c.i \in {0, 1}
         /\ Placed(c) => c.i <= c.line.len + 1
BY DEF ByteSet, LineSet, AtEnd, AtStart, Placed, IsEnd, LastPlace

(* The number of the line behind a line end. *)
Behind(c) == IF c.i = 0 THEN c.line.n ELSE Following(c.line.n)

(* After a line end the next line begins, or the other half of the end     *)
(* follows.                                                                *)
LEMMA AfterEnd ==
  ASSUME NEW s \in Seq(ByteSet), NEW next, Wire(s, next), NEW j \in 1 .. Len(s), IsEnd(s[j])
  PROVE  IF j = Len(s) THEN Behind(s[j]) = next
         ELSE \/ s[j + 1].line.n = Behind(s[j]) /\ s[j + 1].i \in {0, 1}
              \/ /\ Following(s[j + 1].line.n) = Behind(s[j])
                 /\ s[j + 1].i = s[j + 1].line.len + 1
<1>1. s[j] \in ByteSet
  OBVIOUS
<1>2. CASE j = Len(s)
  <2>1. AtEnd(s[j]) /\ Following(s[j].line.n) = next
    BY <1>2 DEF Wire
  <2> QED
    BY <1>1, <1>2, <2>1, ByteParts DEF Behind
<1>3. CASE j # Len(s)
  <2> DEFINE c == s[j]
             e == s[j + 1]
             d == Behind(c)
  <2>1. j \in 1 .. Len(s) - 1 /\ j + 1 \in 1 .. Len(s)
    BY <1>3
  <2>2. Follows(c, e) /\ Placed(e) /\ c \in ByteSet /\ e \in ByteSet
    BY <2>1 DEF Wire
  <2> DEFINE Q == \/ e.line.n = d /\ e.i \in {0, 1}
                  \/ Following(e.line.n) = d /\ e.i = e.line.len + 1
  <2> HIDE DEF c, e
  <2> SUFFICES Q
    BY <1>3 DEF c, e
  <2>3. /\ c.i \in Nat /\ c.line.len \in Nat /\ c.line.len > 0
        /\ e.i <= e.line.len + 1 /\ (c.i = 0 \/ c.i = c.line.len + 1)
        /\ d = IF c.i = 0 THEN c.line.n ELSE Following(c.line.n)
    BY <2>2, ByteParts DEF IsEnd, c, Behind
  <2> HIDE DEF d
  <2>4. ASSUME e.line = c.line, e.i = c.i + 1 PROVE Q
    BY <2>3, <2>4
  <2>5. CASE e = c
    BY <2>3, <2>5
  <2>6. CASE AtEnd(c) /\ AtStart(e) /\ e.line.n = Following(c.line.n)
    BY <2>2, <2>3, <2>6, ByteParts
  <2> QED
    BY <2>2, <2>4, <2>5, <2>6 DEF Follows
<1> QED
  BY <1>2, <1>3

(* The bytes stored, and the bytes to read. *)
LEMMA UnreadParts ==
  ASSUME TypeInv
  PROVE  /\ rd_buff \in Seq(ByteSet) /\ rx \in Seq(ByteSet) /\ Unread \in Seq(ByteSet)
         /\ Len(rd_buff) \in Nat /\ Len(rx) \in Nat
         /\ Len(Unread) = Len(rd_buff) + Len(rx)
         /\ \A k \in 1 .. Len(rd_buff) : Unread[k] = rd_buff[k]
         /\ \A k \in 1 .. Len(rx) : Unread[Len(rd_buff) + k] = rx[k]
BY JoinAt DEF TypeInv, Unread

(* The byte that is read. *)
LEMMA ByteRead ==
  ASSUME TypeInv, rx # <<>>
  PROVE  /\ Len(rx) > 0 /\ Head(rx) = rx[1] /\ rx[1] \in ByteSet
         /\ Unread[Len(rd_buff) + 1] = rx[1] /\ Len(rd_buff) + 1 <= Len(Unread)
         /\ Tail(rx) \in Seq(ByteSet) /\ Len(Tail(rx)) = Len(rx) - 1
         /\ \A k \in 1 .. Len(rx) - 1 : Tail(rx)[k] = rx[k + 1]
<1>1. /\ rx \in Seq(ByteSet) /\ Len(rx) \in Nat /\ Len(rx) > 0 /\ Len(rd_buff) \in Nat
      /\ Len(Unread) = Len(rd_buff) + Len(rx)
  BY UnreadParts
<1>2. 1 \in 1 .. Len(rx)
  BY <1>1
<1>3. Unread[Len(rd_buff) + 1] = rx[1]
  BY <1>2, UnreadParts
<1>4. Len(rd_buff) + 1 <= Len(Unread)
  BY <1>1
<1> QED
  BY <1>1, <1>2, <1>3, <1>4

(* A byte that is stored stays where it is among those not given. *)
LEMMA UnreadStored ==
  ASSUME TypeInv, TypeInv', rx # <<>>, rx' = Tail(rx), rd_buff' = Append(rd_buff, Head(rx))
  PROVE  /\ Len(Unread') = Len(Unread) /\ Len(Unread) > 0
         /\ \A k \in 1 .. Len(Unread) : Unread'[k] = Unread[k]
<1> DEFINE m == Len(rd_buff)
           n == Len(rx)
<1>1. /\ m \in Nat /\ n \in Nat /\ n > 0 /\ Len(Unread) = m + n
      /\ \A k \in 1 .. m : Unread[k] = rd_buff[k]
      /\ \A k \in 1 .. n : Unread[m + k] = rx[k]
  BY UnreadParts, ByteRead
<1>2. /\ Len(rd_buff') = m + 1 /\ \A k \in 1 .. m : rd_buff'[k] = rd_buff[k]
      /\ rd_buff'[m + 1] = rx[1]
  BY UnreadParts, ByteRead, AppendProperties
<1>3. Len(rx') = n - 1 /\ \A k \in 1 .. n - 1 : rx'[k] = rx[k + 1]
  BY ByteRead
<1>4. /\ Len(Unread') = Len(rd_buff') + Len(rx')
      /\ \A k \in 1 .. Len(rd_buff') : Unread'[k] = rd_buff'[k]
      /\ \A k \in 1 .. Len(rx') : Unread'[Len(rd_buff') + k] = rx'[k]
  BY JoinAt DEF TypeInv, Unread
<1> HIDE DEF m, n
<1>5. Len(Unread') = m + n
  BY <1>1, <1>2, <1>3, <1>4
<1>6. ASSUME NEW k \in 1 .. m + n PROVE Unread'[k] = Unread[k]
  <2>1. CASE k \in 1 .. m
    <3>1. k \in 1 .. m + 1
      BY <1>1, <2>1
    <3> QED
      BY <1>1, <1>2, <1>4, <2>1, <3>1
  <2>2. CASE k = m + 1
    <3>1. 1 \in 1 .. n /\ k \in 1 .. m + 1
      BY <1>1, <2>2
    <3> QED
      BY <1>1, <1>2, <1>4, <2>2, <3>1
  <2>3. CASE k > m + 1
    <3>1. /\ k - m - 1 \in 1 .. n - 1 /\ k = (m + 1) + (k - m - 1)
          /\ (k - m - 1) + 1 = k - m /\ k - m \in 1 .. n /\ k = m + (k - m)
      BY <1>1, <2>3
    <3>2. Unread'[(m + 1) + (k - m - 1)] = rx'[k - m - 1]
      BY <1>2, <1>3, <1>4, <3>1
    <3>3. rx'[k - m - 1] = rx[(k - m - 1) + 1] /\ Unread[m + (k - m)] = rx[k - m]
      BY <1>1, <1>3, <3>1
    <3> QED
      BY <3>1, <3>2, <3>3
  <2> QED
    BY <1>1, <2>1, <2>2, <2>3
<1> QED
  BY <1>1, <1>5, <1>6

(* Those before are gone with a byte that is not. *)
LEMMA UnreadCut ==
  ASSUME TypeInv, TypeInv', rx # <<>>, rx' = Tail(rx), rd_buff' = <<>>
  PROVE  /\ Len(Unread) = Len(Unread') + (Len(rd_buff) + 1)
         /\ \A k \in 1 .. Len(Unread') : Unread'[k] = Unread[k + (Len(rd_buff) + 1)]
         /\ Unread' = Tail(rx)
<1> DEFINE m == Len(rd_buff)
           n == Len(rx)
<1>1. /\ m \in Nat /\ n \in Nat /\ n > 0 /\ Len(Unread) = m + n
      /\ \A k \in 1 .. n : Unread[m + k] = rx[k]
  BY UnreadParts, ByteRead
<1>2. Unread' = Tail(rx)
  BY ByteRead DEF Unread
<1>3. Len(Tail(rx)) = n - 1 /\ \A k \in 1 .. n - 1 : Tail(rx)[k] = rx[k + 1]
  BY ByteRead
<1> HIDE DEF m, n
<1>4. ASSUME NEW k \in 1 .. n - 1 PROVE Tail(rx)[k] = Unread[k + (m + 1)]
  <2>1. k + 1 \in 1 .. n /\ k + (m + 1) = m + (k + 1)
    BY <1>1
  <2> QED
    BY <1>1, <1>3, <2>1
<1>5. m + n = (n - 1) + (m + 1)
  BY <1>1
<1> QED
  BY <1>1, <1>2, <1>3, <1>4, <1>5 DEF m

(* The line in the buffer, of a session that began with an empty one: its  *)
(* characters so far, from the first if it fits; a byte behind them is the *)
(* next one of the line, or ends it.                                       *)
LEMMA LineNow ==
  ASSUME TypeInv, Stored, Ordered, ~stale, m_state = "WANT_CMD", rd_buff # <<>>, rx # <<>>
  PROVE  LET line == rd_buff[1].line
             i    == rd_buff[1].i + Len(rd_buff) - 1
             c    == rx[1]
         IN  /\ line \in LineSet /\ line.n = due /\ rd_buff[1].i \in Nat /\ rd_buff[1].i > 0
             /\ (line.len < RDBUFF_MAX => rd_buff[1].i = 1)
             /\ Len(rd_buff) \in Nat /\ Len(rd_buff) > 0 /\ i <= line.len
             /\ line.kind # "report" => line.len = 2
             /\ ~IsEnd(c) => c.line = line /\ c.i = i + 1
             /\ IsEnd(c) => /\ i = line.len
                            /\ \/ c.line = line /\ c.i = line.len + 1
                               \/ c.i = 0 /\ c.line.n = Following(due) /\ line.kind = "prompt"
<1> DEFINE m    == Len(rd_buff)
           line == rd_buff[1].line
           i    == rd_buff[1].i + m - 1
           b    == rd_buff[m]
           c    == rx[1]
<1>1. m \in Nat /\ m > 0 /\ Len(rx) > 0 /\ Len(rx) \in Nat /\ 1 \in 1 .. m /\ m \in 1 .. m
  BY UnreadParts, ByteRead
<1>2. /\ rd_buff[1] \in ByteSet /\ b \in ByteSet /\ c \in ByteSet
      /\ Unread[1] = rd_buff[1] /\ Unread[m] = b /\ Unread[m + 1] = c
      /\ Len(Unread) = m + Len(rx) /\ Unread # <<>>
  BY <1>1, UnreadParts, ByteRead
<1>3. ~IsEnd(b) /\ b.line = line /\ b.i = i
  BY <1>1 DEF Stored
<1>4. First(rd_buff[1]) /\ Wire(Unread, sent)
  BY <1>2 DEF Ordered
<1>5. /\ line.n = due /\ rd_buff[1].i > 0 /\ (line.len < RDBUFF_MAX => rd_buff[1].i = 1)
  BY <1>4 DEF First
<1>6. m \in 1 .. Len(Unread) /\ m + 1 \in 1 .. Len(Unread) /\ m \in 1 .. Len(Unread) - 1
  BY <1>1, <1>2
<1>7. Placed(b) /\ Placed(c) /\ Follows(b, c)
  BY <1>2, <1>4, <1>6 DEF Wire
<1> HIDE DEF m, line, i, b, c
<1>8. /\ line \in LineSet /\ line.len \in Nat /\ line.len > 0 /\ i \in Nat /\ i <= line.len
      /\ (line.kind # "report" => line.len = 2) /\ i > 0
  <2>1. /\ b.line \in LineSet /\ b.i \in Nat /\ b.line.len \in Nat /\ b.line.len > 0
        /\ b.i <= b.line.len + 1
    BY <1>2, <1>7, ByteParts
  <2> QED
    BY <1>3, <1>7, <2>1 DEF IsEnd, Placed
<1>9. c.i \in Nat /\ c.line.len \in Nat /\ c.line.len > 0
  BY <1>2, ByteParts
<1>10. ASSUME c.line = line, c.i = i + 1
       PROVE  IsEnd(c) => i = line.len /\ c.i = line.len + 1
  BY <1>3, <1>8, <1>9, <1>10 DEF IsEnd
<1>11. ASSUME AtEnd(b), AtStart(c), c.line.n = Following(line.n),
              line.kind = "prompt" => c.line.kind # "echo"
       PROVE  i = line.len /\ c.i = 0 /\ c.line.n = Following(due) /\ line.kind = "prompt"
              /\ IsEnd(c)
  <2>1. line.kind = "prompt" /\ i = line.len
    BY <1>3, <1>8, <1>11 DEF AtEnd, LastPlace, IsEnd
  <2>2. c.i = 0
    BY <1>11, <2>1 DEF AtStart
  <2> QED
    BY <1>5, <1>11, <2>1, <2>2 DEF line, IsEnd
<1>12. /\ ~IsEnd(c) => c.line = line /\ c.i = i + 1
       /\ IsEnd(c) => /\ i = line.len
                      /\ \/ c.line = line /\ c.i = line.len + 1
                         \/ c.i = 0 /\ c.line.n = Following(due) /\ line.kind = "prompt"
  BY <1>3, <1>7, <1>10, <1>11, <1>8, <1>9 DEF Follows, IsEnd
<1>13. rd_buff[1].i \in Nat
  BY <1>2, ByteParts
<1> QED
  BY <1>1, <1>5, <1>8, <1>12, <1>13 DEF m, line, i, c

-----------------------------------------------------------------------------
(* handle_rd_data.                                                         *)

(* The tty without the byte that was read. *)
LEMMA TailWire ==
  ASSUME TypeInv, rx # <<>>, NEW next, Wire(rx, next)
  PROVE  Wire(Tail(rx), next)
<1>1. rx \in Seq(ByteSet) /\ Len(rx) \in Nat
  BY UnreadParts
<1>2. /\ Tail(rx) \in Seq(ByteSet) /\ Len(rx) = Len(Tail(rx)) + 1
      /\ \A k \in 1 .. Len(Tail(rx)) : Tail(rx)[k] = rx[k + 1]
  BY <1>1, ByteRead
<1> QED
  BY <1>1, <1>2, WireSuffix

(* With what the session found, only the tty matters. *)
LEMMA LeftKept ==
  ASSUME TypeInv, LeftOrder, stale, rx # <<>>, rx' = Tail(rx), stale' = stale, sent' = sent
  PROVE  LeftOrder' /\ Stored' /\ Ordered'
<1>1. Wire(rx', sent')
  BY TailWire DEF LeftOrder
<1>2. \A k \in 1 .. Len(rx') : rx'[k].line.kind # "prompt"
  <2>1. \A k \in 1 .. Len(rx) - 1 : k + 1 \in 1 .. Len(rx)
    BY UnreadParts
  <2> QED
    BY <2>1, ByteRead DEF LeftOrder
<1> QED
  BY <1>1, <1>2 DEF LeftOrder, Stored, Ordered

(* The buffer is cleared in the middle of a line, which goes on. *)
LEMMA OverflowOrder ==
  ASSUME TypeInv, TypeInv', LeftOrder, Stored, Ordered, Overflow, rx # <<>>
  PROVE  LeftOrder' /\ Stored' /\ Ordered'
<1>1. /\ rd_buff' = <<>> /\ rx' = Tail(rx) /\ UNCHANGED <<m_state, sent, due, stale>>
      /\ Len(rd_buff) >= RDBUFF_MAX
  BY DEF Overflow, Full, modem, history
<1>2. rd_buff # <<>> /\ stale \in BOOLEAN /\ (~stale => m_state = "WANT_CMD")
  BY <1>1 DEF TypeInv
<1>3. CASE stale
  BY <1>1, <1>3, LeftKept
<1>4. CASE ~stale
  <2> DEFINE m    == Len(rd_buff)
             line == rd_buff[1].line
             c    == rx[1]
  <2>0. PICK e : e = Unread[m + 2]
    OBVIOUS
  <2>1. /\ line \in LineSet /\ line.n = due /\ m \in Nat
        /\ line.kind # "report" => line.len = 2
        /\ rd_buff[1].i \in Nat /\ rd_buff[1].i > 0 /\ rd_buff[1].i + m - 1 <= line.len
        /\ ~IsEnd(c) => c.line = line /\ c.i = rd_buff[1].i + m
        /\ IsEnd(c) => /\ rd_buff[1].i + m - 1 = line.len
                       /\ \/ c.line = line /\ c.i = line.len + 1
                          \/ c.i = 0 /\ line.kind = "prompt"
    <3>1. \A x \in Nat : (x + m - 1) + 1 = x + m
      BY UnreadParts
    <3> QED
      BY <1>2, <1>4, <3>1, LineNow
  <2>2. line.len \in Nat /\ line.len >= RDBUFF_MAX /\ line.kind = "report"
    BY <1>1, <2>1 DEF LineSet
  <2>3. /\ Wire(Unread, sent) /\ Unread \in Seq(ByteSet) /\ Len(Unread) \in Nat
        /\ Unread[m] = rd_buff[m] /\ Unread[m + 1] = c
        /\ m \in 1 .. Len(Unread) /\ m + 1 \in 1 .. Len(Unread)
        /\ rd_buff[m].line = line /\ rd_buff[m].i = rd_buff[1].i + m - 1
    <3>1. m > 0 /\ m \in 1 .. m
      BY <1>1, <2>1
    <3> QED
      BY <1>1, <1>4, <3>1, UnreadParts, ByteRead DEF Ordered, Stored, First
  <2>4. /\ m + 2 \in 1 .. Len(Unread) /\ e.line = line /\ e.i > 1 /\ e.i \in Nat
    <3>1. CASE rd_buff[1].i + m - 1 = line.len
      <4>1. EndsTwice(Unread, m)
        BY <2>3 DEF Wire
      <4>2. m + 2 <= Len(Unread) /\ e = c
        BY <2>0, <2>2, <2>3, <3>1, <4>1 DEF EndsTwice
      <4>3. c.line = line /\ c.i = line.len + 1
        BY <2>1, <2>2, <3>1
      <4>4. m + 2 \in 1 .. Len(Unread)
        BY <2>1, <2>3, <4>2
      <4>5. line.len + 1 > 1 /\ line.len + 1 \in Nat
        BY <2>2
      <4> QED
        BY <4>2, <4>3, <4>4, <4>5
    <3>2. CASE rd_buff[1].i + m - 1 # line.len
      <4>1. c.line = line /\ c.i = rd_buff[1].i + m /\ ~IsEnd(c)
        BY <2>1, <3>2
      <4>2. ~AtEnd(c) /\ c.i <= line.len
        BY <2>1, <2>2, <3>2, <4>1 DEF AtEnd, LastPlace
      <4>3. m + 1 # Len(Unread)
        BY <2>3, <4>2 DEF Wire
      <4>4. m + 1 \in 1 .. Len(Unread) - 1 /\ m + 2 \in 1 .. Len(Unread) /\ (m + 1) + 1 = m + 2
        BY <2>1, <2>3, <4>3
      <4>5. Follows(c, e)
        BY <2>0, <2>3, <4>4 DEF Wire
      <4>6. e.line = line /\ e.i = c.i + 1
        BY <4>1, <4>2, <4>5 DEF Follows
      <4> QED
        BY <2>1, <4>1, <4>4, <4>6
    <3> QED
      BY <3>1, <3>2
  <2>5. /\ Unread' \in Seq(ByteSet) /\ Len(Unread) = Len(Unread') + (m + 1)
        /\ \A k \in 1 .. Len(Unread') : Unread'[k] = Unread[k + (m + 1)]
    BY <1>1, UnreadCut, ByteRead
  <2>6. Wire(Unread', sent')
    <3>1. m + 1 \in Nat
      BY <2>1
    <3> QED
      BY <1>1, <2>3, <2>5, <3>1, WireSuffix
  <2>7. Unread' # <<>> /\ Unread'[1] = e
    <3>1. Len(Unread') \in Nat /\ 1 \in 1 .. Len(Unread') /\ 1 + (m + 1) = m + 2
      BY <2>1, <2>3, <2>4, <2>5
    <3> QED
      BY <2>0, <2>5, <3>1
  <2>8. First(e)'
    <3>1. e.line.n = due' /\ e.i > 0 /\ ~(e.line.len < RDBUFF_MAX)
      BY <1>1, <2>1, <2>2, <2>4
    <3> QED
      BY <1>1, <1>2, <1>4, <3>1 DEF First
  <2> QED
    BY <1>1, <1>4, <2>6, <2>7, <2>8 DEF LeftOrder, Stored, Ordered
<1> QED
  BY <1>2, <1>3, <1>4

(* What is left after a line end that is skipped or ends a line. *)
LEMMA RestOrder ==
  ASSUME TypeInv, TypeInv', rx # <<>>, Wire(rx, sent), IsEnd(rx[1]), NEW d, d = Behind(rx[1]),
         rx' = Tail(rx), rd_buff' = <<>>, m_state' = "WANT_CONTROL",
         stale' = FALSE, sent' = sent, due' = d
  PROVE  LeftOrder' /\ Stored' /\ Ordered'
<1>1. rx \in Seq(ByteSet) /\ Len(rx) \in Nat /\ Len(rx) > 0 /\ 1 \in 1 .. Len(rx)
  BY UnreadParts, ByteRead
<1>2. Unread' = Tail(rx) /\ Wire(Unread', sent')
  BY TailWire, UnreadCut
<1>3. /\ Tail(rx) \in Seq(ByteSet) /\ Len(Tail(rx)) = Len(rx) - 1
      /\ \A k \in 1 .. Len(rx) - 1 : Tail(rx)[k] = rx[k + 1]
  BY ByteRead
<1>4. CASE Len(rx) = 1
  <2>1. d = sent
    BY <1>1, <1>4, AfterEnd
  <2>2. Unread' = <<>>
    BY <1>2, <1>3, <1>4
  <2> QED
    BY <1>2, <2>1, <2>2 DEF LeftOrder, Stored, Ordered
<1>5. CASE Len(rx) # 1
  <2>0. PICK e : e = rx[1 + 1]
    OBVIOUS
  <2>1. \/ e.line.n = d /\ e.i \in {0, 1}
        \/ Following(e.line.n) = d /\ e.i = e.line.len + 1
    BY <1>1, <1>5, <2>0, AfterEnd
  <2>2. Unread' # <<>> /\ Unread'[1] = e
    <3>1. \A n \in Nat : n > 0 /\ n # 1 => 1 \in 1 .. n - 1 /\ n - 1 > 0
      OBVIOUS
    <3>2. 1 \in 1 .. Len(rx) - 1 /\ Len(rx) - 1 > 0
      BY <1>1, <1>5, <3>1
    <3>3. Tail(rx)[1] = e /\ Len(Tail(rx)) > 0
      BY <1>3, <2>0, <3>2
    <3> QED
      <4>1. Unread'[1] = Tail(rx)[1] /\ (Unread' = <<>> => Tail(rx) = <<>>)
        BY <1>2
      <4>2. Tail(rx) # <<>>
        BY <1>3, <3>3, NotEmpty
      <4> QED
        BY <3>3, <4>1, <4>2
  <2>3. First(e)'
    BY <2>1 DEF First
  <2> QED
    BY <1>2, <2>2, <2>3 DEF LeftOrder, Stored, Ordered
<1> QED
  BY <1>4, <1>5

(* The tty alone is in order, too. *)
LEMMA UnreadWire ==
  ASSUME TypeInv, LeftOrder, Ordered
  PROVE  Wire(rx, sent)
<1>1. CASE stale
  BY <1>1 DEF LeftOrder
<1>2. CASE ~stale
  <2>1. /\ Unread \in Seq(ByteSet) /\ rx \in Seq(ByteSet) /\ Len(rd_buff) \in Nat
        /\ Len(Unread) = Len(rx) + Len(rd_buff) /\ Len(rx) \in Nat
        /\ \A k \in 1 .. Len(rx) : Unread[Len(rd_buff) + k] = rx[k]
    BY UnreadParts
  <2>2. \A k \in 1 .. Len(rx) : rx[k] = Unread[k + Len(rd_buff)]
    <3>1. \A k \in 1 .. Len(rx) : k + Len(rd_buff) = Len(rd_buff) + k
      BY <2>1
    <3> QED
      BY <2>1, <3>1
  <2>3. Wire(Unread, sent)
    BY <1>2 DEF Ordered
  <2> QED
    BY <2>1, <2>2, <2>3, WireSuffix
<1> QED
  BY <1>1, <1>2

(* With an empty buffer the byte to be read is the first. *)
LEMMA FirstRead ==
  ASSUME TypeInv, Ordered, ~stale, rd_buff = <<>>, rx # <<>>
  PROVE  Unread = rx /\ First(rx[1]) /\ rx[1] \in ByteSet
<1>1. Unread = rx
  BY UnreadParts DEF Unread
<1> QED
  BY <1>1, ByteRead DEF Ordered

(* A line end between lines. *)
LEMMA SkipOrder ==
  ASSUME TypeInv, TypeInv', LeftOrder, Stored, Ordered, SkipControl, rx # <<>>
  PROVE  LeftOrder' /\ Stored' /\ Ordered'
<1>1. /\ m_state = "WANT_CONTROL" /\ IsEnd(rx[1]) /\ rx' = Tail(rx)
      /\ UNCHANGED <<m_state, rd_buff, sent, due, stale>>
  BY ByteRead DEF SkipControl, modem, history
<1>2. CASE stale
  BY <1>1, <1>2, LeftKept
<1>3. CASE ~stale
  <2>1. rd_buff = <<>> /\ stale = FALSE
    BY <1>1, <1>3 DEF TypeInv
  <2>2. First(rx[1]) /\ rx[1] \in ByteSet /\ Wire(rx, sent)
    BY <1>3, <2>1, FirstRead, UnreadWire
  <2>3. due = Behind(rx[1])
    <3>1. rx[1].line.len \in Nat /\ rx[1].line.len > 0
      BY <2>2, ByteParts
    <3> QED
      BY <1>1, <2>2, <3>1 DEF First, IsEnd, Behind
  <2> QED
    BY <1>1, <2>1, <2>2, <2>3, RestOrder
<1> QED
  BY <1>2, <1>3 DEF TypeInv

(* The end of a line. *)
LEMMA GiveOrder ==
  ASSUME TypeInv, TypeInv', LeftOrder, Stored, Ordered, Give, rx # <<>>
  PROVE  LeftOrder' /\ Stored' /\ Ordered'
<1>1. /\ m_state = "WANT_CMD" /\ IsEnd(rx[1]) /\ rd_buff' = <<>> /\ m_state' = "WANT_CONTROL"
      /\ stale' = FALSE /\ sent' = sent
      /\ \/ rx' = Tail(rx) /\ due' = DueAfter(rx[1])
         \/ rx' = <<>> /\ due' = sent
  BY ByteRead DEF Give
<1>2. CASE rx' = <<>> /\ due' = sent
  <2>1. Unread' = <<>>
    BY <1>1, <1>2 DEF Unread
  <2>2. Wire(<<>>, sent')
    BY DEF Wire
  <2> QED
    BY <1>1, <1>2, <2>1, <2>2 DEF LeftOrder, Stored, Ordered
<1>3. CASE rx' = Tail(rx) /\ due' = DueAfter(rx[1])
  <2>1. rx[1] \in ByteSet /\ Wire(rx, sent) /\ stale \in BOOLEAN
    BY ByteRead, UnreadWire DEF TypeInv
  <2>2. rx[1].i \in Nat /\ rx[1].line.len \in Nat /\ rx[1].line.len > 0
    BY <2>1, ByteParts
  <2>3. due' = Behind(rx[1])
    <3>1. CASE stale
      BY <1>3, <2>2, <3>1 DEF DueAfter, Behind
    <3>2. CASE ~stale
      <4>1. due' = Following(due)
        BY <1>3, <3>2 DEF DueAfter
      <4>2. CASE rd_buff # <<>>
        <5>1. \/ rx[1].line.n = due /\ rx[1].i > 0
              \/ rx[1].i = 0 /\ rx[1].line.n = Following(due)
          <6>1. /\ rd_buff[1].line.n = due
                /\ \/ rx[1].line = rd_buff[1].line /\ rx[1].i = rd_buff[1].line.len + 1
                   \/ rx[1].i = 0 /\ rx[1].line.n = Following(due)
            BY <1>1, <3>2, <4>2, LineNow
          <6> QED
            BY <2>2, <6>1
        <5> QED
          BY <2>2, <4>1, <5>1 DEF Behind
      <4>3. CASE rd_buff = <<>>
        <5>1. rx[1].line.n = due /\ rx[1].i > 0
          BY <1>1, <3>2, <4>3, FirstRead DEF First
        <5> QED
          BY <2>2, <4>1, <5>1 DEF Behind
      <4> QED
        BY <4>2, <4>3
    <3> QED
      BY <3>1, <3>2
  <2> QED
    BY <1>1, <1>3, <2>1, <2>3, RestOrder
<1> QED
  BY <1>1, <1>2, <1>3

(* A character. *)
LEMMA StoreOrder ==
  ASSUME TypeInv, TypeInv', LeftOrder, Stored, Ordered, Store, rx # <<>>
  PROVE  LeftOrder' /\ Stored' /\ Ordered'
<1>1. /\ ~IsEnd(rx[1]) /\ m_state' = "WANT_CMD" /\ rd_buff' = Append(rd_buff, rx[1])
      /\ rd_buff' = Append(rd_buff, Head(rx)) /\ rx' = Tail(rx)
      /\ UNCHANGED <<sent, due, stale>>
  BY ByteRead DEF Store, modem, history
<1>2. CASE stale
  BY <1>1, <1>2, LeftKept
<1>3. CASE ~stale
  <2> DEFINE m == Len(rd_buff)
  <2>1. /\ m \in Nat /\ Len(rd_buff') = m + 1 /\ rd_buff'[m + 1] = rx[1]
        /\ \A k \in 1 .. m : rd_buff'[k] = rd_buff[k]
        /\ rx[1] \in ByteSet /\ rd_buff \in Seq(ByteSet)
    BY <1>1, UnreadParts, ByteRead, AppendProperties
  <2>2. /\ Len(Unread') = Len(Unread) /\ Len(Unread) > 0
        /\ \A k \in 1 .. Len(Unread) : Unread'[k] = Unread[k]
        /\ Unread \in Seq(ByteSet) /\ Unread' \in Seq(ByteSet)
    <3>1. Unread' \in Seq(ByteSet)
      BY JoinAt DEF TypeInv, Unread
    <3> QED
      BY <1>1, <3>1, UnreadStored, UnreadParts
  <2>3. Wire(Unread', sent')
    <3>1. /\ Len(Unread) = Len(Unread') + 0 /\ 0 \in Nat
          /\ \A k \in 1 .. Len(Unread') : Unread'[k] = Unread[k + 0]
      BY <2>2
    <3>2. Wire(Unread, sent)
      BY <1>3 DEF Ordered
    <3> QED
      BY <1>1, <2>2, <3>1, <3>2, WireSuffix
  <2>4. PICK e : e = Unread[1] /\ Unread' # <<>> /\ Unread'[1] = e
    <3>1. 1 \in 1 .. Len(Unread) /\ Unread' # <<>>
      BY <2>2
    <3> QED
      BY <2>2, <3>1
  <2>5. CASE rd_buff = <<>>
    <3>1. e = rx[1] /\ First(rx[1]) /\ m = 0
      BY <1>3, <2>4, <2>5, FirstRead
    <3>2. rd_buff'[1] = rx[1] /\ Len(rd_buff') = 1 /\ rd_buff' # <<>>
      BY <2>1, <3>1
    <3>3. e.line.n = due /\ e.i > 0 /\ (e.line.len < RDBUFF_MAX => e.i = 1)
      <4>1. e.i \in Nat /\ e.line.len \in Nat /\ e.i # 0 /\ e.i # e.line.len + 1
        BY <1>1, <2>1, <3>1, ByteParts DEF IsEnd
      <4> QED
        BY <2>5, <3>1, <4>1 DEF First
    <3>4. First(e)'
      BY <1>1, <3>2, <3>3 DEF First
    <3>5. Stored'
      <4>1. e.i \in Nat
        BY <2>1, <3>1, ByteParts
      <4>2. ~IsEnd(rd_buff'[1]) /\ rd_buff'[1].i = rd_buff'[1].i + 1 - 1
        BY <1>1, <3>1, <3>2, <4>1
      <4> QED
        BY <3>2, <4>2 DEF Stored
    <3> QED
      BY <1>1, <1>3, <2>3, <2>4, <3>4, <3>5 DEF LeftOrder, Ordered
  <2>6. CASE rd_buff # <<>>
    <3>1. m_state = "WANT_CMD"
      BY <1>3, <2>6 DEF TypeInv
    <3>2. /\ rx[1].line = rd_buff[1].line /\ rx[1].i = rd_buff[1].i + m - 1 + 1
          /\ m > 0 /\ rd_buff[1].i \in Nat
      BY <1>1, <1>3, <2>6, <3>1, LineNow
    <3>3. rd_buff' # <<>> /\ 1 \in 1 .. m /\ rd_buff'[1] = rd_buff[1]
      BY <2>1, <3>2
    <3>4. Stored'
      <4>1. ASSUME NEW k \in 1 .. m + 1
            PROVE  /\ ~IsEnd(rd_buff'[k]) /\ rd_buff'[k].line = rd_buff[1].line
                   /\ rd_buff'[k].i = rd_buff[1].i + k - 1
        <5>1. CASE k \in 1 .. m
          BY <1>3, <2>1, <5>1 DEF Stored
        <5>2. CASE k = m + 1
          <6>1. rd_buff[1].i + m - 1 + 1 = rd_buff[1].i + k - 1
            BY <2>1, <3>2, <5>2
          <6> QED
            BY <1>1, <2>1, <3>2, <5>2, <6>1
        <5> QED
          BY <2>1, <5>1, <5>2
      <4> QED
        BY <2>1, <3>3, <4>1 DEF Stored
    <3>5. First(e)'
      <4>1. First(e)
        BY <1>3, <2>2, <2>4 DEF Ordered
      <4> QED
        BY <1>1, <2>6, <3>1, <3>3, <4>1 DEF First
    <3> QED
      BY <1>1, <1>3, <2>3, <2>4, <3>4, <3>5 DEF LeftOrder, Ordered
  <2> QED
    BY <2>5, <2>6
<1> QED
  BY <1>2, <1>3 DEF TypeInv

-----------------------------------------------------------------------------
(* The modem.                                                              *)

(* An echo is said by a modem that waits for no text, so that no prompt is *)
(* the last it said.                                                       *)
LEMMA NoPromptLast ==
  ASSUME TypeInv, Dialogue, LeftOrder, Ordered, mode = "command"
  PROVE  LET s == IF stale THEN rx ELSE Unread IN
         s # <<>> => s[Len(s)].line.kind # "prompt"
<1>1. CASE stale
  <2>1. rx # <<>> => Len(rx) \in 1 .. Len(rx)
    BY UnreadParts
  <2> QED
    BY <1>1, <2>1 DEF LeftOrder
<1>2. CASE ~stale
  <2> SUFFICES ASSUME Unread # <<>>, Unread[Len(Unread)].line.kind = "prompt" PROVE FALSE
    BY <1>2
  <2>1. /\ Unread \in Seq(ByteSet) /\ Len(Unread) \in Nat /\ Len(Unread) > 0
        /\ Wire(Unread, sent) /\ First(Unread[1])
    BY <1>2, UnreadParts DEF Ordered
  <2>2. PICK c \in ByteSet : c = Unread[Len(Unread)]
    BY <2>1
  <2>3. Placed(c) /\ AtEnd(c) /\ c.line.kind = "prompt"
    <3>1. Len(Unread) \in 1 .. Len(Unread)
      BY <2>1
    <3> QED
      BY <2>1, <2>2, <3>1 DEF Wire
  <2>4. c.line.len = 2 /\ c.i = 2
    BY <2>3 DEF Placed, AtEnd, LastPlace
  <2>5. CASE Len(Unread) = 1
    BY <2>1, <2>2, <2>4, <2>5 DEF First
  <2>6. CASE Len(Unread) # 1
    <3>0. \A n \in Nat : n > 0 /\ n # 1 => n - 1 \in 1 .. n - 1
      OBVIOUS
    <3>1. PICK k \in 1 .. Len(Unread) - 1 : k = Len(Unread) - 1
      BY <2>1, <2>6, <3>0
    <3>2. PICK b \in ByteSet : b = Unread[k] /\ Follows(b, c)
      <4>1. k \in 1 .. Len(Unread) /\ k + 1 = Len(Unread)
        BY <2>1, <3>1
      <4>2. Follows(Unread[k], Unread[k + 1])
        BY <2>1 DEF Wire
      <4> QED
        BY <2>1, <2>2, <4>1, <4>2
    <3>3. b.line = c.line /\ b.i = 1
      <4>1. b.i \in Nat
        BY ByteParts
      <4> QED
        BY <2>3, <2>4, <3>2, <4>1 DEF Follows, IsEnd, AtStart
    <3>4. b \in Starts("prompt")
      BY <2>3, <3>3 DEF Starts
    <3>5. None(rx, Starts("prompt")) /\ None(rd_buff, Starts("prompt"))
      BY <1>2 DEF Dialogue, NotAsked
    <3>6. \/ k \in 1 .. Len(rd_buff) /\ b = rd_buff[k]
          \/ \E j \in 1 .. Len(rx) : b = rx[j]
      <4>1. CASE k <= Len(rd_buff)
        BY <3>2, <4>1, UnreadParts
      <4>2. CASE k > Len(rd_buff)
        <5>1. /\ k - Len(rd_buff) \in 1 .. Len(rx)
              /\ k = Len(rd_buff) + (k - Len(rd_buff))
          BY <3>1, <4>2, UnreadParts
        <5>2. b = rx[k - Len(rd_buff)]
          BY <3>2, <5>1, UnreadParts
        <5> QED
          BY <5>1, <5>2
      <4> QED
        BY <4>1, <4>2, UnreadParts
    <3>7. DOMAIN rx = 1 .. Len(rx) /\ DOMAIN rd_buff = 1 .. Len(rd_buff)
      BY LenProperties, UnreadParts
    <3> QED
      BY <3>4, <3>5, <3>6, <3>7 DEF None
  <2> QED
    BY <2>5, <2>6
<1> QED
  BY <1>1, <1>2

(* What is said comes behind what was said. *)
LEMMA BehindLast ==
  ASSUME NEW s \in Seq(ByteSet), s # <<>>, NEW next, Wire(s, next), NEW c,
         AtStart(c), c.line.n = next,
         c.line.kind = "echo" => s[Len(s)].line.kind # "prompt"
  PROVE  Follows(s[Len(s)], c)
<1>1. Len(s) > 0
  OBVIOUS
<1> QED
  BY <1>1 DEF Wire, Follows

(* One line, or several, are said. *)
LEMMA SaidOrder ==
  ASSUME TypeInv, Dialogue, LeftOrder, Stored, Ordered,
         UNCHANGED <<m_state, rd_buff, due, stale>>,
         NEW bytes \in Seq(ByteSet), NEW next, bytes # <<>>, Wire(bytes, next),
         AtStart(bytes[1]), bytes[1].line.n = sent,
         bytes[1].line.kind = "echo" => mode = "command",
         stale => \A k \in 1 .. Len(bytes) : bytes[k].line.kind # "prompt",
         rx' = rx \o bytes, sent' = next
  PROVE  LeftOrder' /\ Stored' /\ Ordered'
<1>1. rx \in Seq(ByteSet) /\ Unread \in Seq(ByteSet) /\ rd_buff \in Seq(ByteSet)
  BY UnreadParts
<1>2. Stored'
  BY DEF Stored
<1>3. CASE stale
  <2>1. Wire(rx, sent)
    BY <1>3 DEF LeftOrder
  <2>2. rx # <<>> => Follows(rx[Len(rx)], bytes[1])
    BY <1>1, <1>3, <2>1, NoPromptLast, BehindLast
  <2>3. Wire(rx', sent')
    BY <1>1, <2>1, <2>2, WireJoin
  <2>4. ASSUME NEW k \in 1 .. Len(rx') PROVE rx'[k].line.kind # "prompt"
    <3>1. /\ Len(rx') = Len(rx) + Len(bytes) /\ Len(rx) \in Nat /\ Len(bytes) \in Nat
          /\ \A j \in 1 .. Len(rx) : rx'[j] = rx[j]
          /\ \A j \in 1 .. Len(bytes) : rx'[Len(rx) + j] = bytes[j]
      BY <1>1, JoinAt
    <3>2. CASE k <= Len(rx)
      <4>1. k \in 1 .. Len(rx)
        BY <3>1, <3>2
      <4> QED
        BY <1>3, <3>1, <4>1 DEF LeftOrder
    <3>3. CASE k > Len(rx)
      <4>1. k - Len(rx) \in 1 .. Len(bytes) /\ k = Len(rx) + (k - Len(rx))
        BY <3>1, <3>3
      <4> QED
        BY <1>3, <3>1, <4>1
    <3> QED
      BY <3>1, <3>2, <3>3
  <2> QED
    BY <1>2, <1>3, <2>1, <2>3, <2>4 DEF LeftOrder, Ordered
<1>4. CASE ~stale
  <2>1. Wire(Unread, sent)
    BY <1>4 DEF Ordered
  <2>2. Unread # <<>> => Follows(Unread[Len(Unread)], bytes[1])
    BY <1>1, <1>4, <2>1, NoPromptLast, BehindLast
  <2>3. Unread' = Unread \o bytes
    BY <1>1, ConcatAssociative DEF Unread
  <2>4. /\ Wire(Unread', sent') /\ Unread' # <<>>
        /\ Unread'[1] = IF Unread = <<>> THEN bytes[1] ELSE Unread[1]
    BY <1>1, <2>1, <2>2, <2>3, WireJoin
  <2>5. PICK e : e = Unread'[1]
    OBVIOUS
  <2>6. First(e)'
    <3>1. CASE Unread = <<>>
      <4>1. m_state = "WANT_CONTROL" /\ due = sent /\ e = bytes[1]
        BY <1>4, <2>4, <2>5, <3>1 DEF Ordered
      <4>2. e.i \in {0, 1} /\ e.line.n = due
        BY <4>1 DEF AtStart
      <4> QED
        BY <4>1, <4>2 DEF First
    <3>2. CASE Unread # <<>>
      <4>1. First(e)
        BY <1>4, <2>4, <2>5, <3>2 DEF Ordered
      <4> QED
        BY <4>1 DEF First
    <3> QED
      BY <3>1, <3>2
  <2> QED
    BY <1>2, <1>4, <2>4, <2>5, <2>6 DEF LeftOrder, Ordered
<1> QED
  BY <1>3, <1>4 DEF TypeInv

(* Nothing is said, or nobody listens. *)
LEMMA SameOrder ==
  ASSUME UNCHANGED <<m_state, rd_buff, rx, sent, due, stale>>, LeftOrder, Stored, Ordered
  PROVE  LeftOrder' /\ Stored' /\ Ordered'
<1>1. Unread' = Unread
  BY DEF Unread
<1> QED
  BY <1>1 DEF LeftOrder, Stored, Ordered, First

(* Numbers of lines go round. *)
LEMMA Numbers ==
  ASSUME sent \in Nat, sent < Lap
  PROVE  /\ (sent + 1) % Lap = Following(sent) /\ Following(sent) \in Nat /\ Following(sent) < Lap
         /\ (sent + 2) % Lap = Following(Following(sent)) /\ (sent + 2) % Lap < Lap
<1>1. Lap \in Nat /\ Lap > 2
  BY DEF Lap
<1>2. \A a, m \in Nat : a < m => a % m = a /\ (m + a) % m = a
  OBVIOUS
<1>3. CASE sent + 2 < Lap
  BY <1>1, <1>2, <1>3 DEF Following
<1>4. CASE sent + 2 = Lap
  <2>1. (sent + 1) % Lap = sent + 1
    BY <1>1, <1>2, <1>4
  <2>2. (Lap + 0) % Lap = 0 /\ sent + 2 = Lap + 0 /\ (sent + 1) + 1 = Lap + 0
    BY <1>1, <1>2, <1>4
  <2> QED
    BY <1>1, <1>4, <2>1, <2>2 DEF Following
<1>5. CASE sent + 1 = Lap
  <2>1. (Lap + 0) % Lap = 0 /\ sent + 1 = Lap + 0
    BY <1>1, <1>2, <1>5
  <2>2. (Lap + 1) % Lap = 1 /\ sent + 2 = Lap + 1 /\ (0 + 1) % Lap = 1
    BY <1>1, <1>2, <1>5
  <2> QED
    BY <1>1, <2>1, <2>2 DEF Following
<1> QED
  BY <1>1, <1>3, <1>4, <1>5

(* One line. *)
LEMMA SayOrder ==
  ASSUME TypeInv, Dialogue, Order, UNCHANGED <<m_state, rd_buff, due, stale>>,
         NEW line, Sound(line), line.n = sent, line.kind # "echo",
         stale => line.kind # "prompt", Say(line)
  PROVE  Order'
<1>1. sent \in Nat /\ sent < Lap /\ LeftOrder /\ Stored /\ Ordered
  BY DEF TypeInv, Order
<1>2. CASE rx' = rx \o Framed(line) /\ sent' = (sent + 1) % Lap
  <2>1. PICK f \in Seq(ByteSet) : f = Framed(line)
    BY FrameWire
  <2>2. /\ Wire(f, sent') /\ f # <<>> /\ f[1].line = line /\ AtStart(f[1])
        /\ sent' < Lap
    BY <1>1, <1>2, <2>1, FrameWire, Numbers
  <2>3. \A k \in 1 .. Len(f) : f[k].line = line
    BY <2>1, FrameLine
  <2> QED
    BY <1>1, <1>2, <2>1, <2>2, <2>3, SaidOrder DEF Order
<1>3. CASE UNCHANGED <<rx, sent>>
  BY <1>1, <1>3, SameOrder DEF Order
<1> QED
  BY <1>2, <1>3 DEF Say, Hears

(* The lines there are. *)
LEMMA SoundLines ==
  ASSUME sent \in Nat
  PROVE  /\ \A kind \in {"prompt", "echo"} :
              /\ Sound(Line(kind, 2)) /\ Line(kind, 2).n = sent /\ Line(kind, 2).kind = kind
         /\ \A len \in Lengths :
              /\ Sound(Line("report", len)) /\ Line("report", len).n = sent
              /\ Line("report", len).kind = "report"
         /\ Sound(OK) /\ OK.n = sent /\ OK.kind = "result"
         /\ LET last == [OK EXCEPT !.n = Following(sent)] IN
              Sound(last) /\ last.n = Following(sent) /\ last.kind = "result"
BY LineType DEF Sound, Line, OK

(* The echo of a command, and its result. *)
LEMMA EchoOrder ==
  ASSUME TypeInv, Dialogue, Order, UNCHANGED <<m_state, rd_buff, due, stale>>, mode = "command",
         Hears(Framed(Line("echo", 2)) \o Framed([OK EXCEPT !.n = Following(sent)]), 2)
  PROVE  Order'
<1> DEFINE first == Line("echo", 2)
           last  == [OK EXCEPT !.n = Following(sent)]
<1>1. sent \in Nat /\ sent < Lap /\ LeftOrder /\ Stored /\ Ordered
  BY DEF TypeInv, Order
<1>2. /\ Sound(first) /\ first.n = sent /\ first.kind = "echo"
      /\ Sound(last) /\ last.n = Following(sent) /\ last.kind = "result"
  BY <1>1, SoundLines
<1>3. PICK f \in Seq(ByteSet), g \in Seq(ByteSet) : f = Framed(first) /\ g = Framed(last)
  BY <1>2, FrameWire
<1>4. /\ Wire(f, Following(sent)) /\ f # <<>> /\ f[1].line = first /\ AtStart(f[1])
      /\ Wire(g, Following(Following(sent))) /\ g # <<>> /\ g[1].line = last /\ AtStart(g[1])
      /\ \A k \in 1 .. Len(f) : f[k].line = first
      /\ \A k \in 1 .. Len(g) : g[k].line = last
  BY <1>2, <1>3, FrameWire, FrameLine
<1> HIDE DEF first, last
<1>5. Follows(f[Len(f)], g[1])
  BY <1>2, <1>4, BehindLast
<1>6. PICK bytes \in Seq(ByteSet) : bytes = f \o g
  BY JoinAt
<1>7. Wire(bytes, Following(Following(sent))) /\ bytes # <<>> /\ bytes[1] = f[1]
  BY <1>4, <1>5, <1>6, WireJoin
<1>8. ASSUME NEW k \in 1 .. Len(bytes) PROVE bytes[k].line.kind # "prompt"
  <2>1. /\ Len(bytes) = Len(f) + Len(g) /\ Len(f) \in Nat /\ Len(g) \in Nat
        /\ \A j \in 1 .. Len(f) : bytes[j] = f[j]
        /\ \A j \in 1 .. Len(g) : bytes[Len(f) + j] = g[j]
    BY <1>6, JoinAt
  <2>2. CASE k <= Len(f)
    <3>1. k \in 1 .. Len(f)
      BY <2>1, <2>2
    <3> QED
      BY <1>2, <1>4, <2>1, <3>1
  <2>3. CASE k > Len(f)
    <3>1. k - Len(f) \in 1 .. Len(g) /\ k = Len(f) + (k - Len(f))
      BY <2>1, <2>3
    <3> QED
      BY <1>2, <1>4, <2>1, <3>1
  <2> QED
    BY <2>1, <2>2, <2>3
<1>9. CASE rx' = rx \o bytes /\ sent' = (sent + 2) % Lap
  <2>1. sent' = Following(Following(sent)) /\ sent' < Lap
    BY <1>1, <1>9, Numbers
  <2>2. AtStart(bytes[1]) /\ bytes[1].line.n = sent
    BY <1>2, <1>4, <1>7
  <2> QED
    BY <1>1, <1>7, <1>8, <1>9, <2>1, <2>2, SaidOrder DEF Order
<1>10. CASE UNCHANGED <<rx, sent>>
  BY <1>1, <1>10, SameOrder DEF Order
<1> QED
  BY <1>3, <1>6, <1>9, <1>10 DEF Hears, first, last

(* The modem executes a command, or takes a text. *)
LEMMA ServeOrder ==
  ASSUME TypeInv, Dialogue, Order, Serve
  PROVE  Order'
<1>1. /\ UNCHANGED <<m_state, rd_buff, due, stale>> /\ tx # <<>>
      /\ ServeCommand \/ ServeText
  BY DEF Serve, reader, history
<1>2. sent \in Nat
  BY DEF TypeInv
<1>3. CASE Say(OK)
  BY <1>1, <1>2, <1>3, SoundLines, SayOrder
<1>4. CASE Head(tx) = "sms" /\ Say(Line("prompt", 2))
  <2>1. ~stale
    <3>1. 1 \in DOMAIN tx /\ tx[1] = Head(tx)
      BY <1>1, LenProperties DEF TypeInv
    <3> QED
      BY <1>4, <3>1 DEF Dialogue, LeftOver, None
  <2> QED
    BY <1>1, <1>2, <1>4, <2>1, SoundLines, SayOrder
<1>5. CASE /\ mode = "command"
           /\ Hears(Framed(Line("echo", 2)) \o Framed([OK EXCEPT !.n = Following(sent)]), 2)
  BY <1>1, <1>5, EchoOrder
<1>6. CASE UNCHANGED <<rx, sent>>
  BY <1>1, <1>6, SameOrder DEF Order
<1> QED
  BY <1>1, <1>3, <1>4, <1>5, <1>6 DEF ServeCommand, ServeText

-----------------------------------------------------------------------------

(* The first session. *)
LEMMA OrderInit == Init => OrderInv
<1> SUFFICES ASSUME Init PROVE Order
  BY DialogueInit DEF OrderInv
<1>1. /\ m_state = "WANT_CONTROL" /\ rx = <<>> /\ sent = 0 /\ due = 0
      /\ (~stale => rd_buff = <<>>)
  BY DEF Init
<1>2. sent < Lap
  BY <1>1, LapType
<1>3. ~stale => Unread = <<>>
  BY <1>1 DEF Unread
<1>4. Wire(<<>>, sent) /\ Len(<<>>) = 0 /\ \A k \in 1 .. 0 : FALSE
  BY DEF Wire
<1>5. LeftOrder
  BY <1>1, <1>4 DEF LeftOrder
<1>6. Stored
  BY <1>1, <1>4 DEF Stored
<1>7. Ordered
  BY <1>1, <1>3, <1>4 DEF Ordered
<1> QED
  BY <1>2, <1>5, <1>6, <1>7 DEF Order

(* Every step. *)
LEMMA OrderKept == OrderInv /\ [Next]_vars => OrderInv'
<1> SUFFICES ASSUME OrderInv, [Next]_vars PROVE Order'
  BY DialogueKept DEF OrderInv
<1>1. /\ TypeInv /\ Dialogue /\ TypeInv' /\ Order
      /\ sent < Lap /\ LeftOrder /\ Stored /\ Ordered
  BY TypeKept DEF OrderInv, DialogueInv, Order
<1>2. CASE Connect \/ SendCommand \/ Timeout
  <2>1. UNCHANGED <<m_state, rd_buff, rx, sent, due, stale>>
    BY <1>2 DEF Connect, SendCommand, Timeout, reader, modem, history
  <2> QED
    BY <1>1, <2>1, SameOrder DEF Order
<1>3. CASE LostTty
  <2>1. /\ rx' = <<>> /\ due' = sent /\ sent' = sent
        /\ m_state' = m_state /\ rd_buff' = rd_buff
        /\ stale' = (stale \/ m_state = "WANT_CMD")
    BY <1>3 DEF LostTty
  <2>2. Wire(<<>>, sent')
    BY DEF Wire
  <2>3. ~stale' => m_state' = "WANT_CONTROL" /\ rd_buff' = <<>>
    BY <1>1, <2>1 DEF TypeInv
  <2>4. rd_buff' = <<>> => Unread' = <<>>
    BY <2>1 DEF Unread
  <2>5. LeftOrder'
    <3>1. Len(<<>>) = 0 /\ \A k \in 1 .. 0 : FALSE
      OBVIOUS
    <3> QED
      BY <2>1, <2>2, <3>1 DEF LeftOrder
  <2>6. Stored'
    <3>1. Len(<<>>) = 0 /\ \A k \in 1 .. 0 : FALSE
      OBVIOUS
    <3> QED
      BY <2>3, <3>1 DEF Stored
  <2>7. Ordered'
    BY <2>1, <2>2, <2>3, <2>4 DEF Ordered
  <2> QED
    BY <1>1, <2>1, <2>5, <2>6, <2>7 DEF Order
<1>4. CASE ReadByte
  <2>1. rx # <<>> /\ (Overflow \/ SkipControl \/ Store \/ Give)
    BY <1>4 DEF ReadByte
  <2>2. LeftOrder' /\ Stored' /\ Ordered'
    BY <1>1, <2>1, OverflowOrder, SkipOrder, StoreOrder, GiveOrder
  <2>3. sent' = sent
    BY <2>1 DEF Overflow, SkipControl, Store, Give, modem
  <2> QED
    BY <1>1, <2>2, <2>3 DEF Order
<1>5. CASE Serve
  BY <1>1, <1>5, ServeOrder
<1>6. CASE Report
  <2>1. UNCHANGED <<m_state, rd_buff, due, stale>>
    BY <1>6 DEF Report, reader, history
  <2>2. PICK len \in Lengths : Say(Line("report", len))
    BY <1>6 DEF Report
  <2>3. sent \in Nat
    BY <1>1 DEF TypeInv
  <2> QED
    BY <1>1, <2>1, <2>2, <2>3, SoundLines, SayOrder
<1>7. CASE UNCHANGED vars
  <2>1. UNCHANGED <<m_state, rd_buff, rx, sent, due, stale>>
    BY <1>7 DEF vars, reader, modem, history
  <2> QED
    BY <1>1, <2>1, SameOrder DEF Order
<1> QED
  BY <1>2, <1>3, <1>4, <1>5, <1>6, <1>7 DEF Next

(* Only the end of a line gives one. *)
LEMMA OnlyGive ==
  ASSUME TypeInv, [Next]_vars, Given
  PROVE  Give /\ rx # <<>>
<1>1. m_state = "WANT_CMD" /\ m_state' = "WANT_CONTROL" /\ m_state' # m_state
  BY DEF Given
<1>2. ~(Connect \/ SendCommand \/ Timeout \/ LostTty \/ Serve \/ Report \/ UNCHANGED vars)
  BY <1>1 DEF Connect, SendCommand, Timeout, LostTty, Serve, Report, vars, reader
<1>3. ReadByte
  BY <1>2 DEF Next
<1> QED
  BY <1>1, <1>3 DEF ReadByte, Overflow, SkipControl, Store

(* What is given is the line due. *)
LEMMA DueGiven == OrderInv /\ [Next]_vars => LineDue
<1> SUFFICES ASSUME OrderInv, [Next]_vars, Given, ~stale PROVE LineDue
  BY DEF LineDue
<1>1. TypeInv /\ LeftOrder /\ Stored /\ Ordered
  BY DEF OrderInv, DialogueInv, Order
<1>2. /\ Give /\ rx # <<>> /\ m_state = "WANT_CMD"
  BY <1>1, OnlyGive DEF Given
<1>3. IsEnd(rx[1]) /\ Head(rx) = rx[1]
  BY <1>1, <1>2, ByteRead DEF Give
<1>4. CASE rd_buff = <<>>
  <2>1. rx[1].line.n = due /\ ~(rx[1].line.len < RDBUFF_MAX)
    BY <1>1, <1>2, <1>4, FirstRead DEF First
  <2>2. DOMAIN rd_buff = {}
    BY <1>4
  <2> QED
    BY <1>3, <1>4, <2>1, <2>2 DEF LineDue
<1>5. CASE rd_buff # <<>>
  <2> DEFINE line == rd_buff[1].line
             m    == Len(rd_buff)
  <2>1. /\ line \in LineSet /\ line.n = due /\ rd_buff[1].i \in Nat
        /\ (line.len < RDBUFF_MAX => rd_buff[1].i = 1)
        /\ m \in Nat /\ m > 0 /\ rd_buff[1].i + m - 1 = line.len
    BY <1>1, <1>2, <1>3, <1>5, LineNow
  <2>2. rd_buff \in Seq(ByteSet) /\ DOMAIN rd_buff = 1 .. m /\ line.len \in Nat
    BY <1>1, <2>1, LenProperties DEF TypeInv, LineSet
  <2>3. ASSUME NEW k \in 1 .. m
        PROVE  rd_buff[k] = Byte(line, line.len - m + k)
    <3>1. rd_buff[k].line = line /\ rd_buff[k].i = rd_buff[1].i + k - 1
      BY <1>1 DEF Stored
    <3>2. rd_buff[1].i + k - 1 = line.len - m + k
      BY <2>1, <2>2
    <3>3. rd_buff[k] \in ByteSet
      BY <2>2
    <3> QED
      BY <3>1, <3>2, <3>3 DEF ByteSet, Byte
  <2>4. ASSUME line.len < RDBUFF_MAX PROVE rd_buff = Characters(line)
    <3>1. m = line.len
      BY <2>1, <2>2, <2>4
    <3>2. \A k \in 1 .. m : line.len - m + k = k
      BY <2>2, <3>1
    <3>3. rd_buff = [k \in 1 .. m |-> rd_buff[k]]
      BY <2>2
    <3>4. [k \in 1 .. m |-> rd_buff[k]] = [k \in 1 .. m |-> Byte(line, k)]
      BY <2>3, <3>2
    <3> QED
      BY <3>1, <3>3, <3>4 DEF Characters
  <2> QED
    BY <1>5, <2>1, <2>2, <2>3, <2>4 DEF LineDue
<1> QED
  BY <1>4, <1>5

(* handle_rd_data gives at_response each line once, in the order in which  *)
(* the modem said them, whole if it fits and its end if not, never with    *)
(* parts of another, across overflows, prompts without a line end and lost *)
(* sessions; only the first line of a session that found the buffer not    *)
(* clear, after a loss or with a new card, may have something before it.   *)
THEOREM LinesInOrderHolds == Spec => LinesInOrder
<1>1. OrderInv /\ [Next]_vars => [LineDue]_vars
  BY DueGiven
<1>2. QED
  BY <1>1, OrderInit, OrderKept, PTL DEF Spec, LinesInOrder
=============================================================================
