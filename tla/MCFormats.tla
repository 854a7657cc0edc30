----------------------------- MODULE MCFormats -----------------------------
(***************************************************************************)
(* Beside the user data of MCUserData: whole messages as the network sends *)
(* them, which then lose their end octet by octet, messages to submit, and *)
(* the answers that tell of the registration, a USSD and the operator.     *)
(* The encodings stated here are those of the network, not the driver's.   *)
(***************************************************************************)
EXTENDS MCUserData, Pdu, Answers

CONSTANTS MaxNumber, MaxName, MaxUssd

(* The messages stated here fit, and their names have no "@", which the    *)
(* run atsign is about.                                                    *)
ASSUME FormatsAssumption ==
  /\ {MaxNumber, MaxName, MaxUssd} \subseteq Nat /\ 1 <= MaxName
  /\ MaxNumber + 2 <= max_number
  /\ (7 * MaxName + 3) \div 4 <= max_number /\ 20 <= max_number
  /\ 5 <= max_smsc /\ 12 < max_udh_data /\ 8 <= max_pdu /\ 3 <= maxsms_binary
  /\ 0 \notin Characters

(* The tokens of the lines stated here are what they look like.            *)
ASSUME LinesAssumption ==
  /\ {"0", "1", "2", "5", "15"} \subseteq Numbers
  /\ {Space, Quote} \cap {"+CREG", "+CUSD:", "+COPS:", "A5", "C2", "x"} = {}

VARIABLE item   \* what is read or written, beside the user data

None == [sort |-> "none"]

(* A number, two digits an octet and F in the last; a name, seven bits a   *)
(* character, its length counted in semi-octets.                           *)
Digits  == {3, 8}
Spelled(number) ==
  [k \in 1 .. (Len(number) + 1) \div 2 |->
     number[2 * k - 1] + 16 * (IF 2 * k <= Len(number) THEN number[2 * k] ELSE 15)]

NumberSender(digits) ==
  [shown |-> digits, octets |-> <<Len(digits), 145>> \o Spelled(digits)]
NameSender(name) ==
  [shown |-> name, octets |-> <<(7 * Len(name) + 3) \div 4, 208>> \o Packed(name, 0)]

Senders ==
  {[shown |-> <<>>, octets |-> <<0, 129>>]}
    \cup {NumberSender(n) : n \in UNION {[1 .. k -> Digits] : k \in 1 .. MaxNumber}}
    \cup {NameSender(t) : t \in UNION {[1 .. k -> Characters] : k \in 1 .. MaxName}}
    \cup {NameSender([i \in 1 .. k |-> 70 + i]) : k \in MaxName .. 11}

Centres == {<<>>, <<3, 8>>, <<8, 3, 3>>}
CentreOctets(smsc) ==
  IF smsc = <<>> THEN <<0>> ELSE <<Len(Spelled(smsc)) + 1, 145>> \o Spelled(smsc)

StampDigits == <<2, 4, 1, 2, 3, 1, 2, 3, 5, 9, 5, 8>>
StampField  == Append(Spelled(StampDigits), 33)

UdhOf == [none |-> <<>>, some |-> <<3, 0, 1, 9>>]
Texts == {<<>>, <<35>>, <<35, 92, 35>>}

(* A message: its alphabet, whether it is flashed, its header, its text.   *)
MessageItems ==
  {[sort |-> "message", from |-> from, smsc |-> smsc, alphabet |-> alphabet,
    flash |-> flash, udh |-> UdhOf[h], text |-> text, lost |-> 0] :
     from \in Senders, smsc \in Centres, alphabet \in 0 .. 2, flash \in BOOLEAN,
     h \in DOMAIN UdhOf, text \in Texts}

(* The network sends no octet that the length does not announce.           *)
MessageBody(i) ==
  LET written == Generate(i.alphabet = 0, i.text, i.udh)
      needed  == IF i.alphabet = 0 THEN (7 * written.length + 7) \div 8 ELSE written.length
  IN  <<0, 4 * i.alphabet + (IF i.flash THEN 16 ELSE 0)>> \o StampField
      \o <<written.length>> \o Cut(written.octets, needed)

ReportItems ==
  {[sort |-> "report", from |-> from, smsc |-> smsc, status |-> status, lost |-> 0] :
     from \in {s \in Senders : s.shown # <<>>}, smsc \in Centres, status \in {0, 70}}

Body(i) ==
  IF i.sort = "message" THEN MessageBody(i) ELSE StampField \o StampField \o <<i.status>>

First(i) ==
  CASE i.sort = "report"  -> <<6, 77>>
    [] i.sort = "message" -> IF i.udh = <<>> THEN <<4>> ELSE <<68>>

(* What is left of the PDU of a message or of a report.                    *)
PduOf(i) ==
  CentreOctets(i.smsc) \o First(i) \o i.from.octets
    \o SubSeq(Body(i), 1, Len(Body(i)) - i.lost)

SubmitItems ==
  {[sort |-> "submit", number |-> number, national |-> national, smsc |-> smsc,
    alphabet |-> alphabet, message |-> text] :
     number \in UNION {[1 .. k -> Digits] : k \in 1 .. MaxNumber}, national \in BOOLEAN,
     smsc \in Centres, alphabet \in {-1, 1, 2}, text \in Texts}

(* A modem may put a space, or not. *)
Spaces == {<<>>, <<Space>>}

(* +CREG: [<p1>,]<p2>[,<p3>,<p4>]. *)
Statuses == {"0", "1", "2", "5"}
CregItems ==
  {[sort |-> "creg", mode |-> mode, status |-> status, cell |-> cell, space |-> space] :
     mode \in {<<>>, <<"2">>}, status \in Statuses,
     cell \in {<<>>} \cup {<<lac, ci>> : lac \in {"1", "A5"}, ci \in {"5", "C2"}},
     space \in Spaces}

CregLine(i) ==
  <<"+CREG", ":">> \o i.space
    \o (IF i.mode = <<>> THEN <<>> ELSE <<i.mode[1], ",">>) \o <<i.status>>
    \o (IF i.cell = <<>> THEN <<>>
        ELSE <<",">> \o i.space \o <<i.cell[1], ",">> \o i.space \o <<i.cell[2]>>)

UssdTexts == UNION {[1 .. k -> {"x", ",", Quote, "15"}] : k \in 0 .. MaxUssd}
UssdItems ==
  {[sort |-> "ussd", text |-> text, space |-> space] : text \in UssdTexts, space \in Spaces}

CusdLine(i) ==
  <<"+CUSD:">> \o i.space \o <<"0", ",">> \o i.space \o <<Quote>> \o i.text
    \o <<Quote, ",", "15">>

CopsLine(i) ==
  <<"+COPS:">> \o i.space \o <<"0", ",", "0", ",", Quote>> \o i.text \o <<Quote, ",", "2">>

-----------------------------------------------------------------------------

FormatsInit ==
  \/ Init /\ item = None
  \/ /\ gsm = TRUE /\ udh = <<>> /\ message = <<>> /\ ud = NotWritten
     /\ item \in MessageItems \cup ReportItems \cup SubmitItems \cup CregItems \cup UssdItems

UserDataStep == item = None /\ Next /\ UNCHANGED item

LoseEnd ==
  /\ item.sort \in {"message", "report"} /\ item.lost < Len(Body(item))
  /\ item' = [item EXCEPT !.lost = @ + 1]
  /\ UNCHANGED vars

FormatsSpec == FormatsInit /\ [][UserDataStep \/ LoseEnd]_<<vars, item>>

-----------------------------------------------------------------------------

(* A message is read as the network sent it: its sender, be it a number    *)
(* with an even or odd number of digits or a name, its alphabet, its       *)
(* header, its text (PDU::parse, parseSMSC, parseDeliver).                 *)
MessageRead ==
  item.sort = "message" /\ item.lost = 0 =>
    parse(PduOf(item)) =
      [kind |-> "message", smsc |-> item.smsc, number |-> item.from.shown, replace |-> 0,
       alphabet |-> item.alphabet, flash |-> item.flash, stamp |-> StampDigits,
       udh |-> item.udh, message |-> item.text]

(* So is a status report (PDU::parseStatusReport).                         *)
ReportRead ==
  item.sort = "report" /\ item.lost = 0 =>
    parse(PduOf(item)) =
      [kind |-> "report", smsc |-> item.smsc, id |-> 77, number |-> item.from.shown,
       stamp |-> StampDigits, discharge |-> StampDigits, status |-> item.status]

(* A message or report that lost its end anywhere behind the address is    *)
(* refused: the tests of length that parse makes on the way add up.        *)
CutRefused ==
  item.sort \in {"message", "report"} /\ item.lost > 0 => parse(PduOf(item)) = NotRead

(* The octets a message to submit takes: its centre, eight of its own, its *)
(* number, its text.  Of septets there is an octet even if the text is     *)
(* empty.                                                                  *)
TextOctets(packed, text) ==
  CASE ~packed                  -> Len(text)
    [] packed /\ text = <<>>    -> 1
    [] packed /\ text # <<>>    -> (7 * Len(text) + 7) \div 8

SubmitOctets(i) ==
  Len(CentreOctets(i.smsc)) + 8 + Len(Spelled(i.number)) + TextOctets(i.alphabet = -1, i.message)

(* Of a message whose hexadecimal text and final zero fit into m_pdu, the  *)
(* service centre reads the number it was meant for and as many octets of  *)
(* text as it announces, and the length given to AT+CMGS is that of all    *)
(* that follows the service centre's address; a longer one is written      *)
(* beyond m_pdu (PDU::generate).                                           *)
SubmitRead ==
  item.sort = "submit" =>
    IF pdu_room < 2 * SubmitOctets(item) + 1 THEN generate(item) = Undefined
    ELSE
    LET out    == generate(item)
        tpdu   == From(out.pdu, out.pdu[1] + 2)
        fields == From(tpdu, 5 + (Len(item.number) + 1) \div 2)
        packed == item.alphabet = -1
    IN  /\ SubSeq(out.pdu, 1, out.pdu[1] + 1) = CentreOctets(item.smsc)
        /\ out.length = Len(tpdu)
        /\ SubSeq(tpdu, 3, 4 + (Len(item.number) + 1) \div 2)
             = <<Len(item.number), IF item.national THEN 129 ELSE 145>> \o Spelled(item.number)
        /\ AlphabetOf(fields[2]) = IF packed THEN 0 ELSE item.alphabet
        /\ ParseUserData(packed, [length |-> fields[4], octets |-> From(fields, 5)], FALSE)
             = [ok |-> TRUE, udh |-> <<>>, message |-> item.message]

(* In each of the forms of +CREG the registration is read, and not the     *)
(* mode before it or the cell behind it (at_parse_creg).                   *)
CregRead ==
  item.sort = "creg" =>
    LET read == at_parse_creg(CregLine(item))
    IN  /\ read.ok /\ read.status = item.status
        /\ read.registered = (item.status \in {"1", "5"})
        /\ <<trimLeft(read.lac), trimLeft(read.ci)>> =
             IF item.cell = <<>> THEN <<<<>>, <<>>>> ELSE <<<<item.cell[1]>>, <<item.cell[2]>>>>

(* A text in quotes is read whole, the commas, numbers and (in a USSD)     *)
(* quotes in it included, as the examples in at_parse_cusd have them; so   *)
(* is the name of an operator (at_parse_cops).                             *)
QuotedRead ==
  item.sort = "ussd" =>
    /\ at_parse_cusd(CusdLine(item)) = [ok |-> TRUE, text |-> item.text, dcs |-> "15"]
    /\ ~Contains(item.text, Quote) =>
         at_parse_cops(CopsLine(item)) = [ok |-> TRUE, name |-> item.text]
=============================================================================
