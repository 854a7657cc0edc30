-------------------------------- MODULE Pdu --------------------------------
(***************************************************************************)
(* Whole short messages: what PDU::parse reads of a message delivered by   *)
(* the network or of a status report, and what PDU::generate writes of one *)
(* to submit.  A PDU is a sequence of octets.  An address or a time stamp  *)
(* is spelled in semi-octets, the low one first: its digits appear swapped *)
(* in pairs in the text of a PDU, and swapchars puts them right.           *)
(*                                                                         *)
(* Characters that are no hexadecimal digits are left out: octet2bin_check *)
(* fails on them as it does on the end of the PDU.  The conversion of      *)
(* UCS-2 is iconv's, the names of types and statuses are left out.         *)
(***************************************************************************)
EXTENDS UserData, SequencesExt

(* pdu_room is max_pdu in the code, which is also the most septets a       *)
(* message may have: here the two differ, for a small instance to have     *)
(* both limits among its messages.                                         *)
CONSTANTS
  max_number,  \* semi-octets a number may have, and characters of m_number
  max_smsc,    \* octets the address of a centre may have, and characters of m_smsc
  pdu_room     \* characters of m_pdu, where generate writes

(* The length of what fits into m_pdu takes no more than one octet. *)
ASSUME AddressAssumption == {max_number, max_smsc} \subseteq Nat /\ pdu_room \in 0 .. 256

(* What the code does then is not defined: it goes beyond an array. *)
Undefined == [kind |-> "undefined"]

Fill == 15   \* F, which ends a number with an odd number of digits

From(octets, n) == SubSeq(octets, n, Len(octets))

-----------------------------------------------------------------------------
(* Addresses.                                                              *)

(* Fault: nothing fills the octet of the last digit. *)
PaddedNot(number) == number

Padded(number) == IF Len(number) % 2 = 1 THEN Append(number, Fill) ELSE number

(* swapchars, on the way out and on the way in. *)
Octets(number) ==
  LET semi == Padded(number)
  IN  [k \in 1 .. Len(semi) \div 2 |-> semi[2 * k - 1] + 16 * semi[2 * k]]

SemiOctets(octets) ==
  [k \in 1 .. 2 * Len(octets) |->
     LET octet == octets[(k + 1) \div 2]
     IN  IF k % 2 = 1 THEN octet % 16 ELSE octet \div 16]

DropFill(semi) ==
  IF semi # <<>> /\ semi[Len(semi)] = Fill
  THEN SubSeq(semi, 1, Len(semi) - 1)
  ELSE semi

IsNumber(semi) == \A k \in DOMAIN semi : semi[k] <= 9

(* Bit 7 of a type of address is set; bits 4 to 6 tell what it spells. *)
IsType(octet) == octet >= 128
Alphanumeric(type) == (type \div 16) % 8 = 5

(* Fault: the last digit of an odd number is left where it is. *)
AddressOctetsWhole(length) == length \div 2

(* The length of an address is in semi-octets. *)
AddressOctets(length) == (length + 1) \div 2

(* Fault: the semi-octets of a name are taken for its characters. *)
NameSeptetsAll(length) == length

NameSeptets(length) == (length * 4) \div 7

(* Whatever its digits are: others than 0 to 9 make a warning. *)
Sender(length, type, octets) ==
  IF Alphanumeric(type)
  THEN CString(pdu2text([length |-> NameSeptets(length), octets |-> octets], FALSE).message)
  ELSE DropFill(SemiOctets(octets))

-----------------------------------------------------------------------------
(* parseSMSC: the address of the service centre stands before the message. *)

HasSmsc(pdu) ==
  LET number == SemiOctets(SubSeq(pdu, 3, pdu[1] + 1))
  IN  /\ pdu[1] >= 2 /\ pdu[1] <= max_smsc
      /\ Len(pdu) >= pdu[1] + 1
      /\ IsType(pdu[2])
      /\ Alphanumeric(pdu[2]) \/ IsNumber(DropFill(number))

(* It is copied whole, with the zero that ends it. *)
SmscOverruns(pdu) ==
  /\ max_smsc <= 2 * pdu[1] - 2 /\ pdu[1] <= max_smsc
  /\ Len(pdu) >= pdu[1] + 1
  /\ IsType(pdu[2])

Smsc(pdu) ==
  LET number == SemiOctets(SubSeq(pdu, 3, pdu[1] + 1))
  IN  CASE pdu[1] = 0                             -> <<>>
        [] pdu[1] # 0 /\ Alphanumeric(pdu[2])     -> number
        [] OTHER                                  -> DropFill(number)

(* Wavecom modems spell so a place of the store that is empty. *)
Patched(pdu) ==
  LET empty == <<0, 0, 0, 255>>
  IN  IF IsPrefix(Append(empty, 0), pdu) THEN empty \o [k \in 1 .. 22 |-> 0] ELSE pdu

-----------------------------------------------------------------------------
(* Time stamps: six pairs of digits and a time zone.                       *)

StampOctets == 7
Stamp(octets) == SemiOctets(SubSeq(octets, 1, 6))

HasStamp(octets) == Len(octets) >= StampOctets /\ IsNumber(Stamp(octets))

-----------------------------------------------------------------------------
(* parse.                                                                  *)

NotRead == [kind |-> "refused"]

(* That it ends before the PDU does is asked only of a name. *)
HasAddress(octets) ==
  /\ Len(octets) >= 2
  /\ octets[1] <= max_number
  /\ octets[1] # 0 =>
       /\ IsType(octets[2])
       /\ Alphanumeric(octets[2]) => Len(octets) >= 2 + AddressOctets(octets[1])

(* A number is copied as long as it says it is, with a zero behind it. *)
NumberOverruns(octets) ==
  /\ HasAddress(octets)
  /\ octets[1] # 0 /\ ~Alphanumeric(octets[2])
  /\ \/ max_number <= 2 * AddressOctets(octets[1])
     \/ Len(octets) < 2 + AddressOctets(octets[1])

(* TP-PID, TP-DCS, TP-SCTS and TP-UDL. *)
HasFields(octets) == Len(octets) >= 3 + StampOctets

AlphabetOf(coding) == (coding \div 4) % 4
IsFlash(coding)    == (coding \div 16) % 2 = 1 /\ coding % 2 = 0

parseDeliver(octets, smsc, first) ==
  LET with_udh == (first \div 64) % 2 = 1
      length   == octets[1]
      fields   == From(octets, 3 + AddressOctets(length))
      alphabet == AlphabetOf(fields[2])
      stamp    == From(fields, 3)
      read     == ParseUserData(alphabet = 0,
                                [length |-> stamp[StampOctets + 1],
                                 octets |-> From(stamp, StampOctets + 2)], with_udh)
      refused  ==
        \/ ~HasAddress(octets)
        \/ ~HasFields(fields)
        \/ alphabet = 3
        \/ ~HasStamp(stamp)
        \/ ~read.ok
  IN  IF NumberOverruns(octets) THEN Undefined
      ELSE IF refused THEN NotRead
      ELSE [kind     |-> "message",
            smsc     |-> smsc,
            number   |-> IF length = 0 THEN <<>>
                         ELSE Sender(length, octets[2], SubSeq(octets, 3, 2 + AddressOctets(length))),
            replace  |-> IF fields[1] \div 8 = 8 THEN fields[1] % 8 ELSE 0,
            alphabet |-> alphabet,
            flash    |-> IsFlash(fields[2]),
            stamp    |-> Stamp(stamp),
            udh      |-> read.udh,
            message  |-> read.message]

parseStatusReport(octets, smsc) ==
  LET address   == Tail(octets)
      length    == address[1]
      stamp     == From(address, 3 + AddressOctets(length))
      discharge == From(stamp, 1 + StampOctets)
      refused   ==
        \/ Len(octets) < 3 \/ address[1] < 1 \/ ~HasAddress(address)
        \/ ~HasStamp(stamp) \/ ~HasStamp(discharge)
        \/ Len(discharge) <= StampOctets
  IN  IF Len(octets) >= 3 /\ NumberOverruns(address) THEN Undefined
      ELSE IF refused THEN NotRead
      ELSE [kind      |-> "report",
            smsc      |-> smsc,
            id        |-> octets[1],
            number    |-> Sender(length, address[2], SubSeq(address, 3, 2 + AddressOctets(length))),
            stamp     |-> Stamp(stamp),
            discharge |-> Stamp(discharge),
            status    |-> discharge[StampOctets + 1]]

(* Bits 0 and 1 of the first octet tell what is delivered. *)
parse(line) ==
  LET pdu  == Patched(line)
      rest == From(pdu, IF pdu[1] = 0 THEN 2 ELSE pdu[1] + 2)
      begun == (pdu[1] = 0 \/ HasSmsc(pdu)) /\ rest # <<>>
  IN  IF pdu = <<>> THEN NotRead
      ELSE IF SmscOverruns(pdu) THEN Undefined
      ELSE CASE begun /\ rest[1] % 4 = 0 -> parseDeliver(Tail(rest), Smsc(pdu), rest[1])
             [] begun /\ rest[1] % 4 = 2 -> parseStatusReport(Tail(rest), Smsc(pdu))
             [] OTHER                    -> NotRead

-----------------------------------------------------------------------------
(* generate, of a message m to submit.  What has no setter (header, flash,  *)
(* report, replacement) is as the constructor leaves it; a number that     *)
(* began with "s" is not international.  The address of a service centre   *)
(* that snprintf would cut, of max_smsc digits, is left out.               *)

validity == 170

Coding(alphabet) == CASE alphabet = 1 -> 4 [] alphabet = 2 -> 8 [] OTHER -> 0

SmscField(smsc) ==
  IF smsc = <<>> THEN <<0>>
  ELSE <<Len(Octets(smsc)) + 1, IF smsc[1] = 0 THEN 129 ELSE 145>> \o Octets(smsc)

(* Of an octet, m_pdu has two characters; a zero ends it. *)
FitsPdu(octets) == 2 * Len(octets) + 1 <= pdu_room

(* What is counted in AT+CMGS begins after the service centre.  No length  *)
(* is asked for before it is all written into m_pdu.                       *)
generate(m) ==
  LET ud   == Generate(m.alphabet \notin {1, 2}, m.message, <<>>)
      tpdu == <<17, 0, Len(m.number), IF m.national THEN 129 ELSE 145>>
              \o Octets(m.number) \o <<0, Coding(m.alphabet), validity, ud.length>>
              \o ud.octets
      pdu  == SmscField(m.smsc) \o tpdu
  IN  IF FitsPdu(pdu) THEN [pdu |-> pdu, length |-> Len(tpdu)] ELSE Undefined
=============================================================================
