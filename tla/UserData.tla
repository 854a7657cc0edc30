------------------------------ MODULE UserData ------------------------------
(***************************************************************************)
(* The user data of a short message (TP-UDL and TP-UD): what PDU::generate *)
(* writes of a message and its header, and what PDU::parse reads of it.    *)
(* A user data is its length field and its octets; the hexadecimal digits  *)
(* in which a PDU spells them are abstracted, its missing end is not.      *)
(* Text in the GSM alphabet is packed, seven bits a character, behind a    *)
(* header that is made of octets; every other alphabet is copied.          *)
(***************************************************************************)
EXTENDS Integers, Sequences

CONSTANTS
  max_pdu,        \* septets a user data may hold
  maxsms_binary,  \* octets it may hold
  max_udh_data    \* bytes the reader has for the header, three an octet

ASSUME LimitAssumption == {max_pdu, maxsms_binary, max_udh_data} \subseteq Nat

Least(a, b) == IF a <= b THEN a ELSE b

-----------------------------------------------------------------------------
(* Bits.                                                                   *)

Bit(x, b) == (x \div <<1, 2, 4, 8, 16, 32, 64, 128>>[b + 1]) % 2

Septet(bits) == bits[0] + 2 * bits[1] + 4 * bits[2] + 8 * bits[3]
                + 16 * bits[4] + 32 * bits[5] + 64 * bits[6]
Octet(bits)  == Septet(bits) + 128 * bits[7]

(* Bit n of a text, seven a character, and of octets, eight each.          *)
TextBit(text, n) ==
  IF n \in 0 .. 7 * Len(text) - 1 THEN Bit(text[n \div 7 + 1], n % 7) ELSE 0
OctetBit(octets, n) == Bit(octets[n \div 8 + 1], n % 8)

(* The septets a header takes, and the filler bits that end the last one.  *)
UdhSeptets(udh) == (8 * Len(udh) + 6) \div 7

(* Fault: the filler bits are forgotten. *)
FillBitsNone(udh) == 0

FillBits(udh) == LET fill == 7 - (Len(udh) % 7) IN IF fill = 7 THEN 0 ELSE fill

-----------------------------------------------------------------------------
(* Writing.                                                                *)

(* A text without characters still takes one octet.                        *)
LastOctet(text, fill) ==
  IF Len(text) = 0 THEN 0 ELSE (7 * (Len(text) - 1) + 6 + fill) \div 8

Packed(text, fill) ==
  [i \in 1 .. LastOctet(text, fill) + 1 |->
     Octet([b \in 0 .. 7 |-> TextBit(text, 8 * (i - 1) + b - fill)])]

Cut(message, limit) == SubSeq(message, 1, Least(Len(message), limit))

text2pdu(message, udh) ==
  LET text == Cut(message, max_pdu - UdhSeptets(udh))
  IN [length |-> Len(text) + UdhSeptets(udh),
      octets |-> udh \o Packed(text, FillBits(udh))]

(* The length counts what binary2pdu leaves out.                           *)
binary2pdu(message, udh) ==
  [length |-> Len(message) + Len(udh), octets |-> udh \o Cut(message, maxsms_binary)]

Generate(gsm, message, udh) ==
  IF gsm THEN text2pdu(message, udh) ELSE binary2pdu(message, udh)

-----------------------------------------------------------------------------
(* Reading.                                                                *)

Refused == [ok |-> FALSE, udh |-> <<>>, message |-> <<>>]

(* The octet that says how long the header is, the octets it promises, and *)
(* room for them in hexadecimal.                                           *)
HasHeader(ud) ==
  /\ ud.octets # <<>>
  /\ ud.octets[1] + 1 <= Len(ud.octets)
  /\ 3 * ud.octets[1] + 3 < max_udh_data

Header(ud, with_udh) ==
  IF with_udh THEN SubSeq(ud.octets, 1, ud.octets[1] + 1) ELSE <<>>

(* Fault: an end that is missing is read as zeros. *)
pdu2textLenient(ud, with_udh) ==
  LET udh  == Header(ud, with_udh)
      skip == UdhSeptets(udh)
      all  == ud.octets \o [i \in 1 .. ud.length + 8 |-> 0]
  IN IF (with_udh /\ ~HasHeader(ud)) \/ ud.length < skip
     THEN Refused
     ELSE [ok |-> TRUE, udh |-> udh,
           message |-> [i \in 1 .. ud.length - skip |->
                          Septet([b \in 0 .. 6 |-> OctetBit(all, 7 * (skip + i - 1) + b)])]]

pdu2text(ud, with_udh) ==
  LET udh  == Header(ud, with_udh)
      skip == UdhSeptets(udh)
  IN IF \/ with_udh /\ ~HasHeader(ud)
        \/ Len(ud.octets) < (7 * ud.length + 7) \div 8
        \/ ud.length < skip
     THEN Refused
     ELSE [ok |-> TRUE, udh |-> udh,
           message |-> [i \in 1 .. ud.length - skip |->
                          Septet([b \in 0 .. 6 |->
                                    OctetBit(ud.octets, 7 * (skip + i - 1) + b)])]]

pdu2binary(ud, with_udh) ==
  LET udh == Header(ud, with_udh)
  IN IF \/ with_udh /\ ~HasHeader(ud)
        \/ Len(ud.octets) < ud.length
        \/ ud.length < Len(udh)
     THEN Refused
     ELSE [ok |-> TRUE, udh |-> udh,
           message |-> SubSeq(ud.octets, Len(udh) + 1, ud.length)]

ParseUserData(gsm, ud, with_udh) ==
  IF gsm THEN pdu2text(ud, with_udh) ELSE pdu2binary(ud, with_udh)

(* What is left of a sequence of characters that goes on as a C string.    *)
CString(s) ==
  LET zeros == {i \in DOMAIN s : s[i] = 0}
  IN IF zeros = {} THEN s
     ELSE SubSeq(s, 1, (CHOOSE i \in zeros : \A j \in zeros : i <= j) - 1)

(* What receiveSMS hands to the engine.                                    *)
Delivered(read) == CString(read.message)
=============================================================================
