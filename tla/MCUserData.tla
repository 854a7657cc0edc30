----------------------------- MODULE MCUserData -----------------------------
(* Every message up to MaxMessage characters, with each header, is written *)
(* and then loses its end octet by octet; as a text it is also a USSD.     *)
EXTENDS UserData, SevenBit

CONSTANTS Characters, MaxMessage, MaxHeader

ASSUME CharacterAssumption == Characters \subseteq 0 .. 127
ASSUME HeaderAssumption    == MaxHeader \in Nat

VARIABLES gsm, udh, message, ud
vars == <<gsm, udh, message, ud>>

NotWritten == [length |-> -1, octets |-> <<>>]

Headers == {<<>>} \cup {[i \in 1 .. n |-> IF i = 1 THEN n - 1 ELSE 200 + i] : n \in 1 .. MaxHeader}

Init == /\ gsm \in BOOLEAN /\ udh \in Headers
        /\ message = <<>> /\ ud = NotWritten

Compose ==
  /\ ud = NotWritten /\ Len(message) < MaxMessage
  /\ \E c \in Characters : message' = Append(message, c)
  /\ UNCHANGED <<gsm, udh, ud>>

Write ==
  /\ ud = NotWritten
  /\ ud' = Generate(gsm, message, udh)
  /\ UNCHANGED <<gsm, udh, message>>

LoseOctet ==
  /\ ud # NotWritten /\ ud.octets # <<>>
  /\ ud' = [ud EXCEPT !.octets = SubSeq(@, 1, Len(@) - 1)]
  /\ UNCHANGED <<gsm, udh, message>>

Next == Compose \/ Write \/ LoseOctet

Spec == Init /\ [][Next]_vars

Read == ParseUserData(gsm, ud, udh # <<>>)

Whole == ud = Generate(gsm, message, udh)

Fits ==
  /\ 3 * Len(udh) < max_udh_data
  /\ Len(message) <= IF gsm THEN max_pdu - UdhSeptets(udh) ELSE maxsms_binary

-----------------------------------------------------------------------------

(* A message that fits is read as it was written, and so is its header,    *)
(* whatever the position of the text in the octets (text2pdu, pdu2text).   *)
RoundTrip ==
  Whole /\ Fits => Read = [ok |-> TRUE, udh |-> udh, message |-> message]

(* A message too long, or with its end missing, is refused or read up to a *)
(* limit of the format: never are characters shown that were not written,  *)
(* nor is a header mistaken for text.                                      *)
NeverGarbled ==
  ud # NotWritten /\ Read.ok =>
    /\ Read.udh = udh
    /\ Read.message = IF gsm THEN Cut(message, max_pdu - UdhSeptets(udh)) ELSE message

(* A USSD without "@" is decoded as it was encoded (encodeUSSD,            *)
(* at_response_cusd), at every length modulo eight.                        *)
UssdRoundTrip ==
  message # <<>> /\ 0 \notin {message[i] : i \in DOMAIN message} =>
    CString(hexstr_7bit_to_char(char_to_hexstr_7bit(message))) = message

(* The two packers of the driver agree; that of USSD may add an octet of   *)
(* zeros.                                                                  *)
PackersAgree ==
  message # <<>> =>
    char_to_hexstr_7bit(message) \in {Packed(message, 0), Append(Packed(message, 0), 0)}

(* The text of a GSM message is given to the engine whole (receiveSMS), the    *)
(* zero that text2pdu's comment names a valid character included.          *)
DeliveredWhole == gsm /\ Whole /\ Fits => Delivered(Read) = message
=============================================================================
