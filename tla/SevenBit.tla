------------------------------ MODULE SevenBit ------------------------------
(***************************************************************************)
(* The 7-bit coding of USSD texts: char_to_hexstr_7bit and                 *)
(* hexstr_7bit_to_char.  They shift each character against the next one,   *)
(* where UserData's text2pdu copies bit by bit.  The digits that spell an  *)
(* octet are abstracted.  The parts a shift leaves occupy different bits,  *)
(* so their or is their sum.                                               *)
(***************************************************************************)
EXTENDS Integers, Sequences, SequencesExt

(* Shifts of an unsigned char.                                             *)
Left(x, s)  == (x * 2^s) % 256
Right(x, s) == x \div 2^s

(* Fault: a character that is already written whole is not left out. *)
EncodeStepEvery(text, a, i) ==
  [s |-> (a.s + 1) % 8,
   out |-> Append(a.out, Right(text[i], a.s) + Left(text[i + 1], 7 - a.s))]

(* Every eighth character is written whole with the one before it.         *)
EncodeStep(text, a, i) ==
  IF a.s = 7
  THEN [a EXCEPT !.s = 0]
  ELSE [s |-> a.s + 1,
        out |-> Append(a.out, Right(text[i], a.s) + Left(text[i + 1], 7 - a.s))]

(* The last character is not paired.  Of an empty text, which sendUSSD     *)
(* does not refuse, in_length - 1 wraps and the loop leaves the text: what *)
(* it then reads is undefined, and no property is stated of it.            *)
char_to_hexstr_7bit(text) ==
  LET n == Len(text)
      a == FoldLeftDomain(LAMBDA a, i : EncodeStep(text, a, i),
                          [s |-> 0, out |-> <<>>], SubSeq(text, 1, n - 1))
  IN Append(a.out, Right(text[n], a.s))

(* Fault: the bits carried over are lost after seven octets. *)
DecodeStepDrops(a, octet) ==
  LET c == Left(octet, a.s) \div 2 + a.b
  IN IF a.s = 7
     THEN [s |-> 1, b |-> 0, out |-> Append(a.out, c)]
     ELSE [s |-> a.s + 1, b |-> Right(octet, 8 - a.s), out |-> Append(a.out, c)]

(* Seven octets hold an eighth character.                                  *)
DecodeStep(a, octet) ==
  LET c == Left(octet, a.s) \div 2 + a.b
      b == Right(octet, 8 - a.s)
  IN IF a.s = 7
     THEN [s |-> 1, b |-> 0, out |-> a.out \o <<c, b>>]
     ELSE [s |-> a.s + 1, b |-> b, out |-> Append(a.out, c)]

hexstr_7bit_to_char(octets) ==
  FoldLeft(DecodeStep, [s |-> 1, b |-> 0, out |-> <<>>], octets).out
=============================================================================
