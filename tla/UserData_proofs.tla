--------------------------- MODULE UserData_proofs ---------------------------
(***************************************************************************)
(* A text and its header are read as they were written, for every text,    *)
(* header and limit.  Both ends agree on the bit where the text starts     *)
(* (FillAligns), each bit is where the reader looks for it (WrittenBit),   *)
(* and seven bits make the character they came from (SeptetOfBits).  The   *)
(* packers of a USSD, which are folds over its characters, are shown equal *)
(* to a formula for each octet, and to the packer of the user data.        *)
(***************************************************************************)
EXTENDS MCUserData, SequenceTheorems, WellFoundedInduction, TLAPS

(* The first octet of a header is the number of those that follow.         *)
WellFormed(hdr) == hdr = <<>> \/ (hdr[1] + 1 = Len(hdr))

-----------------------------------------------------------------------------

(* The filler bits bring a header to the end of its last septet.           *)
LEMMA FillAligns ==
  ASSUME NEW hdr \in Seq(Nat)
  PROVE  /\ FillBits(hdr) \in 0 .. 6
         /\ UdhSeptets(hdr) \in Nat
         /\ 7 * UdhSeptets(hdr) = 8 * Len(hdr) + FillBits(hdr)
<1> DEFINE n == Len(hdr)
<1>1. n \in Nat
  OBVIOUS
<1>2. FillBits(hdr) = IF n % 7 = 0 THEN 0 ELSE 7 - (n % 7)
  BY <1>1 DEF FillBits
<1>3. UdhSeptets(hdr) = (8 * n + 6) \div 7
  BY DEF UdhSeptets
<1> HIDE DEF n
<1>4. /\ (8 * n + 6) \div 7 \in Nat
      /\ 7 * ((8 * n + 6) \div 7) = 8 * n + IF n % 7 = 0 THEN 0 ELSE 7 - (n % 7)
  BY <1>1
<1>5. (IF n % 7 = 0 THEN 0 ELSE 7 - (n % 7)) \in 0 .. 6
  BY <1>1
<1>6. FillBits(hdr) \in 0 .. 6
  BY <1>2, <1>5
<1>7. UdhSeptets(hdr) \in Nat
  BY <1>3, <1>4
<1>8. 7 * UdhSeptets(hdr) = 8 * n + FillBits(hdr)
  BY <1>2, <1>3, <1>4
<1> QED
  BY <1>6, <1>7, <1>8 DEF n

(* An octet keeps the bits it is made of.                                  *)
LEMMA OctetKeeps ==
  ASSUME NEW bits \in [0 .. 7 -> 0 .. 1], NEW b \in 0 .. 7
  PROVE  Bit(Octet(bits), b) = bits[b]
<1> DEFINE x == Octet(bits)
<1>1. \A i \in 0 .. 7 : bits[i] \in 0 .. 1
  OBVIOUS
<1>2. b = 0 \/ b = 1 \/ b = 2 \/ b = 3 \/ b = 4 \/ b = 5 \/ b = 6 \/ b = 7
  OBVIOUS
<1>3. CASE b = 0
  BY <1>1, <1>3 DEF Bit, Octet, Septet
<1>4. CASE b = 1
  BY <1>1, <1>4 DEF Bit, Octet, Septet
<1>5. CASE b = 2
  BY <1>1, <1>5 DEF Bit, Octet, Septet
<1>6. CASE b = 3
  BY <1>1, <1>6 DEF Bit, Octet, Septet
<1>7. CASE b = 4
  BY <1>1, <1>7 DEF Bit, Octet, Septet
<1>8. CASE b = 5
  BY <1>1, <1>8 DEF Bit, Octet, Septet
<1>9. CASE b = 6
  BY <1>1, <1>9 DEF Bit, Octet, Septet
<1>10. CASE b = 7
  BY <1>1, <1>10 DEF Bit, Octet, Septet
<1> QED
  BY <1>2, <1>3, <1>4, <1>5, <1>6, <1>7, <1>8, <1>9, <1>10

(* Bits are zero or one.                                                   *)
LEMMA BitType ==
  ASSUME NEW x \in Nat, NEW b \in 0 .. 7
  PROVE  Bit(x, b) \in 0 .. 1
<1>1. <<1, 2, 4, 8, 16, 32, 64, 128>>[b + 1] \in {1, 2, 4, 8, 16, 32, 64, 128}
  OBVIOUS
<1>2. \A d \in {1, 2, 4, 8, 16, 32, 64, 128} : (x \div d) % 2 \in 0 .. 1
  OBVIOUS
<1> QED
  BY <1>1, <1>2 DEF Bit

(* A character of seven bits is the number of its bits.                    *)
LEMMA SeptetOfBits ==
  ASSUME NEW c \in 0 .. 127, NEW bits,
         \A b \in 0 .. 6 : bits[b] = Bit(c, b)
  PROVE  Septet(bits) = c
<1>1. /\ Bit(c, 0) = c % 2 /\ Bit(c, 1) = (c \div 2) % 2 /\ Bit(c, 2) = (c \div 4) % 2
      /\ Bit(c, 3) = (c \div 8) % 2 /\ Bit(c, 4) = (c \div 16) % 2
      /\ Bit(c, 5) = (c \div 32) % 2 /\ Bit(c, 6) = (c \div 64) % 2
  BY DEF Bit
<1>2. /\ bits[0] = c % 2 /\ bits[1] = (c \div 2) % 2 /\ bits[2] = (c \div 4) % 2
      /\ bits[3] = (c \div 8) % 2 /\ bits[4] = (c \div 16) % 2
      /\ bits[5] = (c \div 32) % 2 /\ bits[6] = (c \div 64) % 2
  BY <1>1
<1>3. c = (c % 2) + 2 * ((c \div 2) % 2) + 4 * ((c \div 4) % 2) + 8 * ((c \div 8) % 2)
          + 16 * ((c \div 16) % 2) + 32 * ((c \div 32) % 2) + 64 * ((c \div 64) % 2)
  OBVIOUS
<1> QED
  BY <1>2, <1>3 DEF Septet
-----------------------------------------------------------------------------

(* Sequences have elements of their type.                                  *)
LEMMA ElementType ==
  ASSUME NEW S, NEW s \in Seq(S)
  PROVE  Len(s) \in Nat /\ \A i \in 1 .. Len(s) : s[i] \in S
OBVIOUS

(* An octet is a number.                                                   *)
LEMMA OctetType ==
  ASSUME NEW bits \in [0 .. 7 -> 0 .. 1]
  PROVE  Octet(bits) \in Nat
<1>1. \A i \in 0 .. 7 : bits[i] \in 0 .. 1
  OBVIOUS
<1> QED
  BY <1>1 DEF Octet, Septet

(* A bit of a text is zero or one, past its ends too.                      *)
LEMMA TextBitType ==
  ASSUME NEW text \in Seq(0 .. 127), NEW m \in Int
  PROVE  TextBit(text, m) \in 0 .. 1
<1>1. CASE m \in 0 .. 7 * Len(text) - 1
  <2>1. Len(text) \in Nat
    OBVIOUS
  <2>2. m \div 7 + 1 \in 1 .. Len(text) /\ m % 7 \in 0 .. 7
    BY <1>1, <2>1
  <2>3. text[m \div 7 + 1] \in Nat
    <3>1. text[m \div 7 + 1] \in 0 .. 127
      BY <2>2, ElementType
    <3>2. \A c \in 0 .. 127 : c \in Nat
      OBVIOUS
    <3> QED
      BY <3>1, <3>2
  <2>4. Bit(text[m \div 7 + 1], m % 7) \in 0 .. 1
    BY <2>2, <2>3, BitType
  <2> QED
    BY <1>1, <2>4 DEF TextBit
<1>2. CASE m \notin 0 .. 7 * Len(text) - 1
  BY <1>2 DEF TextBit
<1> QED
  BY <1>1, <1>2

(* The octets of a text reach its last bit, and are as many as the reader  *)
(* of that number of septets wants.                                        *)
LEMMA OctetsEnough ==
  ASSUME NEW text \in Seq(0 .. 127), NEW fill \in 0 .. 6
  PROVE  /\ LastOctet(text, fill) \in Nat
         /\ (7 * Len(text) + fill + 7) \div 8 <= LastOctet(text, fill) + 1
         /\ \A i \in 1 .. Len(text), b \in 0 .. 6 :
              (7 * (i - 1) + b + fill) \div 8 <= LastOctet(text, fill)
<1>1. PICK n \in Nat : n = Len(text)
  OBVIOUS
<1>2. LastOctet(text, fill) = IF n = 0 THEN 0 ELSE (7 * (n - 1) + 6 + fill) \div 8
  BY <1>1 DEF LastOctet
<1>3. (IF n = 0 THEN 0 ELSE (7 * (n - 1) + 6 + fill) \div 8) \in Nat
  OBVIOUS
<1>4. (7 * n + fill + 7) \div 8 <= (IF n = 0 THEN 0 ELSE (7 * (n - 1) + 6 + fill) \div 8) + 1
  OBVIOUS
<1>5. \A i \in 1 .. n, b \in 0 .. 6 :
        (7 * (i - 1) + b + fill) \div 8 <= IF n = 0 THEN 0 ELSE (7 * (n - 1) + 6 + fill) \div 8
  OBVIOUS
<1> QED
  BY <1>1, <1>2, <1>3, <1>4, <1>5

(* A bit is in one of eight places of one octet.                           *)
LEMMA OctetOf ==
  ASSUME NEW n \in Nat
  PROVE  n \div 8 \in Nat /\ n % 8 \in 0 .. 7 /\ 8 * (n \div 8) + (n % 8) = n
<1>1. n \div 8 \in Nat
  OBVIOUS
<1>2. n % 8 \in 0 .. 7
  OBVIOUS
<1>3. 8 * (n \div 8) + (n % 8) = n
  OBVIOUS
<1> QED
  BY <1>1, <1>2, <1>3

(* What is written of a text is a sequence of octets.                      *)
LEMMA PackedType ==
  ASSUME NEW text \in Seq(0 .. 127), NEW fill \in 0 .. 6
  PROVE  /\ Packed(text, fill) \in Seq(Nat)
         /\ Len(Packed(text, fill)) = LastOctet(text, fill) + 1
<1>1. LastOctet(text, fill) \in Nat
  BY OctetsEnough
<1>2. ASSUME NEW i \in 1 .. LastOctet(text, fill) + 1
      PROVE  Octet([b \in 0 .. 7 |-> TextBit(text, 8 * (i - 1) + b - fill)]) \in Nat
  <2>1. \A b \in 0 .. 7 : 8 * (i - 1) + b - fill \in Int
    BY <1>1
  <2>2. PICK bits \in [0 .. 7 -> 0 .. 1] :
          bits = [b \in 0 .. 7 |-> TextBit(text, 8 * (i - 1) + b - fill)]
    BY <2>1, TextBitType
  <2> QED
    BY <2>2, OctetType
<1>3. PICK m \in Nat : m = LastOctet(text, fill) + 1
  BY <1>1
<1>4. Packed(text, fill) \in [1 .. m -> Nat]
  BY <1>2, <1>3 DEF Packed
<1> QED
  BY <1>3, <1>4

(* Bit n of what is written is bit n - fill of the text.                   *)
LEMMA WrittenBit ==
  ASSUME NEW text \in Seq(0 .. 127), NEW fill \in 0 .. 6, NEW n \in Nat,
         n \div 8 <= LastOctet(text, fill)
  PROVE  OctetBit(Packed(text, fill), n) = TextBit(text, n - fill)
<1>1. LastOctet(text, fill) \in Nat
  BY OctetsEnough
<1>2. /\ n \div 8 + 1 \in 1 .. LastOctet(text, fill) + 1
      /\ n % 8 \in 0 .. 7
      /\ 8 * (n \div 8) + (n % 8) = n
  <2>1. n \div 8 \in Nat /\ n % 8 \in 0 .. 7 /\ 8 * (n \div 8) + (n % 8) = n
    BY OctetOf
  <2> QED
    BY <1>1, <2>1
<1>3. \A b \in 0 .. 7 : 8 * (n \div 8) + b - fill \in Int
  OBVIOUS
<1>4. PICK bits \in [0 .. 7 -> 0 .. 1] :
        bits = [b \in 0 .. 7 |-> TextBit(text, 8 * (n \div 8) + b - fill)]
  BY <1>3, TextBitType
<1>5. Packed(text, fill)[n \div 8 + 1] = Octet(bits)
  <2>1. n \div 8 + 1 - 1 = n \div 8
    OBVIOUS
  <2> QED
    BY <1>2, <1>4, <2>1 DEF Packed
<1>6. Bit(Octet(bits), n % 8) = bits[n % 8]
  BY <1>2, OctetKeeps
<1>7. bits[n % 8] = TextBit(text, n - fill)
  <2>1. \A b \in 0 .. 7 : bits[b] = TextBit(text, 8 * (n \div 8) + b - fill)
    BY <1>4
  <2>2. bits[n % 8] = TextBit(text, 8 * (n \div 8) + (n % 8) - fill)
    BY <1>2, <2>1
  <2>3. 8 * (n \div 8) + (n % 8) - fill = n - fill
    BY <1>2
  <2> QED
    BY <2>2, <2>3
<1> QED
  BY <1>5, <1>6, <1>7 DEF OctetBit

(* Seven bits of the text are a character of it.                           *)
LEMMA CharacterBits ==
  ASSUME NEW text \in Seq(0 .. 127), NEW i \in 1 .. Len(text), NEW b \in 0 .. 6
  PROVE  TextBit(text, 7 * (i - 1) + b) = Bit(text[i], b)
<1>1. Len(text) \in Nat /\ i \in Nat
  OBVIOUS
<1>2. /\ 7 * (i - 1) + b \in 0 .. 7 * Len(text) - 1
      /\ (7 * (i - 1) + b) \div 7 + 1 = i
      /\ (7 * (i - 1) + b) % 7 = b
  BY <1>1
<1> QED
  BY <1>2 DEF TextBit

(* Eight bits more are one octet more.                                     *)
LEMMA WholeOctets ==
  ASSUME NEW k \in Nat, NEW m \in Nat
  PROVE  /\ m \div 8 \in Nat
         /\ (8 * k + m) \div 8 = k + m \div 8
         /\ (8 * k + m) % 8 = m % 8
OBVIOUS

(* Behind a header, too, the reader finds the bits of the text.            *)
LEMMA ReaderFinds ==
  ASSUME NEW text \in Seq(0 .. 127), NEW hdr \in Seq(Nat),
         NEW fill \in 0 .. 6, NEW skip \in Nat,
         7 * skip = 8 * Len(hdr) + fill,
         NEW i \in 1 .. Len(text), NEW b \in 0 .. 6
  PROVE  OctetBit(hdr \o Packed(text, fill), 7 * (skip + i - 1) + b) = Bit(text[i], b)
<1>1. PICK packed \in Seq(Nat) : packed = Packed(text, fill)
  BY PackedType
<1>2. PICK n \in Nat : n = 7 * (i - 1) + b + fill
  <2>1. i \in Nat \ {0}
    BY ElementType
  <2> QED
    BY <2>1
<1>3. PICK last \in Nat : last = LastOctet(text, fill)
  BY OctetsEnough
<1>4. n \div 8 <= last
  BY <1>2, <1>3, OctetsEnough
<1>5. PICK k \in Nat : k = Len(hdr)
  OBVIOUS
<1>6. 7 * (skip + i - 1) + b = 8 * k + n
  <2>1. i \in Nat \ {0}
    BY ElementType
  <2>2. \A j \in Nat \ {0} : 7 * (skip + j - 1) + b = 7 * skip + (7 * (j - 1) + b)
    OBVIOUS
  <2>3. 7 * skip = 8 * k + fill
    BY <1>5
  <2> QED
    BY <1>2, <2>1, <2>2, <2>3
<1>7. n \div 8 \in Nat /\ (8 * k + n) \div 8 = k + n \div 8 /\ (8 * k + n) % 8 = n % 8
  BY WholeOctets
<1>8. Len(packed) = last + 1
  BY <1>1, <1>3, PackedType
<1>9. (hdr \o packed)[k + n \div 8 + 1] = packed[n \div 8 + 1]
  <2>1. PICK q \in Nat : q = n \div 8
    BY <1>7
  <2>2. q + 1 \in 1 .. Len(packed)
    BY <1>4, <1>8, <2>1
  <2>3. (hdr \o packed)[k + (q + 1)] = packed[q + 1]
    BY <1>5, <2>2
  <2>4. k + (q + 1) = k + q + 1
    OBVIOUS
  <2> QED
    BY <2>1, <2>3, <2>4
<1>10. OctetBit(hdr \o packed, 8 * k + n) = OctetBit(packed, n)
  BY <1>7, <1>9 DEF OctetBit
<1>11. OctetBit(packed, n) = TextBit(text, n - fill)
  BY <1>1, <1>3, <1>4, WrittenBit
<1>12. n - fill = 7 * (i - 1) + b
  BY <1>2
<1> QED
  BY <1>1, <1>6, <1>10, <1>11, <1>12, CharacterBits

(* The reader finds a header where it was put.                             *)
LEMMA ReaderFindsHeader ==
  ASSUME NEW hdr \in Seq(Nat), NEW packed \in Seq(Nat),
         WellFormed(hdr), hdr # <<>>
  PROVE  /\ hdr \o packed # <<>>
         /\ (hdr \o packed)[1] + 1 = Len(hdr)
         /\ Len(hdr \o packed) = Len(hdr) + Len(packed)
         /\ SubSeq(hdr \o packed, 1, Len(hdr)) = hdr
<1>1. Len(hdr) \in Nat /\ Len(hdr) >= 1 /\ Len(packed) \in Nat
  OBVIOUS
<1>2. PICK s \in Seq(Nat) : s = hdr \o packed
  <2>1. hdr \o packed \in Seq(Nat)
    OBVIOUS
  <2> QED
    BY <2>1
<1>3. Len(s) = Len(hdr) + Len(packed) /\ \A i \in 1 .. Len(hdr) : s[i] = hdr[i]
  BY <1>2
<1>4. s # <<>>
  BY <1>1, <1>3
<1>5. s[1] + 1 = Len(hdr)
  BY <1>1, <1>3 DEF WellFormed
<1>6. SubSeq(s, 1, Len(hdr)) = hdr
  BY <1>1, <1>3
<1> QED
  BY <1>2, <1>3, <1>4, <1>5, <1>6

(* A text that fits, with its header, is read as it was written.           *)
THEOREM TextRoundTrip ==
  ASSUME NEW text \in Seq(0 .. 127), NEW hdr \in Seq(Nat),
         WellFormed(hdr),
         3 * Len(hdr) < max_udh_data,
         Len(text) <= max_pdu - UdhSeptets(hdr)
  PROVE  pdu2text(text2pdu(text, hdr), hdr # <<>>)
           = [ok |-> TRUE, udh |-> hdr, message |-> text]
<1>1. PICK fill \in 0 .. 6 : fill = FillBits(hdr)
  BY FillAligns
<1>2. PICK skip \in Nat : skip = UdhSeptets(hdr)
  BY FillAligns
<1>3. 7 * skip = 8 * Len(hdr) + fill
  BY <1>1, <1>2, FillAligns
<1>4. PICK packed \in Seq(Nat) : packed = Packed(text, fill)
  BY PackedType
<1>5. PICK octets \in Seq(Nat) : octets = hdr \o packed
  <2>1. hdr \o packed \in Seq(Nat)
    OBVIOUS
  <2> QED
    BY <2>1
<1>6. PICK n \in Nat : n = Len(text)
  OBVIOUS
<1>7. PICK written : written = [length |-> n + skip, octets |-> octets]
  OBVIOUS
<1>8. text2pdu(text, hdr) = written
  <2>1. Cut(text, max_pdu - skip) = text
    <3>1. max_pdu \in Nat
      BY LimitAssumption
    <3>2. Least(n, max_pdu - skip) = n
      BY <1>2, <1>6, <3>1 DEF Least
    <3>3. SubSeq(text, 1, Len(text)) = text
      OBVIOUS
    <3> QED
      BY <1>6, <3>2, <3>3 DEF Cut
  <2> QED
    BY <1>1, <1>2, <1>4, <1>5, <1>6, <1>7, <2>1 DEF text2pdu
<1>9. Header(written, hdr # <<>>) = hdr
  <2>1. CASE hdr = <<>>
    BY <2>1 DEF Header
  <2>2. CASE hdr # <<>>
    <3>1. octets[1] + 1 = Len(hdr) /\ SubSeq(octets, 1, Len(hdr)) = hdr
      BY <1>5, <2>2, ReaderFindsHeader
    <3>2. SubSeq(written.octets, 1, written.octets[1] + 1) = hdr
      BY <1>7, <3>1
    <3> QED
      BY <2>2, <3>2 DEF Header
  <2> QED
    BY <2>1, <2>2
<1>10. hdr # <<>> => HasHeader(written)
  <2> SUFFICES ASSUME hdr # <<>>
               PROVE  HasHeader(written)
    OBVIOUS
  <2>1. /\ octets # <<>> /\ octets[1] + 1 = Len(hdr)
        /\ Len(octets) = Len(hdr) + Len(packed)
    BY <1>5, ReaderFindsHeader
  <2>2. /\ max_udh_data \in Nat /\ Len(hdr) \in Nat /\ Len(packed) \in Nat
        /\ Len(hdr) >= 1 /\ octets[1] \in Nat
    <3>1. Len(hdr) \in Nat /\ Len(hdr) >= 1 /\ Len(packed) \in Nat
      OBVIOUS
    <3>2. 1 \in 1 .. Len(octets)
      BY <2>1, <3>1
    <3> QED
      BY <3>1, <3>2, LimitAssumption
  <2>3. octets[1] + 1 <= Len(octets) /\ 3 * octets[1] + 3 < max_udh_data
    <3>1. \A first, k, p, l, max \in Nat :
            first + 1 = k /\ l = k + p /\ 3 * k < max => first + 1 <= l /\ 3 * first + 3 < max
      OBVIOUS
    <3>2. Len(octets) \in Nat
      BY ElementType
    <3> QED
      BY <2>1, <2>2, <3>1, <3>2
  <2> QED
    BY <1>7, <2>1, <2>3 DEF HasHeader
<1>11. ~(Len(octets) < (7 * (n + skip) + 7) \div 8)
  <2>1. PICK m \in Nat : m = 7 * n + fill + 7
    OBVIOUS
  <2>2. PICK k \in Nat : k = Len(hdr)
    OBVIOUS
  <2>3. 7 * (n + skip) + 7 = 8 * k + m
    <3>1. 7 * skip = 8 * k + fill
      BY <1>3, <2>2
    <3>2. 7 * (n + skip) + 7 = 7 * n + 7 * skip + 7
      OBVIOUS
    <3> QED
      BY <2>1, <3>1, <3>2
  <2>4. m \div 8 \in Nat /\ (8 * k + m) \div 8 = k + m \div 8
    BY WholeOctets
  <2>5. m \div 8 <= Len(packed)
    BY <1>4, <1>6, <2>1, OctetsEnough, PackedType
  <2>6. Len(octets) = k + Len(packed)
    BY <1>5, <2>2
  <2> QED
    BY <2>3, <2>4, <2>5, <2>6
<1>12. PICK read : read = [i \in 1 .. n |->
                            Septet([b \in 0 .. 6 |-> OctetBit(octets, 7 * (skip + i - 1) + b)])]
  OBVIOUS
<1>13. read = text
  <2>1. ASSUME NEW i \in 1 .. n
        PROVE  read[i] = text[i]
    <3>1. i \in 1 .. Len(text)
      BY <1>6
    <3>2. text[i] \in 0 .. 127
      BY <3>1, ElementType
    <3>3. PICK bits : bits = [b \in 0 .. 6 |-> OctetBit(octets, 7 * (skip + i - 1) + b)]
      OBVIOUS
    <3>4. \A b \in 0 .. 6 : bits[b] = Bit(text[i], b)
      <4> SUFFICES ASSUME NEW b \in 0 .. 6
                   PROVE  bits[b] = Bit(text[i], b)
        OBVIOUS
      <4>1. bits[b] = OctetBit(octets, 7 * (skip + i - 1) + b)
        BY <3>3
      <4>2. OctetBit(hdr \o Packed(text, fill), 7 * (skip + i - 1) + b) = Bit(text[i], b)
        BY <1>3, <3>1, ReaderFinds
      <4> QED
        BY <1>4, <1>5, <4>1, <4>2
    <3>5. Septet(bits) = text[i]
      BY <3>2, <3>4, SeptetOfBits
    <3> QED
      BY <1>12, <3>3, <3>5
  <2>2. text = [i \in 1 .. n |-> text[i]]
    BY <1>6
  <2> QED
    BY <1>12, <2>1, <2>2
<1>14. written.length = n + skip /\ written.octets = octets /\ n + skip - skip = n /\ ~(n + skip < skip)
  BY <1>7
<1>15. [i \in 1 .. written.length - skip |->
          Septet([b \in 0 .. 6 |-> OctetBit(written.octets, 7 * (skip + i - 1) + b)])] = text
  BY <1>12, <1>13, <1>14
<1> QED
  BY <1>2, <1>8, <1>9, <1>10, <1>11, <1>14, <1>15 DEF pdu2text

-----------------------------------------------------------------------------
(* What a message that does not fit, or lost its end, is read as.          *)

(* What is kept of a text is a text, and it fits.                          *)
LEMMA CutType ==
  ASSUME NEW S, NEW text \in Seq(S), NEW limit \in Int
  PROVE  /\ Cut(text, limit) \in Seq(S)
         /\ Len(Cut(text, limit)) <= Len(text)
         /\ Len(text) <= limit => Cut(text, limit) = text
         /\ Len(Cut(text, limit)) >= Len(text) => Cut(text, limit) = text
         /\ 0 <= limit => Len(Cut(text, limit)) <= limit
<1>1. PICK n \in Nat : n = Len(text)
  OBVIOUS
<1>2. PICK least \in Int : least = Least(n, limit)
  BY DEF Least
<1>3. /\ least <= n /\ least <= limit
      /\ n <= limit => least = n
      /\ 0 <= limit => 0 <= least
  BY <1>2 DEF Least
<1>4. PICK cut : cut = SubSeq(text, 1, least)
  OBVIOUS
<1>5. Cut(text, limit) = cut
  BY <1>1, <1>2, <1>4 DEF Cut
<1>6. CASE 0 <= least
  <2>1. cut \in Seq(S) /\ Len(cut) = least
    BY <1>1, <1>3, <1>4, <1>6
  <2>2. least = n => cut = text
    BY <1>1, <1>4
  <2> QED
    BY <1>1, <1>3, <1>5, <2>1, <2>2
<1>7. CASE least < 0
  <2>1. cut = <<>>
    BY <1>4, <1>7
  <2>2. Len(cut) = 0 /\ cut \in Seq(S)
    BY <2>1
  <2>3. n = 0 => cut = text
    BY <1>1, <2>1, EmptySeq
  <2> QED
    BY <1>1, <1>3, <1>5, <1>7, <2>2, <2>3
<1> QED
  BY <1>6, <1>7

(* The octets that are left are as they were.                              *)
LEMMA LeftOctets ==
  ASSUME NEW octets \in Seq(Nat), NEW k \in 0 .. Len(octets)
  PROVE  /\ SubSeq(octets, 1, k) \in Seq(Nat)
         /\ Len(SubSeq(octets, 1, k)) = k
         /\ \A i \in 1 .. k : SubSeq(octets, 1, k)[i] = octets[i]
OBVIOUS

(* A header of which the first octet is left is read, or refused.          *)
LEMMA LeftHeader ==
  ASSUME NEW hdr \in Seq(Nat), NEW s \in Seq(Nat), NEW t \in Seq(Nat),
         NEW k \in 0 .. Len(s),
         s[1] + 1 = Len(hdr), SubSeq(s, 1, Len(hdr)) = hdr,
         t = SubSeq(s, 1, k), t # <<>>, t[1] + 1 <= k
  PROVE  SubSeq(t, 1, t[1] + 1) = hdr
<1>1. Len(t) = k /\ \A i \in 1 .. k : t[i] = s[i]
  BY LeftOctets
<1>2. 1 \in 1 .. k
  BY <1>1
<1>3. t[1] + 1 = Len(hdr) /\ Len(hdr) <= k
  BY <1>1, <1>2
<1>4. SubSeq(t, 1, Len(hdr)) = SubSeq(s, 1, Len(hdr))
  BY <1>3
<1> QED
  BY <1>3, <1>4

(* The n characters behind the first ones, as pdu2text reads them.         *)
TextAt(octets, skip, n) ==
  [i \in 1 .. n |-> Septet([b \in 0 .. 6 |-> OctetBit(octets, 7 * (skip + i - 1) + b)])]

(* Each bit of the text is where the reader of the whole looks for it.     *)
BitsFound(text, hdr, fill, skip) ==
  \A i \in 1 .. Len(text), b \in 0 .. 6, m \in Nat :
    m = 7 * (skip + i - 1) + b => OctetBit(hdr \o Packed(text, fill), m) = Bit(text[i], b)

(* Behind its header, the text is where the reader looks for it.           *)
LEMMA TextFound ==
  ASSUME NEW text \in Seq(0 .. 127), NEW hdr \in Seq(Nat),
         NEW fill \in 0 .. 6, NEW skip \in Nat,
         7 * skip = 8 * Len(hdr) + fill
  PROVE  BitsFound(text, hdr, fill, skip)
<1> SUFFICES ASSUME NEW i \in 1 .. Len(text), NEW b \in 0 .. 6, NEW m \in Nat,
                    m = 7 * (skip + i - 1) + b
             PROVE  OctetBit(hdr \o Packed(text, fill), m) = Bit(text[i], b)
  BY DEF BitsFound
<1> QED
  BY ReaderFinds

(* What is left of a text is all the reader wants: k octets.               *)
EnoughLeft(text, hdr, k, left) ==
  LET octets == hdr \o Packed(text, FillBits(hdr))
  IN  /\ k <= Len(octets)
      /\ left.length = Len(text) + UdhSeptets(hdr)
      /\ left.octets = SubSeq(octets, 1, k)
      /\ hdr # <<>> => HasHeader(left)
      /\ ~(k < (7 * left.length + 7) \div 8)

(* It is read as it was written.                                           *)
LEMMA LeftText ==
  ASSUME NEW text \in Seq(0 .. 127), NEW hdr \in Seq(Nat), WellFormed(hdr),
         NEW k \in Nat, NEW left, EnoughLeft(text, hdr, k, left)
  PROVE  pdu2text(left, hdr # <<>>) = [ok |-> TRUE, udh |-> hdr, message |-> text]
<1>1. PICK n \in Nat : n = Len(text)
  OBVIOUS
<1>2. PICK skip \in Nat : skip = UdhSeptets(hdr)
  BY FillAligns
<1>3. PICK octets \in Seq(Nat) : octets = hdr \o Packed(text, FillBits(hdr))
  <2>1. PICK packed \in Seq(Nat) : packed = Packed(text, FillBits(hdr))
    BY FillAligns, PackedType
  <2>2. hdr \o packed \in Seq(Nat)
    OBVIOUS
  <2> QED
    BY <2>1, <2>2
<1>4. /\ n = Len(text) /\ skip = UdhSeptets(hdr)
      /\ octets = hdr \o Packed(text, FillBits(hdr))
      /\ k <= Len(octets) /\ left.length = n + skip
      /\ left.octets = SubSeq(octets, 1, k)
      /\ hdr # <<>> => HasHeader(left)
      /\ ~(k < (7 * (n + skip) + 7) \div 8)
  BY <1>1, <1>2, <1>3 DEF EnoughLeft
<1>5. k \in 0 .. Len(octets)
  BY <1>4
<1>6. PICK fill \in 0 .. 6 : fill = FillBits(hdr)
  BY FillAligns
<1>7. 7 * skip = 8 * Len(hdr) + fill
  BY <1>6, <1>4, FillAligns
<1>8. PICK packed \in Seq(Nat) : packed = Packed(text, fill)
  BY PackedType
<1>9. octets = hdr \o packed
  BY <1>6, <1>8, <1>4
<1>10. PICK kept \in Seq(Nat) : kept = SubSeq(octets, 1, k)
  BY <1>5, LeftOctets
<1>11. Len(kept) = k /\ \A i \in 1 .. k : kept[i] = octets[i]
  BY <1>10, <1>5, LeftOctets
<1>12. left.length = n + skip /\ left.octets = kept
  BY <1>10, <1>4
<1>13. Header(left, hdr # <<>>) = hdr
  <2>1. ASSUME hdr # <<>>
        PROVE  SubSeq(left.octets, 1, left.octets[1] + 1) = hdr
    <3>1. octets[1] + 1 = Len(hdr) /\ SubSeq(octets, 1, Len(hdr)) = hdr
      BY <1>9, <2>1, ReaderFindsHeader
    <3>2. kept # <<>> /\ kept[1] + 1 <= k
      BY <1>11, <1>12, <1>4, <2>1 DEF HasHeader
    <3>3. SubSeq(kept, 1, kept[1] + 1) = hdr
      BY <1>10, <1>5, <3>1, <3>2, LeftHeader
    <3> QED
      BY <1>12, <3>3
  <2> QED
    BY <2>1 DEF Header
<1>14. TextAt(kept, skip, n) = text
  <2>1. BitsFound(text, hdr, fill, skip)
    BY <1>7, TextFound
  <2>2. ASSUME NEW i \in 1 .. n, NEW b \in 0 .. 6
        PROVE  OctetBit(kept, 7 * (skip + i - 1) + b) = Bit(text[i], b)
    <3>1. PICK m \in Nat : m = 7 * (skip + i - 1) + b
      OBVIOUS
    <3>2. m <= 7 * (n + skip) - 1
      BY <3>1
    <3>3. m \div 8 + 1 \in 1 .. k
      <4>1. \A x, y, z \in Nat : x <= y - 1 /\ ~(z < (y + 7) \div 8) => x \div 8 + 1 \in 1 .. z
        OBVIOUS
      <4>2. 7 * (n + skip) \in Nat
        OBVIOUS
      <4> QED
        BY <1>4, <3>2, <4>1, <4>2
    <3>4. OctetBit(kept, m) = OctetBit(octets, m)
      BY <1>11, <3>3 DEF OctetBit
    <3>5. OctetBit(hdr \o Packed(text, fill), m) = Bit(text[i], b)
      BY <1>4, <2>1, <3>1 DEF BitsFound
    <3> QED
      BY <1>8, <1>9, <3>1, <3>4, <3>5
  <2>3. PICK read : read = [i \in 1 .. n |->
                             Septet([b \in 0 .. 6 |-> OctetBit(kept, 7 * (skip + i - 1) + b)])]
    OBVIOUS
  <2>4. ASSUME NEW i \in 1 .. n
        PROVE  read[i] = text[i]
    <3>1. text[i] \in 0 .. 127
      BY <1>4, ElementType
    <3>2. PICK bits : bits = [b \in 0 .. 6 |-> OctetBit(kept, 7 * (skip + i - 1) + b)]
      OBVIOUS
    <3>3. \A b \in 0 .. 6 : bits[b] = Bit(text[i], b)
      BY <2>2, <3>2
    <3>4. Septet(bits) = text[i]
      BY <3>1, <3>3, SeptetOfBits
    <3> QED
      BY <2>3, <3>2, <3>4
  <2>5. text = [i \in 1 .. n |-> text[i]]
    BY <1>4
  <2>6. read = text
    BY <2>3, <2>4, <2>5
  <2> QED
    BY <2>3, <2>6 DEF TextAt
<1>15. left.length - skip = n /\ ~(left.length < skip)
  BY <1>12
<1>16. pdu2text(left, hdr # <<>>)
         = [ok |-> TRUE, udh |-> hdr, message |-> TextAt(left.octets, skip, left.length - skip)]
  BY <1>11, <1>12, <1>13, <1>15, <1>4 DEF pdu2text, TextAt
<1>17. pdu2text(left, hdr # <<>>) = [ok |-> TRUE, udh |-> hdr, message |-> text]
  BY <1>12, <1>14, <1>15, <1>16
<1> QED
  BY <1>17

(* A text is read as it was written, cut to its limit, or refused.         *)
LEMMA TextNotGarbled ==
  ASSUME NEW whole \in Seq(0 .. 127), NEW hdr \in Seq(Nat), WellFormed(hdr),
         NEW k \in Nat, NEW left
  PROVE  /\ k <= Len(text2pdu(whole, hdr).octets)
         /\ left.length = text2pdu(whole, hdr).length
         /\ left.octets = SubSeq(text2pdu(whole, hdr).octets, 1, k)
         /\ pdu2text(left, hdr # <<>>).ok
         => /\ pdu2text(left, hdr # <<>>).udh = hdr
            /\ pdu2text(left, hdr # <<>>).message = Cut(whole, max_pdu - UdhSeptets(hdr))
<1>1. SUFFICES ASSUME k <= Len(text2pdu(whole, hdr).octets),
                      left.length = text2pdu(whole, hdr).length,
                      left.octets = SubSeq(text2pdu(whole, hdr).octets, 1, k),
                      pdu2text(left, hdr # <<>>).ok
               PROVE  /\ pdu2text(left, hdr # <<>>).udh = hdr
                      /\ pdu2text(left, hdr # <<>>).message
                           = Cut(whole, max_pdu - UdhSeptets(hdr))
  OBVIOUS
<1>2. PICK fill \in 0 .. 6 : fill = FillBits(hdr)
  BY FillAligns
<1>3. PICK skip \in Nat : skip = UdhSeptets(hdr)
  BY FillAligns
<1>4. 7 * skip = 8 * Len(hdr) + fill
  BY <1>2, <1>3, FillAligns
<1>5. PICK text \in Seq(0 .. 127) : text = Cut(whole, max_pdu - UdhSeptets(hdr))
  <2>1. max_pdu - UdhSeptets(hdr) \in Int
    BY <1>3, LimitAssumption
  <2> QED
    BY <2>1, CutType
<1>6. PICK packed \in Seq(Nat) : packed = Packed(text, fill)
  BY PackedType
<1>7. PICK octets \in Seq(Nat) : octets = hdr \o packed
  <2>1. hdr \o packed \in Seq(Nat)
    OBVIOUS
  <2> QED
    BY <2>1
<1>8. PICK n \in Nat : n = Len(text)
  OBVIOUS
<1>9. text2pdu(whole, hdr).length = n + skip /\ text2pdu(whole, hdr).octets = octets
  BY <1>2, <1>3, <1>5, <1>6, <1>7, <1>8 DEF text2pdu
<1>10. k \in 0 .. Len(octets)
  BY <1>1, <1>9
<1>11. PICK kept \in Seq(Nat) : kept = SubSeq(octets, 1, k)
  BY <1>10, LeftOctets
<1>12. Len(kept) = k /\ \A i \in 1 .. k : kept[i] = octets[i]
  BY <1>10, <1>11, LeftOctets
<1>13. left.length = n + skip /\ left.octets = kept
  BY <1>1, <1>9, <1>11
<1>14. /\ hdr # <<>> => HasHeader(left)
       /\ ~(k < (7 * (n + skip) + 7) \div 8)
  <2>1. pdu2text(left, hdr # <<>>) # Refused
    BY <1>1 DEF Refused
  <2> QED
    BY <1>12, <1>13, <2>1 DEF pdu2text
<1>15. pdu2text(left, hdr # <<>>) = [ok |-> TRUE, udh |-> hdr, message |-> text]
  <2>1. octets = hdr \o Packed(text, FillBits(hdr)) /\ left.octets = SubSeq(octets, 1, k)
    BY <1>2, <1>6, <1>7, <1>11, <1>13
  <2>2. k <= Len(octets) /\ left.length = n + skip
    BY <1>10, <1>13
  <2>3. EnoughLeft(text, hdr, k, left)
    BY <1>3, <1>8, <1>14, <2>1, <2>2 DEF EnoughLeft
  <2> QED
    BY <2>3, LeftText
<1> QED
  BY <1>5, <1>15

(* What was put behind a header is found there.                            *)
LEMMA BehindHeader ==
  ASSUME NEW hdr \in Seq(Nat), NEW whole \in Seq(Nat)
  PROVE  SubSeq(hdr \o whole, Len(hdr) + 1, Len(whole) + Len(hdr)) = whole
<1>1. PICK h \in Nat : h = Len(hdr)
  OBVIOUS
<1>2. PICK n \in Nat : n = Len(whole)
  OBVIOUS
<1>3. PICK s \in Seq(Nat) : s = hdr \o whole
  <2>1. hdr \o whole \in Seq(Nat)
    OBVIOUS
  <2> QED
    BY <2>1
<1>4. Len(s) = h + n /\ \A i \in 1 .. n : s[h + i] = whole[i]
  BY <1>1, <1>2, <1>3
<1>5. PICK t \in Seq(Nat) : t = SubSeq(s, h + 1, n + h)
  <2>1. \A i \in h + 1 .. n + h : s[i] \in Nat
    BY <1>4
  <2>2. SubSeq(s, h + 1, n + h) \in Seq(Nat)
    BY <2>1
  <2> QED
    BY <2>2
<1>6. Len(t) = n
  BY <1>5
<1>7. \A i \in 1 .. n : t[i] = s[h + i]
  BY <1>5
<1>8. \A i \in 1 .. n : t[i] = whole[i]
  BY <1>4, <1>7
<1>9. t = whole
  BY <1>2, <1>6, <1>8, SeqEqual
<1> QED
  BY <1>1, <1>2, <1>3, <1>5, <1>9

(* What is copied is read as it was written, or refused: a message that    *)
(* binary2pdu cut announces octets that nobody can find.                   *)
LEMMA BinaryNotGarbled ==
  ASSUME NEW whole \in Seq(Nat), NEW hdr \in Seq(Nat), WellFormed(hdr),
         NEW k \in Nat, NEW left
  PROVE  /\ k <= Len(binary2pdu(whole, hdr).octets)
         /\ left.length = binary2pdu(whole, hdr).length
         /\ left.octets = SubSeq(binary2pdu(whole, hdr).octets, 1, k)
         /\ pdu2binary(left, hdr # <<>>).ok
         => /\ pdu2binary(left, hdr # <<>>).udh = hdr
            /\ pdu2binary(left, hdr # <<>>).message = whole
<1>1. SUFFICES ASSUME k <= Len(binary2pdu(whole, hdr).octets),
                      left.length = binary2pdu(whole, hdr).length,
                      left.octets = SubSeq(binary2pdu(whole, hdr).octets, 1, k),
                      pdu2binary(left, hdr # <<>>).ok
               PROVE  /\ pdu2binary(left, hdr # <<>>).udh = hdr
                      /\ pdu2binary(left, hdr # <<>>).message = whole
  OBVIOUS
<1>2. PICK cut \in Seq(Nat) : cut = Cut(whole, maxsms_binary)
  BY CutType, LimitAssumption
<1>3. PICK h \in Nat : h = Len(hdr)
  OBVIOUS
<1>4. PICK n \in Nat : n = Len(whole)
  OBVIOUS
<1>5. PICK octets \in Seq(Nat) : octets = hdr \o cut
  <2>1. hdr \o cut \in Seq(Nat)
    OBVIOUS
  <2> QED
    BY <2>1
<1>6. binary2pdu(whole, hdr).length = n + h /\ binary2pdu(whole, hdr).octets = octets
  BY <1>2, <1>3, <1>4, <1>5 DEF binary2pdu
<1>7. k \in 0 .. Len(octets)
  BY <1>1, <1>6
<1>8. PICK kept \in Seq(Nat) : kept = SubSeq(octets, 1, k)
  BY <1>7, LeftOctets
<1>9. Len(kept) = k
  BY <1>7, <1>8, LeftOctets
<1>10. left.length = n + h /\ left.octets = kept
  BY <1>1, <1>6, <1>8
<1>11. (hdr # <<>> => HasHeader(left)) /\ ~(k < n + h)
  <2>1. pdu2binary(left, hdr # <<>>) # Refused
    BY <1>1 DEF Refused
  <2> QED
    BY <1>9, <1>10, <2>1 DEF pdu2binary
<1>12. Header(left, hdr # <<>>) = hdr
  <2>1. ASSUME hdr # <<>>
        PROVE  SubSeq(left.octets, 1, left.octets[1] + 1) = hdr
    <3>1. octets[1] + 1 = Len(hdr) /\ SubSeq(octets, 1, Len(hdr)) = hdr
      BY <1>5, <2>1, ReaderFindsHeader
    <3>2. kept # <<>> /\ kept[1] + 1 <= k
      BY <1>9, <1>10, <1>11, <2>1 DEF HasHeader
    <3>3. SubSeq(kept, 1, kept[1] + 1) = hdr
      BY <1>7, <1>8, <3>1, <3>2, LeftHeader
    <3> QED
      BY <1>10, <3>3
  <2> QED
    BY <2>1 DEF Header
<1>13. Len(octets) = h + Len(cut)
  BY <1>3, <1>5
<1>14. cut = whole
  <2>1. Len(cut) >= Len(whole)
    BY <1>4, <1>7, <1>11, <1>13
  <2> QED
    BY <1>2, <2>1, CutType, LimitAssumption
<1>15. kept = octets
  <2>1. k = Len(octets)
    BY <1>4, <1>7, <1>11, <1>13, <1>14
  <2>2. SubSeq(octets, 1, Len(octets)) = octets
    OBVIOUS
  <2> QED
    BY <1>8, <2>1, <2>2
<1>16. SubSeq(octets, h + 1, n + h) = whole
  BY <1>3, <1>4, <1>5, <1>14, BehindHeader
<1>17. ~(n + h < h)
  OBVIOUS
<1>18. pdu2binary(left, hdr # <<>>)
         = [ok |-> TRUE, udh |-> hdr, message |-> SubSeq(kept, h + 1, n + h)]
  BY <1>3, <1>9, <1>10, <1>11, <1>12, <1>17 DEF pdu2binary
<1>19. pdu2binary(left, hdr # <<>>) = [ok |-> TRUE, udh |-> hdr, message |-> whole]
  BY <1>15, <1>16, <1>18
<1> QED
  BY <1>19

(* What fits is read whole: the copy is never refused, either.             *)
LEMMA BinaryRoundTrip ==
  ASSUME NEW whole \in Seq(Nat), NEW hdr \in Seq(Nat), WellFormed(hdr),
         3 * Len(hdr) < max_udh_data, Len(whole) <= maxsms_binary
  PROVE  pdu2binary(binary2pdu(whole, hdr), hdr # <<>>)
           = [ok |-> TRUE, udh |-> hdr, message |-> whole]
<1>1. Cut(whole, maxsms_binary) = whole
  BY CutType, LimitAssumption
<1>2. PICK h \in Nat : h = Len(hdr)
  OBVIOUS
<1>3. PICK n \in Nat : n = Len(whole)
  OBVIOUS
<1>4. PICK octets \in Seq(Nat) : octets = hdr \o whole
  <2>1. hdr \o whole \in Seq(Nat)
    OBVIOUS
  <2> QED
    BY <2>1
<1>5. PICK w : w = [length |-> n + h, octets |-> octets]
  OBVIOUS
<1>6. binary2pdu(whole, hdr) = w
  BY <1>1, <1>2, <1>3, <1>4, <1>5 DEF binary2pdu
<1>7. w.length = n + h /\ w.octets = octets
  BY <1>5
<1>8. Len(octets) = h + n
  BY <1>2, <1>3, <1>4
<1>9. hdr # <<>> => HasHeader(w) /\ SubSeq(w.octets, 1, w.octets[1] + 1) = hdr
  <2> SUFFICES ASSUME hdr # <<>>
               PROVE  HasHeader(w) /\ SubSeq(w.octets, 1, w.octets[1] + 1) = hdr
    OBVIOUS
  <2>1. /\ octets # <<>> /\ octets[1] + 1 = h
        /\ SubSeq(octets, 1, h) = hdr
    BY <1>2, <1>4, ReaderFindsHeader
  <2>2. 1 \in 1 .. Len(octets)
    BY <2>1, EmptySeq
  <2>3. octets[1] \in Nat
    BY <2>2, ElementType
  <2>4. octets[1] + 1 <= Len(octets) /\ 3 * octets[1] + 3 < max_udh_data
    <3>1. 3 * h < max_udh_data /\ max_udh_data \in Nat
      BY <1>2, LimitAssumption
    <3> QED
      BY <1>8, <2>1, <2>3, <3>1
  <2> QED
    BY <1>7, <2>1, <2>4 DEF HasHeader
<1>10. Header(w, hdr # <<>>) = hdr
  BY <1>9 DEF Header
<1>11. SubSeq(octets, h + 1, n + h) = whole
  BY <1>2, <1>3, <1>4, BehindHeader
<1>12. ~(Len(octets) < n + h) /\ ~(n + h < h)
  BY <1>8
<1> QED
  BY <1>2, <1>6, <1>7, <1>9, <1>10, <1>11, <1>12 DEF pdu2binary

-----------------------------------------------------------------------------
(* The run.                                                                *)

(* What is left of a user data is what was written, but for its end.       *)
Begun ==
  \E k \in Nat :
    /\ k <= Len(Generate(gsm, message, udh).octets)
    /\ ud = [length |-> Generate(gsm, message, udh).length,
             octets |-> SubSeq(Generate(gsm, message, udh).octets, 1, k)]

Inputs ==
  /\ gsm \in BOOLEAN
  /\ udh \in Seq(Nat) /\ WellFormed(udh)
  /\ message \in Seq(Characters)

IInv == Inputs /\ (ud = NotWritten \/ Begun)

(* The headers of the run have the form pdu2text expects.                  *)
LEMMA HeadersFormed ==
  ASSUME NEW hdr \in Headers
  PROVE  hdr \in Seq(Nat) /\ WellFormed(hdr)
<1>1. CASE hdr = <<>>
  BY <1>1 DEF WellFormed
<1>2. CASE hdr # <<>>
  <2>1. PICK n \in 1 .. MaxHeader : hdr = [i \in 1 .. n |-> IF i = 1 THEN n - 1 ELSE 200 + i]
    BY <1>2 DEF Headers
  <2>2. n \in Nat \ {0}
    BY <2>1, HeaderAssumption
  <2>3. hdr \in [1 .. n -> Nat]
    BY <2>1, <2>2
  <2>4. hdr \in Seq(Nat) /\ Len(hdr) = n
    BY <2>2, <2>3
  <2>5. hdr[1] = n - 1
    BY <2>1, <2>2
  <2> QED
    BY <2>2, <2>4, <2>5 DEF WellFormed
<1> QED
  BY <1>1, <1>2

(* A function on the first n numbers is a sequence.                        *)
LEMMA IsSequence ==
  ASSUME NEW S, NEW n \in Nat, NEW f \in [1 .. n -> S]
  PROVE  f \in Seq(S)
OBVIOUS

(* A message is one of seven bits and of octets.                           *)
LEMMA MessageType ==
  ASSUME NEW text \in Seq(Characters)
  PROVE  text \in Seq(0 .. 127) /\ text \in Seq(Nat)
<1>1. \A i \in 1 .. Len(text) : text[i] \in 0 .. 127 /\ text[i] \in Nat
  <2>1. \A i \in 1 .. Len(text) : text[i] \in 0 .. 127
    BY ElementType, CharacterAssumption
  <2>2. \A c \in 0 .. 127 : c \in Nat
    OBVIOUS
  <2> QED
    BY <2>1, <2>2
<1>2. PICK n \in Nat : n = Len(text) /\ text = [i \in 1 .. n |-> text[i]]
  OBVIOUS
<1>3. text \in Seq(0 .. 127)
  <2>1. text \in [1 .. n -> 0 .. 127]
    BY <1>1, <1>2
  <2> QED
    BY <2>1, IsSequence
<1>4. text \in Seq(Nat)
  <2>1. text \in [1 .. n -> Nat]
    BY <1>1, <1>2
  <2> QED
    BY <1>2, <2>1
<1> QED
  BY <1>3, <1>4

(* What is written has a length and octets.                                *)
LEMMA WrittenType ==
  ASSUME NEW alphabet \in BOOLEAN, NEW text \in Seq(Characters), NEW hdr \in Seq(Nat)
  PROVE  /\ Generate(alphabet, text, hdr).octets \in Seq(Nat)
         /\ Generate(alphabet, text, hdr)
              = [length |-> Generate(alphabet, text, hdr).length,
                 octets |-> Generate(alphabet, text, hdr).octets]
<1>1. text \in Seq(0 .. 127) /\ text \in Seq(Nat)
  BY MessageType
<1>2. CASE alphabet
  <2>1. PICK fill \in 0 .. 6 : fill = FillBits(hdr)
    BY FillAligns
  <2>2. PICK cut \in Seq(0 .. 127) : cut = Cut(text, max_pdu - UdhSeptets(hdr))
    <3>1. max_pdu - UdhSeptets(hdr) \in Int
      BY FillAligns, LimitAssumption
    <3> QED
      BY <1>1, <3>1, CutType
  <2>3. PICK packed \in Seq(Nat) : packed = Packed(cut, fill)
    BY PackedType
  <2>4. Generate(alphabet, text, hdr)
          = [length |-> Len(cut) + UdhSeptets(hdr), octets |-> hdr \o packed]
    BY <1>2, <2>1, <2>2, <2>3 DEF Generate, text2pdu
  <2>5. hdr \o packed \in Seq(Nat)
    OBVIOUS
  <2> QED
    BY <2>4, <2>5
<1>3. CASE ~alphabet
  <2>1. PICK cut \in Seq(Nat) : cut = Cut(text, maxsms_binary)
    BY <1>1, CutType, LimitAssumption
  <2>2. Generate(alphabet, text, hdr)
          = [length |-> Len(text) + Len(hdr), octets |-> hdr \o cut]
    BY <1>3, <2>1 DEF Generate, binary2pdu
  <2>3. hdr \o cut \in Seq(Nat)
    OBVIOUS
  <2> QED
    BY <2>2, <2>3
<1> QED
  BY <1>2, <1>3

(* A user data is written whole and loses its last octets.                 *)
LEMMA Kept == Spec => []IInv
<1>1. Init => IInv
  <2> SUFFICES ASSUME Init
               PROVE  IInv
    OBVIOUS
  <2>1. udh \in Headers
    BY DEF Init
  <2> QED
    BY <2>1, HeadersFormed DEF Init, IInv, Inputs
<1>2. IInv /\ [Next]_vars => IInv'
  <2> SUFFICES ASSUME IInv, [Next]_vars
               PROVE  IInv'
    OBVIOUS
  <2>1. CASE Compose
    <3>1. PICK c \in Characters : message' = Append(message, c)
      BY <2>1 DEF Compose
    <3>2. message' \in Seq(Characters)
      BY <3>1 DEF IInv, Inputs
    <3> QED
      BY <2>1, <3>2 DEF Compose, IInv, Inputs, NotWritten
  <2>2. CASE Write
    <3>1. gsm' = gsm /\ message' = message /\ udh' = udh
      BY <2>2 DEF Write
    <3>2. PICK w : w = Generate(gsm, message, udh)
      OBVIOUS
    <3>3. w.octets \in Seq(Nat) /\ w = [length |-> w.length, octets |-> w.octets]
      BY <3>2, WrittenType DEF IInv, Inputs
    <3>4. PICK k \in Nat : k <= Len(w.octets) /\ SubSeq(w.octets, 1, k) = w.octets
      <4>1. SubSeq(w.octets, 1, Len(w.octets)) = w.octets /\ Len(w.octets) \in Nat
        BY <3>3
      <4> QED
        BY <4>1
    <3>5. ud' = [length |-> w.length, octets |-> SubSeq(w.octets, 1, k)]
      BY <2>2, <3>2, <3>3, <3>4 DEF Write
    <3>6. Begun'
      BY <3>1, <3>2, <3>4, <3>5 DEF Begun
    <3> QED
      BY <3>1, <3>6 DEF IInv, Inputs
  <2>3. CASE LoseOctet
    <3>1. gsm' = gsm /\ message' = message /\ udh' = udh
      BY <2>3 DEF LoseOctet
    <3>2. PICK w : w = Generate(gsm, message, udh)
      OBVIOUS
    <3>3. w.octets \in Seq(Nat)
      BY <3>2, WrittenType DEF IInv, Inputs
    <3>4. PICK k \in Nat : /\ k <= Len(w.octets)
                           /\ ud = [length |-> w.length, octets |-> SubSeq(w.octets, 1, k)]
      BY <2>3, <3>2 DEF IInv, Begun, LoseOctet
    <3>5. PICK kept \in Seq(Nat) : kept = SubSeq(w.octets, 1, k)
      <4>1. k \in 0 .. Len(w.octets)
        BY <3>3, <3>4
      <4> QED
        BY <3>3, <4>1, LeftOctets
    <3>6. Len(kept) = k
      <4>1. k \in 0 .. Len(w.octets)
        BY <3>3, <3>4
      <4> QED
        BY <3>3, <3>5, <4>1, LeftOctets
    <3>7. k - 1 \in Nat /\ k - 1 <= Len(w.octets)
      BY <2>3, <3>3, <3>4, <3>5, <3>6, EmptySeq DEF LoseOctet
    <3>8. SubSeq(kept, 1, k - 1) = SubSeq(w.octets, 1, k - 1)
      BY <3>3, <3>4, <3>5, <3>7
    <3>9. ud' = [length |-> w.length, octets |-> SubSeq(w.octets, 1, k - 1)]
      BY <2>3, <3>4, <3>5, <3>6, <3>8 DEF LoseOctet
    <3>10. Begun'
      BY <3>1, <3>2, <3>7, <3>9 DEF Begun
    <3> QED
      BY <3>1, <3>10 DEF IInv, Inputs
  <2>4. CASE UNCHANGED vars
    BY <2>4 DEF vars, IInv, Inputs, Begun
  <2> QED
    BY <2>1, <2>2, <2>3, <2>4 DEF Next
<1> QED
  BY <1>1, <1>2, PTL DEF Spec

(* A message that fits is read as it was written, and so is its header     *)
(* (text2pdu and pdu2text, binary2pdu and pdu2binary).                     *)
THEOREM RoundTripHolds == Spec => []RoundTrip
<1>1. IInv => RoundTrip
  <2> SUFFICES ASSUME IInv, Whole, Fits
               PROVE  Read = [ok |-> TRUE, udh |-> udh, message |-> message]
    BY DEF RoundTrip
  <2>1. message \in Seq(0 .. 127) /\ message \in Seq(Nat) /\ udh \in Seq(Nat) /\ WellFormed(udh)
    BY MessageType DEF IInv, Inputs
  <2>2. CASE gsm
    <3>1. pdu2text(text2pdu(message, udh), udh # <<>>)
            = [ok |-> TRUE, udh |-> udh, message |-> message]
      BY <2>1, <2>2, TextRoundTrip DEF Fits
    <3> QED
      BY <2>2, <3>1 DEF Read, Whole, ParseUserData, Generate
  <2>3. CASE ~gsm
    <3>1. pdu2binary(binary2pdu(message, udh), udh # <<>>)
            = [ok |-> TRUE, udh |-> udh, message |-> message]
      BY <2>1, <2>3, BinaryRoundTrip DEF Fits
    <3> QED
      BY <2>3, <3>1 DEF Read, Whole, ParseUserData, Generate
  <2> QED
    BY <2>2, <2>3
<1> QED
  BY <1>1, Kept, PTL

(* A user data that lost its end, or whose message was too long, is        *)
(* refused by PDU::parse or read up to the limit of the format.            *)
THEOREM NeverGarbledHolds == Spec => []NeverGarbled
<1>1. IInv => NeverGarbled
  <2> SUFFICES ASSUME IInv, ud # NotWritten, Read.ok
               PROVE  /\ Read.udh = udh
                      /\ Read.message = IF gsm THEN Cut(message, max_pdu - UdhSeptets(udh))
                                        ELSE message
    BY DEF NeverGarbled
  <2>1. message \in Seq(0 .. 127) /\ message \in Seq(Nat) /\ udh \in Seq(Nat) /\ WellFormed(udh)
    BY MessageType DEF IInv, Inputs
  <2>2. PICK k \in Nat :
          /\ k <= Len(Generate(gsm, message, udh).octets)
          /\ ud = [length |-> Generate(gsm, message, udh).length,
                   octets |-> SubSeq(Generate(gsm, message, udh).octets, 1, k)]
    BY DEF IInv, Begun
  <2>3. /\ ud.length = Generate(gsm, message, udh).length
        /\ ud.octets = SubSeq(Generate(gsm, message, udh).octets, 1, k)
    BY <2>2
  <2>4. CASE gsm
    <3>1. Generate(gsm, message, udh) = text2pdu(message, udh) /\ Read = pdu2text(ud, udh # <<>>)
      BY <2>4 DEF Generate, Read, ParseUserData
    <3>2. /\ k <= Len(text2pdu(message, udh).octets)
          /\ ud.length = text2pdu(message, udh).length
          /\ ud.octets = SubSeq(text2pdu(message, udh).octets, 1, k)
          /\ pdu2text(ud, udh # <<>>).ok
      BY <2>2, <2>3, <3>1
    <3>3. /\ pdu2text(ud, udh # <<>>).udh = udh
          /\ pdu2text(ud, udh # <<>>).message = Cut(message, max_pdu - UdhSeptets(udh))
      BY <2>1, <3>2, TextNotGarbled
    <3> QED
      BY <2>4, <3>1, <3>3
  <2>5. CASE ~gsm
    <3>1. Generate(gsm, message, udh) = binary2pdu(message, udh) /\ Read = pdu2binary(ud, udh # <<>>)
      BY <2>5 DEF Generate, Read, ParseUserData
    <3>2. /\ k <= Len(binary2pdu(message, udh).octets)
          /\ ud.length = binary2pdu(message, udh).length
          /\ ud.octets = SubSeq(binary2pdu(message, udh).octets, 1, k)
          /\ pdu2binary(ud, udh # <<>>).ok
      BY <2>2, <2>3, <3>1
    <3>3. /\ pdu2binary(ud, udh # <<>>).udh = udh
          /\ pdu2binary(ud, udh # <<>>).message = message
      BY <2>1, <3>2, BinaryNotGarbled
    <3> QED
      BY <2>5, <3>1, <3>3
  <2> QED
    BY <2>4, <2>5
<1> QED
  BY <1>1, Kept, PTL

-----------------------------------------------------------------------------
(* Induction.  A fold of the community modules is a recursive function     *)
(* over sets of places, chosen with CHOOSE.  That it is defined is shown   *)
(* by induction over the places, from the least number that fails.         *)

(* Of some numbers one is the least. *)
LEMMA LeastNumber ==
  ASSUME NEW T, T \subseteq Nat, T # {}
  PROVE  \E x \in T : \A y \in T : ~ (y < x)
<1> DEFINE R == OpToRel(<, Nat)
<1>1. IsWellFoundedOn(R, Nat)
  BY NatLessThanWellFounded
<1>2. \A x, y \in Nat : y < x => <<y, x>> \in R
  BY DEF OpToRel
<1> HIDE DEF R
<1>3. \E x \in T : \A y \in T : ~ (<<y, x>> \in R)
  BY <1>1, WFMin
<1> QED
  BY <1>2, <1>3

(* Induction, over the numbers that have a property. *)
LEMMA SetInduction ==
  ASSUME NEW T, 0 \in T, \A n \in Nat : n \in T => n + 1 \in T
  PROVE  \A n \in Nat : n \in T
<1> SUFFICES ASSUME NEW n \in Nat, n \notin T PROVE FALSE
  OBVIOUS
<1> DEFINE B == {k \in Nat : k \notin T}
<1>1. PICK x \in B : \A y \in B : ~ (y < x)
  BY LeastNumber
<1>2. x # 0 /\ x \in Nat
  OBVIOUS
<1>3. x - 1 \in Nat /\ x - 1 \notin B
  BY <1>1, <1>2
<1>4. x - 1 \in T
  BY <1>3
<1>5. x \in T
  BY <1>3, <1>4
<1> QED
  BY <1>5

(* A set of places has a last one,                                        *)
LEMMA MaxOf ==
  ASSUME NEW m \in Nat, NEW s \in SUBSET (1 .. m), s # {}
  PROVE  Max(s) \in s /\ \A y \in s : Max(s) >= y
<1> DEFINE T == {k \in Nat : \A y \in s : k >= y}
<1>1. m \in T
  OBVIOUS
<1>2. PICK x \in T : \A y \in T : ~ (y < x)
  BY <1>1, LeastNumber
<1>3. x \in s
  <2> SUFFICES ASSUME x \notin s PROVE FALSE
    OBVIOUS
  <2>1. x # 0
    <3>1. PICK y \in s : y \in 1 .. m
      OBVIOUS
    <3>2. x >= y /\ y >= 1
      BY <1>2, <3>1
    <3> QED
      BY <3>2
  <2>2. x - 1 \in T
    BY <1>2, <2>1
  <2> QED
    BY <1>2, <2>2
<1>4. \E z \in s : \A y \in s : z >= y
  BY <1>2, <1>3
<1> QED
  BY <1>4 DEF Max

(* which is the one behind all others.                                    *)
LEMMA MaxIs ==
  ASSUME NEW m \in Nat, NEW s \in SUBSET (1 .. m), NEW x \in s, \A y \in s : x >= y
  PROVE  Max(s) = x
<1>1. Max(s) \in s /\ \A y \in s : Max(s) >= y
  BY MaxOf
<1>2. Max(s) \in 1 .. m /\ x \in 1 .. m
  BY <1>1
<1>3. Max(s) >= x /\ x >= Max(s)
  BY <1>1
<1> QED
  BY <1>2, <1>3

(* A fold over the places of a sequence is defined, whatever its step h. *)
FoldOf(it, n, base, h) ==
  \A s \in SUBSET (1 .. n) :
     it[s] = IF s = {} THEN base ELSE h[<<Max(s), it[s \ {Max(s)}]>>]

HasFold(m, A, base, h) == \E it \in [SUBSET (1 .. m) -> A] : FoldOf(it, m, base, h)

(* The fold is defined: by induction over the places it covers.            *)
LEMMA FoldDefined ==
  ASSUME NEW n \in Nat, NEW A, NEW base \in A, NEW h \in [(1 .. n) \X A -> A]
  PROVE  HasFold(n, A, base, h)
<1> DEFINE T == {m \in Nat : m <= n => HasFold(m, A, base, h)}
<1>1. 0 \in T
  <2>1. SUBSET (1 .. 0) = {{}}
    OBVIOUS
  <2>2. PICK it : it = [s \in SUBSET (1 .. 0) |-> base]
    OBVIOUS
  <2>3. it \in [SUBSET (1 .. 0) -> A] /\ FoldOf(it, 0, base, h)
    BY <2>1, <2>2 DEF FoldOf
  <2> QED
    BY <2>3 DEF HasFold
<1>2. ASSUME NEW m \in Nat, m \in T PROVE m + 1 \in T
  <2> SUFFICES ASSUME m + 1 <= n
               PROVE  HasFold(m + 1, A, base, h)
    OBVIOUS
  <2>1. PICK old \in [SUBSET (1 .. m) -> A] : FoldOf(old, m, base, h)
    <3>1. HasFold(m, A, base, h)
      BY <1>2
    <3> QED
      BY <3>1 DEF HasFold
  <2>2. PICK it : it = [s \in SUBSET (1 .. m + 1) |->
                          IF m + 1 \in s THEN h[<<m + 1, old[s \ {m + 1}]>>] ELSE old[s]]
    OBVIOUS
  <2>3. \A s \in SUBSET (1 .. m + 1) : s \ {m + 1} \in SUBSET (1 .. m)
    OBVIOUS
  <2>4. it \in [SUBSET (1 .. m + 1) -> A]
    <3>1. ASSUME NEW s \in SUBSET (1 .. m + 1)
          PROVE  (IF m + 1 \in s THEN h[<<m + 1, old[s \ {m + 1}]>>] ELSE old[s]) \in A
      <4>1. CASE m + 1 \in s
        <5>1. old[s \ {m + 1}] \in A
          BY <2>3
        <5>2. m + 1 \in 1 .. n
          OBVIOUS
        <5> QED
          BY <4>1, <5>1, <5>2
      <4>2. CASE m + 1 \notin s
        <5>1. s \in SUBSET (1 .. m)
          BY <4>2, <2>3
        <5> QED
          BY <4>2, <5>1
      <4> QED
        BY <4>1, <4>2
    <3> QED
      BY <2>2, <3>1
  <2>5. ASSUME NEW s \in SUBSET (1 .. m + 1)
        PROVE  it[s] = IF s = {} THEN base ELSE h[<<Max(s), it[s \ {Max(s)}]>>]
    <3>1. CASE m + 1 \in s
      <4>1. Max(s) = m + 1
        <5>1. m + 1 \in Nat /\ \A y \in s : m + 1 >= y
          OBVIOUS
        <5> QED
          BY <3>1, <5>1, MaxIs
      <4>2. s \ {m + 1} \in SUBSET (1 .. m) /\ s \ {m + 1} \in SUBSET (1 .. m + 1)
        BY <2>3
      <4>3. it[s \ {m + 1}] = old[s \ {m + 1}]
        BY <2>2, <4>2
      <4> QED
        BY <2>2, <3>1, <4>1, <4>3
    <3>2. CASE m + 1 \notin s
      <4>1. s \in SUBSET (1 .. m)
        BY <3>2, <2>3
      <4>2. it[s] = old[s]
        BY <2>2, <3>2
      <4>3. it[s \ {Max(s)}] = old[s \ {Max(s)}]
        <5>1. m + 1 \notin s \ {Max(s)} /\ s \ {Max(s)} \in SUBSET (1 .. m + 1)
          BY <3>2
        <5> QED
          BY <2>2, <5>1
      <4> QED
        BY <2>1, <4>1, <4>2, <4>3 DEF FoldOf
    <3> QED
      BY <3>1, <3>2
  <2> QED
    BY <2>4, <2>5 DEF FoldOf, HasFold
<1> HIDE DEF T
<1>3. n \in T
  BY <1>1, <1>2, SetInduction
<1> QED
  BY <1>3 DEF T

(* A fold over the first k + 1 places takes place k + 1 last.              *)
LEMMA MaxUpTo ==
  ASSUME NEW k \in Nat
  PROVE  Max(1 .. k + 1) = k + 1 /\ (1 .. k + 1) \ {k + 1} = 1 .. k
<1>1. k + 1 \in Nat /\ k + 1 \in 1 .. k + 1 /\ \A y \in 1 .. k + 1 : k + 1 >= y
  OBVIOUS
<1>2. 1 .. k + 1 \in SUBSET (1 .. k + 1)
  OBVIOUS
<1>3. Max(1 .. k + 1) = k + 1
  BY <1>1, <1>2, MaxIs
<1>4. (1 .. k + 1) \ {k + 1} = 1 .. k
  OBVIOUS
<1> QED
  BY <1>3, <1>4

(* The states of the encoder.                                              *)
EncodeStates == [s : 0 .. 7, out : Seq(Nat)]
EncodeBegin == [s |-> 0, out |-> <<>>]

(* The powers of two by which characters are shifted.                      *)
LEMMA Powers == /\ 2^0 = 1 /\ 2^1 = 2 /\ 2^2 = 4 /\ 2^3 = 8
                /\ 2^4 = 16 /\ 2^5 = 32 /\ 2^6 = 64 /\ 2^7 = 128
OBVIOUS

(* They are numbers by which one may divide.                               *)
LEMMA PowerType == \A s \in 0 .. 7 : 2^s \in Nat \ {0}
<1> SUFFICES ASSUME NEW s \in 0 .. 7 PROVE 2^s \in Nat \ {0}
  OBVIOUS
<1>1. s = 0 \/ s = 1 \/ s = 2 \/ s = 3 \/ s = 4 \/ s = 5 \/ s = 6 \/ s = 7
  OBVIOUS
<1>2. CASE s = 0
  <2>1. 2^s = 1
    BY <1>2, Powers
  <2> QED
    BY <2>1
<1>3. CASE s = 1
  <2>1. 2^s = 2
    BY <1>3, Powers
  <2> QED
    BY <2>1
<1>4. CASE s = 2
  <2>1. 2^s = 4
    BY <1>4, Powers
  <2> QED
    BY <2>1
<1>5. CASE s = 3
  <2>1. 2^s = 8
    BY <1>5, Powers
  <2> QED
    BY <2>1
<1>6. CASE s = 4
  <2>1. 2^s = 16
    BY <1>6, Powers
  <2> QED
    BY <2>1
<1>7. CASE s = 5
  <2>1. 2^s = 32
    BY <1>7, Powers
  <2> QED
    BY <2>1
<1>8. CASE s = 6
  <2>1. 2^s = 64
    BY <1>8, Powers
  <2> QED
    BY <2>1
<1>9. CASE s = 7
  <2>1. 2^s = 128
    BY <1>9, Powers
  <2> QED
    BY <2>1
<1> QED
  BY <1>1, <1>2, <1>3, <1>4, <1>5, <1>6, <1>7, <1>8, <1>9

(* Characters remain numbers when they are shifted.                        *)
LEMMA ShiftType ==
  ASSUME NEW c \in Nat, NEW s \in 0 .. 7
  PROVE  Left(c, s) \in Nat /\ Right(c, s) \in Nat
<1>1. PICK p \in Nat \ {0} : p = 2^s
  BY PowerType
<1>2. c * p \in Nat
  OBVIOUS
<1>3. (c * p) % 256 \in Nat
  BY <1>2
<1>4. c \div p \in Nat
  OBVIOUS
<1> QED
  BY <1>1, <1>3, <1>4 DEF Left, Right

(* A step of the encoder goes from state to state,                         *)
LEMMA EncodeType ==
  ASSUME NEW text \in Seq(0 .. 127), NEW n \in Nat, n + 1 = Len(text),
         NEW i \in 1 .. n, NEW a \in EncodeStates
  PROVE  EncodeStep(text, a, i) \in EncodeStates
<1>1. PICK s \in 0 .. 7, out \in Seq(Nat) : a = [s |-> s, out |-> out]
  BY DEF EncodeStates
<1>2. CASE s = 7
  BY <1>1, <1>2 DEF EncodeStep, EncodeStates
<1>3. CASE s # 7
  <2>1. text[i] \in Nat /\ text[i + 1] \in Nat
    <3>1. i \in 1 .. Len(text) /\ i + 1 \in 1 .. Len(text)
      OBVIOUS
    <3>2. text[i] \in 0 .. 127 /\ text[i + 1] \in 0 .. 127
      BY <3>1, ElementType
    <3>3. \A c \in 0 .. 127 : c \in Nat
      OBVIOUS
    <3> QED
      BY <3>2, <3>3
  <2>2. 7 - s \in 0 .. 7
    OBVIOUS
  <2>3. PICK x \in Nat : x = Right(text[i], s) + Left(text[i + 1], 7 - s)
    <3>1. PICK p \in Nat : p = Right(text[i], s)
      BY <2>1, ShiftType
    <3>2. PICK q \in Nat : q = Left(text[i + 1], 7 - s)
      BY <2>1, <2>2, ShiftType
    <3> QED
      BY <3>1, <3>2
  <2>4. EncodeStep(text, a, i) = [s |-> s + 1, out |-> Append(out, x)]
    BY <1>1, <1>3, <2>3 DEF EncodeStep
  <2> QED
    BY <1>3, <2>4 DEF EncodeStates
<1> QED
  BY <1>2, <1>3

(* and the encoder takes its steps one by one, from the first character.   *)
LEMMA EncodeFold ==
  ASSUME NEW text \in Seq(0 .. 127), NEW n \in Nat, n + 1 = Len(text)
  PROVE  \E g : /\ g[0] = EncodeBegin
                /\ \A k \in 0 .. n - 1 : g[k + 1] = EncodeStep(text, g[k], k + 1)
                /\ char_to_hexstr_7bit(text) = Append(g[n].out, Right(text[n + 1], g[n].s))
<1> DEFINE Eq(it) == it = [s \in SUBSET (1 .. n) |->
                             IF s = {} THEN EncodeBegin
                             ELSE EncodeStep(text, it[s \ {Max(s)}], [i \in 1 .. n |-> i][Max(s)])]
<1> DEFINE chosen == CHOOSE it : Eq(it)
<1>1. PICK cut : cut = SubSeq(text, 1, n)
  OBVIOUS
<1>2. DOMAIN cut = 1 .. n
  BY <1>1
<1>3. FoldLeftDomain(LAMBDA a, i : EncodeStep(text, a, i), [s |-> 0, out |-> <<>>], cut)
        = chosen[1 .. n]
  <2>1. DOMAIN [i \in DOMAIN cut |-> i] = 1 .. n
    BY <1>2
  <2> QED
    BY <1>2, <2>1 DEF FoldLeftDomain, FoldLeft, MapThenFoldSet, EncodeBegin
<1>4. \E it : Eq(it)
  <2>1. PICK h : h = [p \in (1 .. n) \X EncodeStates |-> EncodeStep(text, p[2], p[1])]
    OBVIOUS
  <2>2. h \in [(1 .. n) \X EncodeStates -> EncodeStates]
    BY <2>1, EncodeType
  <2>3. EncodeBegin \in EncodeStates
    BY DEF EncodeBegin, EncodeStates
  <2>4. PICK it \in [SUBSET (1 .. n) -> EncodeStates] : FoldOf(it, n, EncodeBegin, h)
    BY <2>2, <2>3, FoldDefined DEF HasFold
  <2>5. ASSUME NEW s \in SUBSET (1 .. n), s # {}
        PROVE  it[s] = EncodeStep(text, it[s \ {Max(s)}], [i \in 1 .. n |-> i][Max(s)])
    <3>1. Max(s) \in 1 .. n
      BY <2>5, MaxOf
    <3>2. it[s \ {Max(s)}] \in EncodeStates
      OBVIOUS
    <3>3. it[s] = h[<<Max(s), it[s \ {Max(s)}]>>]
      BY <2>4, <2>5 DEF FoldOf
    <3>4. <<Max(s), it[s \ {Max(s)}]>> \in (1 .. n) \X EncodeStates
      BY <3>1, <3>2
    <3> QED
      BY <2>1, <3>1, <3>3, <3>4
  <2>6. it[{}] = EncodeBegin
    BY <2>4 DEF FoldOf
  <2>7. Eq(it)
    BY <2>5, <2>6
  <2> QED
    BY <2>7
<1>5. Eq(chosen)
  BY <1>4
<1> HIDE DEF chosen
<1>6. chosen[1 .. 0] = EncodeBegin
  <2>1. 1 .. 0 = {} /\ {} \in SUBSET (1 .. n)
    OBVIOUS
  <2> QED
    BY <1>5, <2>1
<1>7. ASSUME NEW k \in 0 .. n - 1
      PROVE  chosen[1 .. k + 1] = EncodeStep(text, chosen[1 .. k], k + 1)
  <2>1. k \in Nat /\ k + 1 <= n
    OBVIOUS
  <2>2. k + 1 \in 1 .. n
    BY <2>1
  <2>3. 1 .. k + 1 \in SUBSET (1 .. n)
    BY <2>1
  <2>4. 1 .. k + 1 # {}
    <3>1. 1 \in 1 .. k + 1
      BY <2>1
    <3> QED
      BY <3>1
  <2>5. Max(1 .. k + 1) = k + 1 /\ (1 .. k + 1) \ {k + 1} = 1 .. k
    BY <2>1, MaxUpTo
  <2>6. chosen[1 .. k + 1]
          = EncodeStep(text, chosen[(1 .. k + 1) \ {k + 1}], [i \in 1 .. n |-> i][k + 1])
    BY <1>5, <2>3, <2>4, <2>5
  <2> QED
    BY <2>2, <2>5, <2>6
<1>8. PICK g : g = [k \in 0 .. n |-> chosen[1 .. k]]
  OBVIOUS
<1>9. char_to_hexstr_7bit(text) = Append(chosen[1 .. n].out, Right(text[n + 1], chosen[1 .. n].s))
  <2>1. Len(text) = n + 1 /\ n + 1 - 1 = n
    OBVIOUS
  <2>2. cut = SubSeq(text, 1, Len(text) - 1)
    BY <1>1, <2>1
  <2>3. PICK a : a = FoldLeftDomain(LAMBDA b, i : EncodeStep(text, b, i),
                                    [s |-> 0, out |-> <<>>], cut)
    OBVIOUS
  <2>4. a = chosen[1 .. n]
    BY <1>3, <2>3
  <2>5. char_to_hexstr_7bit(text) = Append(a.out, Right(text[Len(text)], a.s))
    BY <2>2, <2>3 DEF char_to_hexstr_7bit
  <2> QED
    BY <2>1, <2>4, <2>5
<1>10. g[0] = EncodeBegin /\ g[n] = chosen[1 .. n]
  <2>1. 0 \in 0 .. n /\ n \in 0 .. n
    OBVIOUS
  <2> QED
    BY <1>6, <1>8, <2>1
<1>11. ASSUME NEW k \in 0 .. n - 1
       PROVE  g[k + 1] = EncodeStep(text, g[k], k + 1)
  <2>1. k \in 0 .. n /\ k + 1 \in 0 .. n
    OBVIOUS
  <2> QED
    BY <1>7, <1>8, <2>1
<1>12. char_to_hexstr_7bit(text) = Append(g[n].out, Right(text[n + 1], g[n].s))
  BY <1>9, <1>10
<1> QED
  BY <1>10, <1>11, <1>12

(* The states of the decoder.                                              *)
DecodeStates == [s : 1 .. 7, b : Nat, out : Seq(Nat)]
DecodeBegin == [s |-> 1, b |-> 0, out |-> <<>>]

(* A step of the decoder goes from state to state,                         *)
LEMMA DecodeType ==
  ASSUME NEW octet \in Nat, NEW a \in DecodeStates
  PROVE  DecodeStep(a, octet) \in DecodeStates
<1>1. PICK s \in 1 .. 7, b \in Nat, out \in Seq(Nat) : a = [s |-> s, b |-> b, out |-> out]
  BY DEF DecodeStates
<1>2. s \in 0 .. 7 /\ 8 - s \in 0 .. 7
  OBVIOUS
<1>3. PICK x \in Nat : x = Left(octet, s)
  BY <1>2, ShiftType
<1>4. PICK c \in Nat : c = x \div 2 + b
  OBVIOUS
<1>5. PICK r \in Nat : r = Right(octet, 8 - s)
  BY <1>2, ShiftType
<1>6. CASE s = 7
  <2>1. DecodeStep(a, octet) = [s |-> 1, b |-> 0, out |-> out \o <<c, r>>]
    BY <1>1, <1>3, <1>4, <1>5, <1>6 DEF DecodeStep
  <2> QED
    BY <2>1 DEF DecodeStates
<1>7. CASE s # 7
  <2>1. DecodeStep(a, octet) = [s |-> s + 1, b |-> r, out |-> Append(out, c)]
    BY <1>1, <1>3, <1>4, <1>5, <1>7 DEF DecodeStep
  <2> QED
    BY <1>7, <2>1 DEF DecodeStates
<1> QED
  BY <1>6, <1>7

(* and the decoder takes its steps one by one, from the first octet.       *)
LEMMA DecodeFold ==
  ASSUME NEW octets \in Seq(Nat), NEW n \in Nat, n = Len(octets)
  PROVE  \E g : /\ g[0] = DecodeBegin
                /\ \A k \in 0 .. n - 1 : g[k + 1] = DecodeStep(g[k], octets[k + 1])
                /\ hexstr_7bit_to_char(octets) = g[n].out
<1> DEFINE Eq(it) == it = [s \in SUBSET (1 .. n) |->
                             IF s = {} THEN DecodeBegin
                             ELSE DecodeStep(it[s \ {Max(s)}], octets[Max(s)])]
<1> DEFINE chosen == CHOOSE it : Eq(it)
<1>2. DOMAIN octets = 1 .. n
  OBVIOUS
<1>3. hexstr_7bit_to_char(octets) = chosen[1 .. n].out
  BY <1>2 DEF hexstr_7bit_to_char, FoldLeft, MapThenFoldSet, DecodeBegin
<1>4. \E it : Eq(it)
  <2>1. PICK h : h = [p \in (1 .. n) \X DecodeStates |-> DecodeStep(p[2], octets[p[1]])]
    OBVIOUS
  <2>2. h \in [(1 .. n) \X DecodeStates -> DecodeStates]
    <3>1. \A i \in 1 .. n : octets[i] \in Nat
      BY ElementType
    <3> QED
      BY <2>1, <3>1, DecodeType
  <2>3. DecodeBegin \in DecodeStates
    BY DEF DecodeBegin, DecodeStates
  <2>4. PICK it \in [SUBSET (1 .. n) -> DecodeStates] : FoldOf(it, n, DecodeBegin, h)
    BY <2>2, <2>3, FoldDefined DEF HasFold
  <2>5. ASSUME NEW s \in SUBSET (1 .. n), s # {}
        PROVE  it[s] = DecodeStep(it[s \ {Max(s)}], octets[Max(s)])
    <3>1. Max(s) \in 1 .. n
      BY <2>5, MaxOf
    <3>2. it[s \ {Max(s)}] \in DecodeStates
      OBVIOUS
    <3>3. it[s] = h[<<Max(s), it[s \ {Max(s)}]>>]
      BY <2>4, <2>5 DEF FoldOf
    <3>4. <<Max(s), it[s \ {Max(s)}]>> \in (1 .. n) \X DecodeStates
      BY <3>1, <3>2
    <3> QED
      BY <2>1, <3>1, <3>3, <3>4
  <2>6. it[{}] = DecodeBegin
    BY <2>4 DEF FoldOf
  <2>7. Eq(it)
    BY <2>5, <2>6
  <2> QED
    BY <2>7
<1>5. Eq(chosen)
  BY <1>4
<1> HIDE DEF chosen
<1>6. chosen[1 .. 0] = DecodeBegin
  <2>1. 1 .. 0 = {} /\ {} \in SUBSET (1 .. n)
    OBVIOUS
  <2> QED
    BY <1>5, <2>1
<1>7. ASSUME NEW k \in 0 .. n - 1
      PROVE  chosen[1 .. k + 1] = DecodeStep(chosen[1 .. k], octets[k + 1])
  <2>1. k \in Nat /\ k + 1 <= n
    OBVIOUS
  <2>3. 1 .. k + 1 \in SUBSET (1 .. n)
    BY <2>1
  <2>4. 1 .. k + 1 # {}
    <3>1. 1 \in 1 .. k + 1
      BY <2>1
    <3> QED
      BY <3>1
  <2>5. Max(1 .. k + 1) = k + 1 /\ (1 .. k + 1) \ {k + 1} = 1 .. k
    BY <2>1, MaxUpTo
  <2>6. chosen[1 .. k + 1] = DecodeStep(chosen[(1 .. k + 1) \ {k + 1}], octets[k + 1])
    BY <1>5, <2>3, <2>4, <2>5
  <2> QED
    BY <2>5, <2>6
<1>8. PICK g : g = [k \in 0 .. n |-> chosen[1 .. k]]
  OBVIOUS
<1>10. g[0] = DecodeBegin /\ g[n] = chosen[1 .. n]
  <2>1. 0 \in 0 .. n /\ n \in 0 .. n
    OBVIOUS
  <2> QED
    BY <1>6, <1>8, <2>1
<1>11. ASSUME NEW k \in 0 .. n - 1
       PROVE  g[k + 1] = DecodeStep(g[k], octets[k + 1])
  <2>1. k \in 0 .. n /\ k + 1 \in 0 .. n
    OBVIOUS
  <2> QED
    BY <1>7, <1>8, <2>1
<1>12. hexstr_7bit_to_char(octets) = g[n].out
  BY <1>3, <1>10
<1> QED
  BY <1>10, <1>11, <1>12

(* A text followed by zeros, and octet j of it. *)
Ext(text, x)    == IF x \in 1 .. Len(text) THEN text[x] ELSE 0
Paired(c, d, r) == Right(c, r) + Left(d, 7 - r)
PairAt(text, j) ==
  Paired(Ext(text, j + (j - 1) \div 7), Ext(text, j + (j - 1) \div 7 + 1), (j - 1) % 7)

(* These are characters,                                                   *)
LEMMA ExtType ==
  ASSUME NEW text \in Seq(0 .. 127), NEW x \in Int
  PROVE  Ext(text, x) \in 0 .. 127
BY ElementType DEF Ext

(* and their pairs are numbers.                                            *)
LEMMA PairType ==
  ASSUME NEW text \in Seq(0 .. 127), NEW j \in Nat \ {0}
  PROVE  PairAt(text, j) \in Nat
<1>1. PICK x \in Int : x = j + (j - 1) \div 7
  OBVIOUS
<1>2. PICK c \in Nat : c = Ext(text, x)
  BY ExtType
<1>3. PICK d \in Nat : d = Ext(text, x + 1)
  <2>1. x + 1 \in Int
    OBVIOUS
  <2>2. \A y \in 0 .. 127 : y \in Nat
    OBVIOUS
  <2> QED
    BY <2>1, <2>2, ExtType
<1>4. PICK r \in 0 .. 6 : r = (j - 1) % 7
  OBVIOUS
<1>5. r \in 0 .. 7 /\ 7 - r \in 0 .. 7
  OBVIOUS
<1>6. PICK p \in Nat : p = Right(c, r)
  BY <1>5, ShiftType
<1>7. PICK s \in Nat : s = Left(d, 7 - r)
  BY <1>5, ShiftType
<1>8. PairAt(text, j) = p + s
  BY <1>1, <1>2, <1>3, <1>4, <1>6, <1>7 DEF PairAt, Paired
<1> QED
  BY <1>8

(* What is written of the first k characters. *)
Pairs(text, m) == [j \in 1 .. m |-> PairAt(text, j)]

(* The pairs are a sequence of numbers,                                    *)
LEMMA PairsType ==
  ASSUME NEW text \in Seq(0 .. 127), NEW m \in Nat
  PROVE  Pairs(text, m) \in Seq(Nat) /\ Len(Pairs(text, m)) = m
BY PairType DEF Pairs

(* which the next pair continues.                                          *)
LEMMA PairsGrow ==
  ASSUME NEW text \in Seq(0 .. 127), NEW m \in Nat, NEW x, x = PairAt(text, m + 1)
  PROVE  Append(Pairs(text, m), x) = Pairs(text, m + 1)
<1>1. Pairs(text, m) \in Seq(Nat) /\ Len(Pairs(text, m)) = m
  BY PairsType
<1>2. m + 1 \in Nat /\ Len(Pairs(text, m + 1)) = m + 1 /\ Pairs(text, m + 1) \in Seq(Nat)
  BY PairsType
<1>3. x \in Nat
  BY PairType
<1>4. Append(Pairs(text, m), x) \in Seq(Nat) /\ Len(Append(Pairs(text, m), x)) = m + 1
  BY <1>1, <1>3
<1>5. ASSUME NEW j \in 1 .. m + 1
      PROVE  Append(Pairs(text, m), x)[j] = Pairs(text, m + 1)[j]
  <2>1. Pairs(text, m + 1)[j] = PairAt(text, j)
    BY DEF Pairs
  <2>2. CASE j = m + 1
    BY <1>1, <2>1, <2>2
  <2>3. CASE j # m + 1
    <3>1. j \in 1 .. m
      BY <2>3
    <3>2. Append(Pairs(text, m), x)[j] = Pairs(text, m)[j]
      BY <1>1, <3>1
    <3>3. Pairs(text, m)[j] = PairAt(text, j)
      BY <3>1 DEF Pairs
    <3> QED
      BY <2>1, <3>2, <3>3
  <2> QED
    BY <2>2, <2>3
<1> QED
  BY <1>2, <1>4, <1>5, SeqEqual

(* Character i is the first of a pair, or the second of the pair before it. *)
LEMMA PlaceOfPair ==
  ASSUME NEW k \in Nat, (k % 8) # 7
  PROVE  /\ k - (k \div 8) \in Nat
         /\ k + 1 - ((k + 1) \div 8) = k - (k \div 8) + 1
         /\ (k - (k \div 8)) % 7 = (k % 8)
         /\ k - (k \div 8) + 1 + (k - (k \div 8)) \div 7 = k + 1
         /\ (k + 1) % 8 = (k % 8) + 1
<1>1. PICK q \in Nat, r \in 0 .. 6 : k = 8 * q + r
  <2>1. k \div 8 \in Nat
    OBVIOUS
  <2>2. (k % 8) \in 0 .. 6
    OBVIOUS
  <2>3. k = 8 * (k \div 8) + (k % 8)
    OBVIOUS
  <2> QED
    BY <2>1, <2>2, <2>3
<1>2. k \div 8 = q /\ (k % 8) = r /\ (k + 1) \div 8 = q /\ (k + 1) % 8 = r + 1
  BY <1>1
<1>3. k - (k \div 8) = 7 * q + r
  BY <1>1, <1>2
<1>4. (7 * q + r) % 7 = r /\ (7 * q + r) \div 7 = q
  OBVIOUS
<1> QED
  BY <1>1, <1>2, <1>3, <1>4

(* By induction, k characters have left k - k \div 8 pairs.                 *)
LEMMA EncodePairs ==
  ASSUME NEW text \in Seq(0 .. 127), NEW n \in Nat, n + 1 = Len(text), NEW g,
         g[0] = EncodeBegin,
         \A k \in 0 .. n - 1 : g[k + 1] = EncodeStep(text, g[k], k + 1)
  PROVE  g[n] = [s |-> (n % 8), out |-> Pairs(text, n - (n \div 8))]
<1> DEFINE Done(k) == g[k] = [s |-> (k % 8), out |-> Pairs(text, k - (k \div 8))]
<1> DEFINE T == {k \in Nat : k <= n => Done(k)}
<1>1. 0 \in T
  <2>1. 0 - (0 \div 8) = 0 /\ 0 % 8 = 0
    OBVIOUS
  <2>2. Pairs(text, 0) = <<>>
    BY PairsType, EmptySeq
  <2> QED
    BY <2>1, <2>2 DEF EncodeBegin
<1>2. ASSUME NEW k \in Nat, k \in T PROVE k + 1 \in T
  <2> SUFFICES ASSUME k + 1 <= n PROVE Done(k + 1)
    <3> HIDE DEF Done
    <3> QED
      OBVIOUS
  <2>1. k \in 0 .. n - 1 /\ k <= n
    OBVIOUS
  <2>2. g[k + 1] = EncodeStep(text, g[k], k + 1)
    BY <2>1
  <2>3. g[k] = [s |-> (k % 8), out |-> Pairs(text, k - (k \div 8))]
    BY <1>2, <2>1
  <2>4. CASE (k % 8) = 7
    <3>1. (k + 1) % 8 = 0 /\ k + 1 - ((k + 1) \div 8) = k - (k \div 8)
      BY <2>4
    <3>2. PICK out : out = Pairs(text, k - (k \div 8))
      OBVIOUS
    <3>3. g[k + 1] = [s |-> 0, out |-> out]
      BY <2>2, <2>3, <2>4, <3>2 DEF EncodeStep
    <3>4. Pairs(text, k + 1 - ((k + 1) \div 8)) = out
      BY <3>1, <3>2
    <3> QED
      BY <3>1, <3>3, <3>4
  <2>5. CASE (k % 8) # 7
    <3>1. PICK m \in Nat : m = k - (k \div 8)
      BY <2>5, PlaceOfPair
    <3>2. /\ k + 1 - ((k + 1) \div 8) = m + 1
          /\ m % 7 = (k % 8) /\ m + 1 + m \div 7 = k + 1 /\ (k + 1) % 8 = (k % 8) + 1
      BY <2>5, <3>1, PlaceOfPair
    <3>3. Ext(text, k + 1) = text[k + 1] /\ Ext(text, k + 1 + 1) = text[k + 1 + 1]
      <4>1. k + 1 \in 1 .. Len(text) /\ k + 1 + 1 \in 1 .. Len(text)
        BY <2>1
      <4> QED
        BY <4>1 DEF Ext
    <3>4. m + 1 - 1 = m
      OBVIOUS
    <3>5. PICK x : x = PairAt(text, m + 1)
      OBVIOUS
    <3>6. x = Right(text[k + 1], (k % 8)) + Left(text[k + 1 + 1], 7 - (k % 8))
      <4>1. m + 1 + (m + 1 - 1) \div 7 = k + 1 /\ (m + 1 - 1) % 7 = (k % 8)
        BY <3>2, <3>4
      <4> QED
        BY <3>3, <3>5, <4>1 DEF PairAt, Paired
    <3>7. Append(Pairs(text, m), x) = Pairs(text, m + 1)
      BY <3>5, PairsGrow
    <3>8. g[k + 1] = [s |-> (k % 8) + 1, out |-> Append(Pairs(text, m), x)]
      <4>1. PICK s : s = (k % 8)
        OBVIOUS
      <4>2. PICK out : out = Pairs(text, m)
        OBVIOUS
      <4>3. g[k] = [s |-> s, out |-> out]
        BY <2>3, <3>1, <4>1, <4>2
      <4>4. EncodeStep(text, g[k], k + 1) = [s |-> s + 1, out |-> Append(out, x)]
        BY <2>5, <3>6, <4>1, <4>3 DEF EncodeStep
      <4> QED
        BY <2>2, <4>1, <4>2, <4>4
    <3>9. Pairs(text, k + 1 - ((k + 1) \div 8)) = Append(Pairs(text, m), x)
      BY <3>2, <3>7
    <3>10. (k + 1) % 8 = (k % 8) + 1
      BY <3>2
    <3>11. PICK out : out = Append(Pairs(text, m), x)
      OBVIOUS
    <3>12. PICK s : s = (k % 8) + 1
      OBVIOUS
    <3>13. g[k + 1] = [s |-> s, out |-> out]
      BY <3>8, <3>11, <3>12
    <3>14. (k + 1) % 8 = s /\ Pairs(text, k + 1 - ((k + 1) \div 8)) = out
      BY <3>9, <3>10, <3>11, <3>12
    <3> QED
      BY <3>13, <3>14
  <2> QED
    BY <2>4, <2>5
<1> HIDE DEF T
<1>3. n \in T
  BY <1>1, <1>2, SetInduction
<1> QED
  BY <1>3 DEF T

(* Every octet is a pair, the last one included: it ends with zeros, or is zero. *)
LEMMA Encoded ==
  ASSUME NEW text \in Seq(0 .. 127), NEW n \in Nat, n + 1 = Len(text)
  PROVE  char_to_hexstr_7bit(text) = Pairs(text, n - (n \div 8) + 1)
<1>1. PICK g : /\ g[0] = EncodeBegin
               /\ \A k \in 0 .. n - 1 : g[k + 1] = EncodeStep(text, g[k], k + 1)
               /\ char_to_hexstr_7bit(text) = Append(g[n].out, Right(text[n + 1], g[n].s))
  BY EncodeFold
<1>2. PICK m \in Nat : m = n - (n \div 8)
  OBVIOUS
<1>3. g[n] = [s |-> (n % 8), out |-> Pairs(text, m)]
  BY <1>1, <1>2, EncodePairs
<1>4. PICK x : x = Right(text[n + 1], (n % 8))
  OBVIOUS
<1>5. PICK c \in 0 .. 127 : c = text[n + 1]
  <2>1. n + 1 \in 1 .. Len(text)
    OBVIOUS
  <2> QED
    BY <2>1, ElementType
<1>6. x = PairAt(text, m + 1)
  <2>1. m + 1 - 1 = m
    OBVIOUS
  <2>2. Ext(text, n + 1 + 1) = 0 /\ Ext(text, n + 1 + 1 + 1) = 0 /\ Ext(text, n + 1) = c
    BY <1>5 DEF Ext
  <2>3. CASE (n % 8) = 7
    <3>1. m % 7 = 0 /\ m + 1 + m \div 7 = n + 1 + 1
      <4>1. PICK q \in Nat : n = 8 * q + 7
        <5>1. n \div 8 \in Nat /\ n = 8 * (n \div 8) + 7
          BY <2>3
        <5> QED
          BY <5>1
      <4>2. m = 7 * q + 7
        BY <1>2, <4>1
      <4>3. (7 * q + 7) % 7 = 0 /\ (7 * q + 7) \div 7 = q + 1
        OBVIOUS
      <4> QED
        BY <4>1, <4>2, <4>3
    <3>2. PairAt(text, m + 1) = Right(0, 0) + Left(0, 7 - 0)
      BY <2>1, <2>2, <3>1 DEF PairAt, Paired
    <3>3. Right(0, 0) = 0 /\ Left(0, 7 - 0) = 0
      BY Powers DEF Right, Left
    <3>4. Right(c, 7) = 0
      BY Powers DEF Right
    <3> QED
      BY <1>4, <1>5, <2>3, <3>2, <3>3, <3>4
  <2>4. CASE (n % 8) # 7
    <3>1. m % 7 = (n % 8) /\ m + 1 + m \div 7 = n + 1
      BY <1>2, <2>4, PlaceOfPair
    <3>2. PICK r \in 0 .. 6 : r = (n % 8)
      BY <2>4
    <3>3. PairAt(text, m + 1) = Right(c, r) + Left(0, 7 - r)
      BY <2>1, <2>2, <3>1, <3>2 DEF PairAt, Paired
    <3>4. Left(0, 7 - r) = 0
      <4>1. 7 - r \in 0 .. 7
        OBVIOUS
      <4>2. PICK p \in Nat : p = 2^(7 - r)
        BY <4>1, PowerType
      <4> QED
        BY <4>2 DEF Left
    <3>5. Right(c, r) \in Nat
      <4>1. c \in Nat /\ r \in 0 .. 7
        OBVIOUS
      <4> QED
        BY <4>1, ShiftType
    <3> QED
      BY <1>4, <1>5, <3>2, <3>3, <3>4, <3>5
  <2> QED
    BY <2>3, <2>4
<1>7. Append(Pairs(text, m), x) = Pairs(text, m + 1)
  BY <1>6, PairsGrow
<1> QED
  BY <1>1, <1>2, <1>3, <1>4, <1>7

(* Eight bits of two characters, from bit r of the first, are the octet that shifts make. *)
LEMMA PairOfBits ==
  ASSUME NEW c \in 0 .. 127, NEW d \in 0 .. 127, NEW r \in 0 .. 6, NEW bits,
         \A b \in 0 .. 7 : bits[b] = IF r + b < 7 THEN Bit(c, r + b) ELSE Bit(d, r + b - 7)
  PROVE  Octet(bits) = Paired(c, d, r)
<1>1. /\ Bit(c, 0) = c % 2 /\ Bit(c, 1) = (c \div 2) % 2 /\ Bit(c, 2) = (c \div 4) % 2
      /\ Bit(c, 3) = (c \div 8) % 2 /\ Bit(c, 4) = (c \div 16) % 2
      /\ Bit(c, 5) = (c \div 32) % 2 /\ Bit(c, 6) = (c \div 64) % 2
  BY DEF Bit
<1>2. /\ Bit(d, 0) = d % 2 /\ Bit(d, 1) = (d \div 2) % 2 /\ Bit(d, 2) = (d \div 4) % 2
      /\ Bit(d, 3) = (d \div 8) % 2 /\ Bit(d, 4) = (d \div 16) % 2
      /\ Bit(d, 5) = (d \div 32) % 2 /\ Bit(d, 6) = (d \div 64) % 2
  BY DEF Bit
<1>3. r = 0 \/ r = 1 \/ r = 2 \/ r = 3 \/ r = 4 \/ r = 5 \/ r = 6
  OBVIOUS
<1>4. CASE r = 0
  <2>1. /\ bits[0] = (c % 2) /\ bits[1] = ((c \div 2) % 2)
        /\ bits[2] = ((c \div 4) % 2) /\ bits[3] = ((c \div 8) % 2)
        /\ bits[4] = ((c \div 16) % 2) /\ bits[5] = ((c \div 32) % 2)
        /\ bits[6] = ((c \div 64) % 2) /\ bits[7] = (d % 2)
    <3>1. /\ bits[0] = Bit(c, 0) /\ bits[1] = Bit(c, 1) /\ bits[2] = Bit(c, 2) /\ bits[3] = Bit(c, 3)
          /\ bits[4] = Bit(c, 4) /\ bits[5] = Bit(c, 5) /\ bits[6] = Bit(c, 6) /\ bits[7] = Bit(d, 0)
      BY <1>4
    <3> QED
      BY <1>1, <1>2, <3>1
  <2>2. (c % 2) + 2 * ((c \div 2) % 2) + 4 * ((c \div 4) % 2) + 8 * ((c \div 8) % 2)
        + 16 * ((c \div 16) % 2) + 32 * ((c \div 32) % 2) + 64 * ((c \div 64) % 2)
        = c \div 1
    OBVIOUS
  <2>3. 128 * (d % 2)
        = (d * 128) % 256
    OBVIOUS
  <2>4. Paired(c, d, r) = (c \div 1) + ((d * 128) % 256)
    <3>1. 7 - r = 7
      BY <1>4
    <3> QED
      BY <1>4, <3>1, Powers DEF Paired, Right, Left
  <2> QED
    BY <2>1, <2>2, <2>3, <2>4 DEF Octet, Septet
<1>5. CASE r = 1
  <2>1. /\ bits[0] = ((c \div 2) % 2) /\ bits[1] = ((c \div 4) % 2)
        /\ bits[2] = ((c \div 8) % 2) /\ bits[3] = ((c \div 16) % 2)
        /\ bits[4] = ((c \div 32) % 2) /\ bits[5] = ((c \div 64) % 2)
        /\ bits[6] = (d % 2) /\ bits[7] = ((d \div 2) % 2)
    <3>1. /\ bits[0] = Bit(c, 1) /\ bits[1] = Bit(c, 2) /\ bits[2] = Bit(c, 3) /\ bits[3] = Bit(c, 4)
          /\ bits[4] = Bit(c, 5) /\ bits[5] = Bit(c, 6) /\ bits[6] = Bit(d, 0) /\ bits[7] = Bit(d, 1)
      BY <1>5
    <3> QED
      BY <1>1, <1>2, <3>1
  <2>2. ((c \div 2) % 2) + 2 * ((c \div 4) % 2) + 4 * ((c \div 8) % 2) + 8 * ((c \div 16) % 2)
        + 16 * ((c \div 32) % 2) + 32 * ((c \div 64) % 2)
        = c \div 2
    OBVIOUS
  <2>3. 64 * (d % 2) + 128 * ((d \div 2) % 2)
        = (d * 64) % 256
    OBVIOUS
  <2>4. Paired(c, d, r) = (c \div 2) + ((d * 64) % 256)
    <3>1. 7 - r = 6
      BY <1>5
    <3> QED
      BY <1>5, <3>1, Powers DEF Paired, Right, Left
  <2> QED
    BY <2>1, <2>2, <2>3, <2>4 DEF Octet, Septet
<1>6. CASE r = 2
  <2>1. /\ bits[0] = ((c \div 4) % 2) /\ bits[1] = ((c \div 8) % 2)
        /\ bits[2] = ((c \div 16) % 2) /\ bits[3] = ((c \div 32) % 2)
        /\ bits[4] = ((c \div 64) % 2) /\ bits[5] = (d % 2)
        /\ bits[6] = ((d \div 2) % 2) /\ bits[7] = ((d \div 4) % 2)
    <3>1. /\ bits[0] = Bit(c, 2) /\ bits[1] = Bit(c, 3) /\ bits[2] = Bit(c, 4) /\ bits[3] = Bit(c, 5)
          /\ bits[4] = Bit(c, 6) /\ bits[5] = Bit(d, 0) /\ bits[6] = Bit(d, 1) /\ bits[7] = Bit(d, 2)
      BY <1>6
    <3> QED
      BY <1>1, <1>2, <3>1
  <2>2. ((c \div 4) % 2) + 2 * ((c \div 8) % 2) + 4 * ((c \div 16) % 2) + 8 * ((c \div 32) % 2)
        + 16 * ((c \div 64) % 2)
        = c \div 4
    OBVIOUS
  <2>3. 32 * (d % 2) + 64 * ((d \div 2) % 2) + 128 * ((d \div 4) % 2)
        = (d * 32) % 256
    OBVIOUS
  <2>4. Paired(c, d, r) = (c \div 4) + ((d * 32) % 256)
    <3>1. 7 - r = 5
      BY <1>6
    <3> QED
      BY <1>6, <3>1, Powers DEF Paired, Right, Left
  <2> QED
    BY <2>1, <2>2, <2>3, <2>4 DEF Octet, Septet
<1>7. CASE r = 3
  <2>1. /\ bits[0] = ((c \div 8) % 2) /\ bits[1] = ((c \div 16) % 2)
        /\ bits[2] = ((c \div 32) % 2) /\ bits[3] = ((c \div 64) % 2)
        /\ bits[4] = (d % 2) /\ bits[5] = ((d \div 2) % 2)
        /\ bits[6] = ((d \div 4) % 2) /\ bits[7] = ((d \div 8) % 2)
    <3>1. /\ bits[0] = Bit(c, 3) /\ bits[1] = Bit(c, 4) /\ bits[2] = Bit(c, 5) /\ bits[3] = Bit(c, 6)
          /\ bits[4] = Bit(d, 0) /\ bits[5] = Bit(d, 1) /\ bits[6] = Bit(d, 2) /\ bits[7] = Bit(d, 3)
      BY <1>7
    <3> QED
      BY <1>1, <1>2, <3>1
  <2>2. ((c \div 8) % 2) + 2 * ((c \div 16) % 2) + 4 * ((c \div 32) % 2) + 8 * ((c \div 64) % 2)
        = c \div 8
    OBVIOUS
  <2>3. 16 * (d % 2) + 32 * ((d \div 2) % 2) + 64 * ((d \div 4) % 2) + 128 * ((d \div 8) % 2)
        = (d * 16) % 256
    OBVIOUS
  <2>4. Paired(c, d, r) = (c \div 8) + ((d * 16) % 256)
    <3>1. 7 - r = 4
      BY <1>7
    <3> QED
      BY <1>7, <3>1, Powers DEF Paired, Right, Left
  <2> QED
    BY <2>1, <2>2, <2>3, <2>4 DEF Octet, Septet
<1>8. CASE r = 4
  <2>1. /\ bits[0] = ((c \div 16) % 2) /\ bits[1] = ((c \div 32) % 2)
        /\ bits[2] = ((c \div 64) % 2) /\ bits[3] = (d % 2)
        /\ bits[4] = ((d \div 2) % 2) /\ bits[5] = ((d \div 4) % 2)
        /\ bits[6] = ((d \div 8) % 2) /\ bits[7] = ((d \div 16) % 2)
    <3>1. /\ bits[0] = Bit(c, 4) /\ bits[1] = Bit(c, 5) /\ bits[2] = Bit(c, 6) /\ bits[3] = Bit(d, 0)
          /\ bits[4] = Bit(d, 1) /\ bits[5] = Bit(d, 2) /\ bits[6] = Bit(d, 3) /\ bits[7] = Bit(d, 4)
      BY <1>8
    <3> QED
      BY <1>1, <1>2, <3>1
  <2>2. ((c \div 16) % 2) + 2 * ((c \div 32) % 2) + 4 * ((c \div 64) % 2)
        = c \div 16
    OBVIOUS
  <2>3. 8 * (d % 2)
        + 16 * ((d \div 2) % 2) + 32 * ((d \div 4) % 2) + 64 * ((d \div 8) % 2) + 128 * ((d \div 16) % 2)
        = (d * 8) % 256
    OBVIOUS
  <2>4. Paired(c, d, r) = (c \div 16) + ((d * 8) % 256)
    <3>1. 7 - r = 3
      BY <1>8
    <3> QED
      BY <1>8, <3>1, Powers DEF Paired, Right, Left
  <2> QED
    BY <2>1, <2>2, <2>3, <2>4 DEF Octet, Septet
<1>9. CASE r = 5
  <2>1. /\ bits[0] = ((c \div 32) % 2) /\ bits[1] = ((c \div 64) % 2)
        /\ bits[2] = (d % 2) /\ bits[3] = ((d \div 2) % 2)
        /\ bits[4] = ((d \div 4) % 2) /\ bits[5] = ((d \div 8) % 2)
        /\ bits[6] = ((d \div 16) % 2) /\ bits[7] = ((d \div 32) % 2)
    <3>1. /\ bits[0] = Bit(c, 5) /\ bits[1] = Bit(c, 6) /\ bits[2] = Bit(d, 0) /\ bits[3] = Bit(d, 1)
          /\ bits[4] = Bit(d, 2) /\ bits[5] = Bit(d, 3) /\ bits[6] = Bit(d, 4) /\ bits[7] = Bit(d, 5)
      BY <1>9
    <3> QED
      BY <1>1, <1>2, <3>1
  <2>2. ((c \div 32) % 2) + 2 * ((c \div 64) % 2)
        = c \div 32
    OBVIOUS
  <2>3. 4 * (d % 2) + 8 * ((d \div 2) % 2)
        + 16 * ((d \div 4) % 2) + 32 * ((d \div 8) % 2) + 64 * ((d \div 16) % 2) + 128 * ((d \div 32) % 2)
        = (d * 4) % 256
    OBVIOUS
  <2>4. Paired(c, d, r) = (c \div 32) + ((d * 4) % 256)
    <3>1. 7 - r = 2
      BY <1>9
    <3> QED
      BY <1>9, <3>1, Powers DEF Paired, Right, Left
  <2> QED
    BY <2>1, <2>2, <2>3, <2>4 DEF Octet, Septet
<1>10. CASE r = 6
  <2>1. /\ bits[0] = ((c \div 64) % 2) /\ bits[1] = (d % 2)
        /\ bits[2] = ((d \div 2) % 2) /\ bits[3] = ((d \div 4) % 2)
        /\ bits[4] = ((d \div 8) % 2) /\ bits[5] = ((d \div 16) % 2)
        /\ bits[6] = ((d \div 32) % 2) /\ bits[7] = ((d \div 64) % 2)
    <3>1. /\ bits[0] = Bit(c, 6) /\ bits[1] = Bit(d, 0) /\ bits[2] = Bit(d, 1) /\ bits[3] = Bit(d, 2)
          /\ bits[4] = Bit(d, 3) /\ bits[5] = Bit(d, 4) /\ bits[6] = Bit(d, 5) /\ bits[7] = Bit(d, 6)
      BY <1>10
    <3> QED
      BY <1>1, <1>2, <3>1
  <2>2. ((c \div 64) % 2)
        = c \div 64
    OBVIOUS
  <2>3. 2 * (d % 2) + 4 * ((d \div 2) % 2) + 8 * ((d \div 4) % 2)
        + 16 * ((d \div 8) % 2) + 32 * ((d \div 16) % 2) + 64 * ((d \div 32) % 2) + 128 * ((d \div 64) % 2)
        = (d * 2) % 256
    OBVIOUS
  <2>4. Paired(c, d, r) = (c \div 64) + ((d * 2) % 256)
    <3>1. 7 - r = 1
      BY <1>10
    <3> QED
      BY <1>10, <3>1, Powers DEF Paired, Right, Left
  <2> QED
    BY <2>1, <2>2, <2>3, <2>4 DEF Octet, Septet
<1> QED
  BY <1>3, <1>4, <1>5, <1>6, <1>7, <1>8, <1>9, <1>10

(* A number of bits is characters and bits.                                *)
LEMMA SevenParts ==
  ASSUME NEW x \in Nat, NEW y \in 0 .. 6
  PROVE  (7 * x + y) \div 7 = x /\ (7 * x + y) % 7 = y
OBVIOUS

(* Octet j of the bit by bit packer is pair j. *)
LEMMA PackedPair ==
  ASSUME NEW text \in Seq(0 .. 127), NEW q \in Nat, NEW r \in 0 .. 6, NEW bits,
         bits = [b \in 0 .. 7 |-> TextBit(text, 8 * (7 * q + r) + b - 0)]
  PROVE  Octet(bits) = Paired(Ext(text, 8 * q + r + 1), Ext(text, 8 * q + r + 2), r)
<1>1. PICK len \in Nat : len = Len(text)
  OBVIOUS
<1>2. ASSUME NEW b \in 0 .. 7, NEW x \in Nat, NEW y \in 0 .. 6,
             8 * (7 * q + r) + b = 7 * x + y
      PROVE  bits[b] = Bit(Ext(text, x + 1), y)
  <2>1. (7 * x + y) \div 7 = x /\ (7 * x + y) % 7 = y
    BY SevenParts
  <2>2. bits[b] = TextBit(text, 7 * x + y)
    <3>1. 8 * (7 * q + r) + b - 0 = 7 * x + y
      BY <1>2
    <3> QED
      BY <3>1
  <2>3. 7 * x + y \in 0 .. 7 * len - 1 <=> x + 1 \in 1 .. len
    OBVIOUS
  <2>4. CASE x + 1 \in 1 .. len
    BY <1>1, <2>1, <2>2, <2>3, <2>4 DEF TextBit, Ext
  <2>5. CASE x + 1 \notin 1 .. len
    <3>1. bits[b] = 0 /\ Ext(text, x + 1) = 0
      BY <1>1, <2>2, <2>3, <2>5 DEF TextBit, Ext
    <3>2. Bit(0, y) = 0
      <4>1. y = 0 \/ y = 1 \/ y = 2 \/ y = 3 \/ y = 4 \/ y = 5 \/ y = 6
        OBVIOUS
      <4> QED
        BY <4>1, SMTT(60) DEF Bit
    <3> QED
      BY <3>1, <3>2
  <2> QED
    BY <2>4, <2>5
<1>3. ASSUME NEW b \in 0 .. 7
      PROVE  bits[b] = IF r + b < 7 THEN Bit(Ext(text, 8 * q + r + 1), r + b)
                                    ELSE Bit(Ext(text, 8 * q + r + 2), r + b - 7)
  <2>1. CASE r + b < 7
    <3>1. 8 * q + r \in Nat /\ r + b \in 0 .. 6
      BY <2>1
    <3>2. 8 * (7 * q + r) + b = 7 * (8 * q + r) + (r + b)
      OBVIOUS
    <3>3. bits[b] = Bit(Ext(text, 8 * q + r + 1), r + b)
      BY <1>2, <3>1, <3>2
    <3> QED
      BY <2>1, <3>3
  <2>2. CASE ~ (r + b < 7)
    <3>1. 8 * q + r + 1 \in Nat /\ r + b - 7 \in 0 .. 6
      BY <2>2
    <3>2. 8 * (7 * q + r) + b = 7 * (8 * q + r + 1) + (r + b - 7)
      OBVIOUS
    <3>3. bits[b] = Bit(Ext(text, 8 * q + r + 1 + 1), r + b - 7)
      BY <1>2, <3>1, <3>2
    <3>4. 8 * q + r + 1 + 1 = 8 * q + r + 2
      OBVIOUS
    <3> QED
      BY <2>2, <3>3, <3>4
  <2> QED
    BY <2>1, <2>2
<1>4. PICK c \in 0 .. 127 : c = Ext(text, 8 * q + r + 1)
  <2>1. 8 * q + r + 1 \in Int
    OBVIOUS
  <2> QED
    BY <2>1, ExtType
<1>5. PICK d \in 0 .. 127 : d = Ext(text, 8 * q + r + 2)
  <2>1. 8 * q + r + 2 \in Int
    OBVIOUS
  <2> QED
    BY <2>1, ExtType
<1>6. \A b \in 0 .. 7 : bits[b] = IF r + b < 7 THEN Bit(c, r + b) ELSE Bit(d, r + b - 7)
  BY <1>3, <1>4, <1>5
<1>7. Octet(bits) = Paired(c, d, r)
  BY <1>6, PairOfBits
<1> QED
  BY <1>4, <1>5, <1>7

(* So the bit by bit packer writes pairs.                                  *)
LEMMA PackedPairs ==
  ASSUME NEW text \in Seq(0 .. 127)
  PROVE  Packed(text, 0) = Pairs(text, LastOctet(text, 0) + 1)
<1>1. PICK last \in Nat : last = LastOctet(text, 0)
  BY DEF LastOctet
<1>2. ASSUME NEW j \in 1 .. last + 1
      PROVE  Octet([b \in 0 .. 7 |-> TextBit(text, 8 * (j - 1) + b - 0)]) = PairAt(text, j)
  <2>1. PICK q \in Nat, r \in 0 .. 6 : j - 1 = 7 * q + r
    <3>1. (j - 1) \div 7 \in Nat
      OBVIOUS
    <3>2. (j - 1) % 7 \in 0 .. 6
      OBVIOUS
    <3>3. j - 1 = 7 * ((j - 1) \div 7) + ((j - 1) % 7)
      OBVIOUS
    <3> QED
      BY <3>1, <3>2, <3>3
  <2>2. (7 * q + r) \div 7 = q /\ (7 * q + r) % 7 = r
    OBVIOUS
  <2>3. j + (j - 1) \div 7 = 8 * q + r + 1 /\ (j - 1) % 7 = r
    BY <2>1, <2>2
  <2>4. 8 * q + r + 1 + 1 = 8 * q + r + 2
    OBVIOUS
  <2>5. PairAt(text, j) = Paired(Ext(text, 8 * q + r + 1), Ext(text, 8 * q + r + 2), r)
    BY <2>3, <2>4 DEF PairAt
  <2>6. PICK bits : bits = [b \in 0 .. 7 |-> TextBit(text, 8 * (7 * q + r) + b - 0)]
    OBVIOUS
  <2>7. Octet(bits) = PairAt(text, j)
    BY <2>5, <2>6, PackedPair
  <2>8. [b \in 0 .. 7 |-> TextBit(text, 8 * (j - 1) + b - 0)] = bits
    BY <2>1, <2>6
  <2> QED
    BY <2>7, <2>8
<1> QED
  BY <1>1, <1>2 DEF Packed, Pairs

(* The last pair is all zeros when the text ends with one written whole. *)
LEMMA PackersDo ==
  ASSUME NEW text \in Seq(0 .. 127), text # <<>>
  PROVE  char_to_hexstr_7bit(text) \in {Packed(text, 0), Append(Packed(text, 0), 0)}
<1>1. PICK n \in Nat : n + 1 = Len(text)
  <2>1. Len(text) \in Nat /\ Len(text) # 0
    BY EmptySeq
  <2>2. Len(text) - 1 \in Nat /\ Len(text) - 1 + 1 = Len(text)
    BY <2>1
  <2> QED
    BY <2>2
<1>2. PICK q \in Nat, t \in 0 .. 7 : n = 8 * q + t
  <2>1. n \div 8 \in Nat
    OBVIOUS
  <2>2. n % 8 \in 0 .. 7
    OBVIOUS
  <2>3. n = 8 * (n \div 8) + (n % 8)
    OBVIOUS
  <2> QED
    BY <2>1, <2>2, <2>3
<1>3. n \div 8 = q
  BY <1>2
<1>4. char_to_hexstr_7bit(text) = Pairs(text, 7 * q + t + 1)
  <2>1. n - (n \div 8) + 1 = 7 * q + t + 1
    BY <1>2, <1>3
  <2> QED
    BY <1>1, <2>1, Encoded
<1>5. LastOctet(text, 0) = (7 * n + 6) \div 8
  <2>1. Len(text) = n + 1 /\ Len(text) # 0 /\ 7 * (n + 1 - 1) + 6 + 0 = 7 * n + 6
    BY <1>1
  <2> QED
    BY <2>1 DEF LastOctet
<1>6. CASE t # 7
  <2>1. LastOctet(text, 0) = 7 * q + t
    BY <1>2, <1>5, <1>6
  <2> QED
    BY <1>4, <2>1, PackedPairs
<1>7. CASE t = 7
  <2>1. LastOctet(text, 0) + 1 = 7 * q + 7
    BY <1>2, <1>5, <1>7
  <2>2. PICK m \in Nat : m = 7 * q + 7
    OBVIOUS
  <2>3. Packed(text, 0) = Pairs(text, m)
    BY <2>1, <2>2, PackedPairs
  <2>4. PairAt(text, m + 1) = 0
    <3>1. m + 1 - 1 = 7 * q + 7
      BY <2>2
    <3>2. (7 * q + 7) \div 7 = q + 1 /\ (7 * q + 7) % 7 = 0
      OBVIOUS
    <3>3. m + 1 + (m + 1 - 1) \div 7 = n + 2 /\ (m + 1 - 1) % 7 = 0
      BY <1>2, <1>7, <2>2, <3>1, <3>2
    <3>4. Ext(text, n + 2) = 0 /\ Ext(text, n + 2 + 1) = 0
      BY <1>1 DEF Ext
    <3>5. Right(0, 0) = 0 /\ Left(0, 7 - 0) = 0
      BY Powers DEF Right, Left
    <3> QED
      BY <3>3, <3>4, <3>5 DEF PairAt, Paired
  <2>5. Append(Pairs(text, m), 0) = Pairs(text, m + 1)
    BY <2>4, PairsGrow
  <2>6. 7 * q + t + 1 = m + 1
    BY <1>7, <2>2
  <2> QED
    BY <1>4, <2>3, <2>5, <2>6
<1> QED
  BY <1>6, <1>7

(* The bits carried over and those of an octet make a character; what is left of it the next. *)
LEMMA PairSplits ==
  ASSUME NEW c \in 0 .. 127, NEW d \in 0 .. 127, NEW r \in 0 .. 6
  PROVE  /\ Left(Paired(c, d, r), r + 1) \div 2 + (c % 2^r) = c
         /\ Right(Paired(c, d, r), 7 - r) = d % 2^(r + 1)
<1>1. r = 0 \/ r = 1 \/ r = 2 \/ r = 3 \/ r = 4 \/ r = 5 \/ r = 6
  OBVIOUS
<1>2. CASE r = 0
  <2>1. r + 1 = 1 /\ 7 - r = 7
    BY <1>2
  <2>2. PICK h \in Nat : h = c \div 1 /\ h < 128
    OBVIOUS
  <2>3. PICK l \in Nat : l = d % 2 /\ l < 2
    OBVIOUS
  <2>4. (d * 128) % 256 = 128 * l
    BY <2>3
  <2>5. Paired(c, d, r) = h + 128 * l
    BY <1>2, <2>1, <2>2, <2>4, Powers DEF Paired, Right, Left
  <2>6. ((h + 128 * l) * 2) % 256 = 2 * h
    BY <2>2
  <2>7. Left(Paired(c, d, r), r + 1) = 2 * h
    BY <2>1, <2>5, <2>6, Powers DEF Left
  <2>8. (2 * h) \div 2 + (c % 1) = c
    BY <2>2
  <2>9. (h + 128 * l) \div 128 = l
    BY <2>2
  <2>10. Right(Paired(c, d, r), 7 - r) = l
    BY <2>1, <2>5, <2>9, Powers DEF Right
  <2>11. 2^r = 1 /\ 2^(r + 1) = 2
    BY <1>2, <2>1, Powers
  <2>12. Left(Paired(c, d, r), r + 1) \div 2 + (c % 2^r) = c
    BY <2>7, <2>8, <2>11
  <2>13. Right(Paired(c, d, r), 7 - r) = d % 2^(r + 1)
    BY <2>3, <2>10, <2>11
  <2> QED
    BY <2>12, <2>13
<1>3. CASE r = 1
  <2>1. r + 1 = 2 /\ 7 - r = 6
    BY <1>3
  <2>2. PICK h \in Nat : h = c \div 2 /\ h < 64
    OBVIOUS
  <2>3. PICK l \in Nat : l = d % 4 /\ l < 4
    OBVIOUS
  <2>4. (d * 64) % 256 = 64 * l
    BY <2>3
  <2>5. Paired(c, d, r) = h + 64 * l
    BY <1>3, <2>1, <2>2, <2>4, Powers DEF Paired, Right, Left
  <2>6. ((h + 64 * l) * 4) % 256 = 4 * h
    BY <2>2
  <2>7. Left(Paired(c, d, r), r + 1) = 4 * h
    BY <2>1, <2>5, <2>6, Powers DEF Left
  <2>8. (4 * h) \div 2 + (c % 2) = c
    BY <2>2
  <2>9. (h + 64 * l) \div 64 = l
    BY <2>2
  <2>10. Right(Paired(c, d, r), 7 - r) = l
    BY <2>1, <2>5, <2>9, Powers DEF Right
  <2>11. 2^r = 2 /\ 2^(r + 1) = 4
    BY <1>3, <2>1, Powers
  <2>12. Left(Paired(c, d, r), r + 1) \div 2 + (c % 2^r) = c
    BY <2>7, <2>8, <2>11
  <2>13. Right(Paired(c, d, r), 7 - r) = d % 2^(r + 1)
    BY <2>3, <2>10, <2>11
  <2> QED
    BY <2>12, <2>13
<1>4. CASE r = 2
  <2>1. r + 1 = 3 /\ 7 - r = 5
    BY <1>4
  <2>2. PICK h \in Nat : h = c \div 4 /\ h < 32
    OBVIOUS
  <2>3. PICK l \in Nat : l = d % 8 /\ l < 8
    OBVIOUS
  <2>4. (d * 32) % 256 = 32 * l
    BY <2>3
  <2>5. Paired(c, d, r) = h + 32 * l
    BY <1>4, <2>1, <2>2, <2>4, Powers DEF Paired, Right, Left
  <2>6. ((h + 32 * l) * 8) % 256 = 8 * h
    BY <2>2
  <2>7. Left(Paired(c, d, r), r + 1) = 8 * h
    BY <2>1, <2>5, <2>6, Powers DEF Left
  <2>8. (8 * h) \div 2 + (c % 4) = c
    BY <2>2
  <2>9. (h + 32 * l) \div 32 = l
    BY <2>2
  <2>10. Right(Paired(c, d, r), 7 - r) = l
    BY <2>1, <2>5, <2>9, Powers DEF Right
  <2>11. 2^r = 4 /\ 2^(r + 1) = 8
    BY <1>4, <2>1, Powers
  <2>12. Left(Paired(c, d, r), r + 1) \div 2 + (c % 2^r) = c
    BY <2>7, <2>8, <2>11
  <2>13. Right(Paired(c, d, r), 7 - r) = d % 2^(r + 1)
    BY <2>3, <2>10, <2>11
  <2> QED
    BY <2>12, <2>13
<1>5. CASE r = 3
  <2>1. r + 1 = 4 /\ 7 - r = 4
    BY <1>5
  <2>2. PICK h \in Nat : h = c \div 8 /\ h < 16
    OBVIOUS
  <2>3. PICK l \in Nat : l = d % 16 /\ l < 16
    OBVIOUS
  <2>4. (d * 16) % 256 = 16 * l
    BY <2>3
  <2>5. Paired(c, d, r) = h + 16 * l
    BY <1>5, <2>1, <2>2, <2>4, Powers DEF Paired, Right, Left
  <2>6. ((h + 16 * l) * 16) % 256 = 16 * h
    BY <2>2
  <2>7. Left(Paired(c, d, r), r + 1) = 16 * h
    BY <2>1, <2>5, <2>6, Powers DEF Left
  <2>8. (16 * h) \div 2 + (c % 8) = c
    BY <2>2
  <2>9. (h + 16 * l) \div 16 = l
    BY <2>2
  <2>10. Right(Paired(c, d, r), 7 - r) = l
    BY <2>1, <2>5, <2>9, Powers DEF Right
  <2>11. 2^r = 8 /\ 2^(r + 1) = 16
    BY <1>5, <2>1, Powers
  <2>12. Left(Paired(c, d, r), r + 1) \div 2 + (c % 2^r) = c
    BY <2>7, <2>8, <2>11
  <2>13. Right(Paired(c, d, r), 7 - r) = d % 2^(r + 1)
    BY <2>3, <2>10, <2>11
  <2> QED
    BY <2>12, <2>13
<1>6. CASE r = 4
  <2>1. r + 1 = 5 /\ 7 - r = 3
    BY <1>6
  <2>2. PICK h \in Nat : h = c \div 16 /\ h < 8
    OBVIOUS
  <2>3. PICK l \in Nat : l = d % 32 /\ l < 32
    OBVIOUS
  <2>4. (d * 8) % 256 = 8 * l
    BY <2>3
  <2>5. Paired(c, d, r) = h + 8 * l
    BY <1>6, <2>1, <2>2, <2>4, Powers DEF Paired, Right, Left
  <2>6. ((h + 8 * l) * 32) % 256 = 32 * h
    BY <2>2
  <2>7. Left(Paired(c, d, r), r + 1) = 32 * h
    BY <2>1, <2>5, <2>6, Powers DEF Left
  <2>8. (32 * h) \div 2 + (c % 16) = c
    BY <2>2
  <2>9. (h + 8 * l) \div 8 = l
    BY <2>2
  <2>10. Right(Paired(c, d, r), 7 - r) = l
    BY <2>1, <2>5, <2>9, Powers DEF Right
  <2>11. 2^r = 16 /\ 2^(r + 1) = 32
    BY <1>6, <2>1, Powers
  <2>12. Left(Paired(c, d, r), r + 1) \div 2 + (c % 2^r) = c
    BY <2>7, <2>8, <2>11
  <2>13. Right(Paired(c, d, r), 7 - r) = d % 2^(r + 1)
    BY <2>3, <2>10, <2>11
  <2> QED
    BY <2>12, <2>13
<1>7. CASE r = 5
  <2>1. r + 1 = 6 /\ 7 - r = 2
    BY <1>7
  <2>2. PICK h \in Nat : h = c \div 32 /\ h < 4
    OBVIOUS
  <2>3. PICK l \in Nat : l = d % 64 /\ l < 64
    OBVIOUS
  <2>4. (d * 4) % 256 = 4 * l
    BY <2>3
  <2>5. Paired(c, d, r) = h + 4 * l
    BY <1>7, <2>1, <2>2, <2>4, Powers DEF Paired, Right, Left
  <2>6. ((h + 4 * l) * 64) % 256 = 64 * h
    BY <2>2
  <2>7. Left(Paired(c, d, r), r + 1) = 64 * h
    BY <2>1, <2>5, <2>6, Powers DEF Left
  <2>8. (64 * h) \div 2 + (c % 32) = c
    BY <2>2
  <2>9. (h + 4 * l) \div 4 = l
    BY <2>2
  <2>10. Right(Paired(c, d, r), 7 - r) = l
    BY <2>1, <2>5, <2>9, Powers DEF Right
  <2>11. 2^r = 32 /\ 2^(r + 1) = 64
    BY <1>7, <2>1, Powers
  <2>12. Left(Paired(c, d, r), r + 1) \div 2 + (c % 2^r) = c
    BY <2>7, <2>8, <2>11
  <2>13. Right(Paired(c, d, r), 7 - r) = d % 2^(r + 1)
    BY <2>3, <2>10, <2>11
  <2> QED
    BY <2>12, <2>13
<1>8. CASE r = 6
  <2>1. r + 1 = 7 /\ 7 - r = 1
    BY <1>8
  <2>2. PICK h \in Nat : h = c \div 64 /\ h < 2
    OBVIOUS
  <2>3. PICK l \in Nat : l = d % 128 /\ l < 128
    OBVIOUS
  <2>4. (d * 2) % 256 = 2 * l
    BY <2>3
  <2>5. Paired(c, d, r) = h + 2 * l
    BY <1>8, <2>1, <2>2, <2>4, Powers DEF Paired, Right, Left
  <2>6. ((h + 2 * l) * 128) % 256 = 128 * h
    BY <2>2
  <2>7. Left(Paired(c, d, r), r + 1) = 128 * h
    BY <2>1, <2>5, <2>6, Powers, ZenonT(60) DEF Left
  <2>8. (128 * h) \div 2 + (c % 64) = c
    BY <2>2
  <2>9. (h + 2 * l) \div 2 = l
    BY <2>2
  <2>10. Right(Paired(c, d, r), 7 - r) = l
    BY <2>1, <2>5, <2>9, Powers DEF Right
  <2>11. 2^r = 64 /\ 2^(r + 1) = 128
    BY <1>8, <2>1, Powers
  <2>12. Left(Paired(c, d, r), r + 1) \div 2 + (c % 2^r) = c
    BY <2>7, <2>8, <2>11
  <2>13. Right(Paired(c, d, r), 7 - r) = d % 2^(r + 1)
    BY <2>3, <2>10, <2>11
  <2> QED
    BY <2>12, <2>13
<1> QED
  BY <1>1, <1>2, <1>3, <1>4, <1>5, <1>6, <1>7, <1>8

(* The first m characters, counting the zeros that follow the text. *)
Chars(text, m) == [i \in 1 .. m |-> Ext(text, i)]

(* They are a sequence of characters,                                      *)
LEMMA CharsType ==
  ASSUME NEW text \in Seq(0 .. 127), NEW m \in Nat
  PROVE  Chars(text, m) \in Seq(0 .. 127) /\ Len(Chars(text, m)) = m
<1>1. ASSUME NEW i \in 1 .. m
      PROVE  Ext(text, i) \in 0 .. 127
  <2>1. i \in Int
    OBVIOUS
  <2> QED
    BY <2>1, ExtType
<1>2. Chars(text, m) \in [1 .. m -> 0 .. 127]
  BY <1>1 DEF Chars
<1> QED
  BY <1>2

(* which the next one continues.                                           *)
LEMMA CharsGrow ==
  ASSUME NEW text \in Seq(0 .. 127), NEW m \in Nat, NEW x, x = Ext(text, m + 1)
  PROVE  Append(Chars(text, m), x) = Chars(text, m + 1)
<1>2. Chars(text, m) \in Seq(0 .. 127) /\ Len(Chars(text, m)) = m
  BY CharsType
<1>3. m + 1 \in Nat
  OBVIOUS
<1>4. Chars(text, m + 1) \in Seq(0 .. 127) /\ Len(Chars(text, m + 1)) = m + 1
  BY <1>3, CharsType
<1>5. x \in 0 .. 127
  <2>1. m + 1 \in Int
    OBVIOUS
  <2> QED
    BY <2>1, ExtType
<1>6. Append(Chars(text, m), x) \in Seq(0 .. 127) /\ Len(Append(Chars(text, m), x)) = m + 1
  BY <1>2, <1>5
<1>7. ASSUME NEW j \in 1 .. m + 1
      PROVE  Append(Chars(text, m), x)[j] = Chars(text, m + 1)[j]
  <2>1. Chars(text, m + 1)[j] = Ext(text, j)
    BY DEF Chars
  <2>2. CASE j = m + 1
    BY <1>2, <2>1, <2>2
  <2>3. CASE j # m + 1
    <3>1. j \in 1 .. m
      BY <2>3
    <3>2. Append(Chars(text, m), x)[j] = Chars(text, m)[j]
      BY <1>2, <3>1
    <3>3. Chars(text, m)[j] = Ext(text, j)
      BY <3>1 DEF Chars
    <3> QED
      BY <2>1, <3>2, <3>3
  <2> QED
    BY <2>2, <2>3
<1> QED
  BY <1>4, <1>6, <1>7, SeqEqual

(* What the decoder holds after 7q + r octets. *)
Carry(text, q, r) == IF r = 0 THEN 0 ELSE Ext(text, 8 * q + r + 1) % 2^r

DecodedTo(text, q, r) ==
  [s |-> r + 1, b |-> Carry(text, q, r), out |-> Chars(text, 8 * q + r)]

(* An octet more is a character more, and every seventh two.               *)
LEMMA DecodeOne ==
  ASSUME NEW text \in Seq(0 .. 127), NEW q \in Nat, NEW r \in 0 .. 6
  PROVE  DecodeStep(DecodedTo(text, q, r), PairAt(text, 7 * q + r + 1))
           = IF r = 6 THEN DecodedTo(text, q + 1, 0) ELSE DecodedTo(text, q, r + 1)
<1>1. PICK m \in Nat : m = 8 * q + r
  OBVIOUS
<1>2. m + 1 \in Int /\ m + 1 + 1 \in Int
  OBVIOUS
<1>3. PICK c \in 0 .. 127 : c = Ext(text, m + 1)
  BY <1>2, ExtType
<1>4. PICK d \in 0 .. 127 : d = Ext(text, m + 1 + 1)
  BY <1>2, ExtType
<1>5. PairAt(text, 7 * q + r + 1) = Paired(c, d, r)
  <2>1. (7 * q + r) \div 7 = q /\ (7 * q + r) % 7 = r
    BY SevenParts
  <2>2. 7 * q + r + 1 - 1 = 7 * q + r
    OBVIOUS
  <2>3. 7 * q + r + 1 + (7 * q + r + 1 - 1) \div 7 = m + 1 /\ (7 * q + r + 1 - 1) % 7 = r
    BY <1>1, <2>1, <2>2
  <2> QED
    BY <1>3, <1>4, <2>3 DEF PairAt
<1>6. PICK octet : octet = Paired(c, d, r)
  OBVIOUS
<1>7. /\ Left(octet, r + 1) \div 2 + (c % 2^r) = c
      /\ Right(octet, 7 - r) = d % 2^(r + 1)
  BY <1>6, PairSplits
<1>8. Carry(text, q, r) = c % 2^r
  <2>1. c % 1 = 0
    OBVIOUS
  <2>2. 8 * q + r + 1 = m + 1
    BY <1>1
  <2>3. CASE r = 0
    BY <2>1, <2>3, Powers DEF Carry
  <2>4. CASE r # 0
    BY <1>3, <2>2, <2>4 DEF Carry
  <2> QED
    BY <2>3, <2>4
<1>9. PICK a : a = DecodedTo(text, q, r)
  OBVIOUS
<1>10. a.s = r + 1 /\ a.b = c % 2^r /\ a.out = Chars(text, m)
  BY <1>1, <1>8, <1>9 DEF DecodedTo
<1>11. PICK b : b = Right(octet, 7 - r)
  OBVIOUS
<1>12. Right(octet, 8 - a.s) = b /\ Left(octet, a.s) \div 2 + a.b = c
  <2>1. 8 - (r + 1) = 7 - r
    OBVIOUS
  <2> QED
    BY <1>7, <1>10, <1>11, <2>1
<1>13. Append(Chars(text, m), c) = Chars(text, m + 1)
  BY <1>3, CharsGrow
<1>14. CASE r = 6
  <2>1. b = d
    <3>1. 2^(r + 1) = 128
      BY <1>14, Powers
    <3> QED
      BY <1>7, <1>11, <3>1, SMTT(60)
  <2>2. DecodeStep(a, octet) = [s |-> 1, b |-> 0, out |-> Chars(text, m) \o <<c, b>>]
    <3>1. a.s = 7
      BY <1>10, <1>14
    <3> QED
      BY <1>10, <1>12, <3>1 DEF DecodeStep
  <2>3. Chars(text, m) \o <<c, d>> = Append(Append(Chars(text, m), c), d)
    <3>1. Chars(text, m) \in Seq(0 .. 127)
      BY CharsType
    <3> QED
      BY <3>1
  <2>4. m + 1 \in Nat
    OBVIOUS
  <2>5. Append(Chars(text, m + 1), d) = Chars(text, m + 1 + 1)
    BY <1>4, <2>4, CharsGrow
  <2>6. DecodedTo(text, q + 1, 0) = [s |-> 1, b |-> 0, out |-> Chars(text, m + 1 + 1)]
    <3>1. 8 * (q + 1) + 0 = m + 1 + 1
      BY <1>1, <1>14
    <3> QED
      BY <3>1 DEF DecodedTo, Carry
  <2>7. DecodeStep(a, octet) = DecodedTo(text, q + 1, 0)
    BY <1>13, <2>1, <2>2, <2>3, <2>5, <2>6
  <2> QED
    BY <1>5, <1>6, <1>9, <1>14, <2>7
<1>15. CASE r # 6
  <2>1. a.s # 7
    BY <1>10, <1>15
  <2>2. DecodeStep(a, octet) = [s |-> a.s + 1, b |-> b, out |-> Append(Chars(text, m), c)]
    BY <1>10, <1>12, <2>1 DEF DecodeStep
  <2>3. Carry(text, q, r + 1) = b
    <3>1. 8 * q + (r + 1) + 1 = m + 1 + 1 /\ r + 1 # 0
      BY <1>1
    <3> QED
      BY <1>4, <1>7, <1>11, <3>1 DEF Carry
  <2>4. 8 * q + (r + 1) = m + 1
    BY <1>1
  <2>5. DecodedTo(text, q, r + 1) = [s |-> r + 1 + 1, b |-> b, out |-> Chars(text, m + 1)]
    BY <2>3, <2>4 DEF DecodedTo
  <2>6. DecodeStep(a, octet) = DecodedTo(text, q, r + 1)
    BY <1>10, <1>13, <2>2, <2>5
  <2> QED
    BY <1>5, <1>6, <1>9, <1>15, <2>6
<1> QED
  BY <1>14, <1>15

(* So the octets of a text hold its characters, followed by zeros. *)
LEMMA DecodedPairs ==
  ASSUME NEW text \in Seq(0 .. 127), NEW m \in Nat
  PROVE  hexstr_7bit_to_char(Pairs(text, m)) = Chars(text, m + m \div 7)
<1>1. Pairs(text, m) \in Seq(Nat) /\ Len(Pairs(text, m)) = m
  BY PairsType
<1>2. PICK g : /\ g[0] = DecodeBegin
               /\ \A k \in 0 .. m - 1 : g[k + 1] = DecodeStep(g[k], Pairs(text, m)[k + 1])
               /\ hexstr_7bit_to_char(Pairs(text, m)) = g[m].out
  BY <1>1, DecodeFold
<1> DEFINE Done(k) == g[k] = DecodedTo(text, k \div 7, k % 7)
<1> DEFINE T == {k \in Nat : k <= m => Done(k)}
<1>3. 0 \in T
  <2>1. 0 \div 7 = 0 /\ 0 % 7 = 0 /\ 8 * 0 + 0 = 0
    OBVIOUS
  <2>2. Chars(text, 0) = <<>>
    BY DEF Chars
  <2> QED
    BY <1>2, <2>1, <2>2 DEF DecodeBegin, DecodedTo, Carry
<1>4. ASSUME NEW k \in Nat, k \in T PROVE k + 1 \in T
  <2> SUFFICES ASSUME k + 1 <= m PROVE Done(k + 1)
    <3> HIDE DEF Done
    <3> QED
      OBVIOUS
  <2>1. k \in 0 .. m - 1 /\ k <= m /\ k + 1 \in 1 .. m
    OBVIOUS
  <2>2. PICK q \in Nat, r \in 0 .. 6 : k = 7 * q + r /\ k \div 7 = q /\ k % 7 = r
    <3>1. k \div 7 \in Nat
      OBVIOUS
    <3>2. k % 7 \in 0 .. 6
      OBVIOUS
    <3>3. k = 7 * (k \div 7) + (k % 7)
      OBVIOUS
    <3> QED
      BY <3>1, <3>2, <3>3
  <2>3. g[k] = DecodedTo(text, q, r)
    BY <1>4, <2>1, <2>2
  <2>4. Pairs(text, m)[k + 1] = PairAt(text, 7 * q + r + 1)
    BY <2>1, <2>2 DEF Pairs
  <2>5. g[k + 1] = IF r = 6 THEN DecodedTo(text, q + 1, 0) ELSE DecodedTo(text, q, r + 1)
    BY <1>2, <2>1, <2>3, <2>4, DecodeOne, ZenonT(60)
  <2>6. CASE r = 6
    <3>1. (k + 1) \div 7 = q + 1 /\ (k + 1) % 7 = 0
      <4>1. k + 1 = 7 * (q + 1) + 0 /\ q + 1 \in Nat
        BY <2>2, <2>6
      <4> QED
        BY <4>1
    <3> QED
      BY <2>5, <2>6, <3>1
  <2>7. CASE r # 6
    <3>1. (k + 1) \div 7 = q /\ (k + 1) % 7 = r + 1
      <4>1. k + 1 = 7 * q + (r + 1) /\ r + 1 \in 0 .. 6
        BY <2>2, <2>7
      <4> QED
        BY <4>1, SevenParts
    <3> QED
      BY <2>5, <2>7, <3>1
  <2> QED
    BY <2>6, <2>7
<1> HIDE DEF T
<1>5. m \in T
  BY <1>3, <1>4, SetInduction
<1>6. g[m].out = Chars(text, 8 * (m \div 7) + (m % 7))
  BY <1>5 DEF T, DecodedTo
<1>7. 8 * (m \div 7) + (m % 7) = m + m \div 7
  <2>1. m = 7 * (m \div 7) + (m % 7) /\ m \div 7 \in Nat /\ m % 7 \in 0 .. 6
    OBVIOUS
  <2> QED
    BY <2>1
<1> QED
  BY <1>2, <1>6, <1>7

(* A text without zeros, decoded and taken as a C string, is the text. *)
LEMMA ZerosCut ==
  ASSUME NEW text \in Seq(1 .. 127), NEW x \in {0, 1}
  PROVE  CString(Chars(text, Len(text) + x)) = text
<1>1. PICK n \in Nat : n = Len(text)
  OBVIOUS
<1>2. PICK s : s = Chars(text, n + x)
  OBVIOUS
<1>3. n + x \in Nat
  OBVIOUS
<1>4. \A i \in 1 .. n : text[i] \in 1 .. 127
  BY <1>1, ElementType
<1>10. text \in Seq(0 .. 127)
  <2>1. \A i \in 1 .. n : text[i] \in 0 .. 127
    BY <1>4
  <2> QED
    BY <1>1, <2>1
<1>5. s \in Seq(0 .. 127) /\ Len(s) = n + x
  BY <1>2, <1>3, <1>10, CharsType
<1>6. ASSUME NEW i \in 1 .. n
      PROVE  s[i] = text[i] /\ s[i] # 0
  <2>1. i \in 1 .. n + x
    OBVIOUS
  <2>2. s[i] = Ext(text, i)
    BY <1>2, <2>1 DEF Chars
  <2>3. text[i] \in 1 .. 127
    BY <1>4
  <2>4. Ext(text, i) = text[i]
    BY <1>1 DEF Ext
  <2>5. text[i] # 0
    <3>1. \A c \in 1 .. 127 : c # 0
      OBVIOUS
    <3> QED
      BY <2>3, <3>1
  <2> QED
    BY <2>2, <2>4, <2>5
<1>7. DOMAIN s = 1 .. n + x
  BY <1>5
<1>8. CASE x = 0
  <2>1. {i \in DOMAIN s : s[i] = 0} = {}
    BY <1>6, <1>7, <1>8
  <2>3. s = text
    BY <1>1, <1>5, <1>6, <1>8, <1>10, SeqEqual
  <2> QED
    BY <1>1, <1>2, <2>1, <2>3 DEF CString
<1>9. CASE x = 1
  <2>1. s[n + 1] = 0
    BY <1>1, <1>2, <1>9 DEF Chars, Ext
  <2>2. {i \in DOMAIN s : s[i] = 0} = {n + 1}
    BY <1>6, <1>7, <1>9, <2>1
  <2>3. CString(s) = SubSeq(s, 1, n)
    <3>1. (CHOOSE i \in {n + 1} : \A j \in {n + 1} : i <= j) = n + 1
      OBVIOUS
    <3>2. n + 1 - 1 = n /\ {n + 1} # {}
      OBVIOUS
    <3>3. PICK zeros : zeros = {i \in DOMAIN s : s[i] = 0}
      OBVIOUS
    <3>4. CString(s) = IF zeros = {} THEN s
                       ELSE SubSeq(s, 1, (CHOOSE i \in zeros : \A j \in zeros : i <= j) - 1)
      BY <3>3 DEF CString
    <3>5. zeros = {n + 1}
      BY <2>2, <3>3
    <3> QED
      BY <3>1, <3>2, <3>4, <3>5
  <2>4. SubSeq(s, 1, n) \in Seq(0 .. 127) /\ Len(SubSeq(s, 1, n)) = n
    <3>1. Len(s) = n + 1 /\ n <= Len(s)
      BY <1>5, <1>9
    <3>2. \A i \in 1 .. n : s[i] \in 0 .. 127
      <4>1. \A i \in 1 .. n : text[i] \in 0 .. 127
        BY <1>1, <1>10, ElementType
      <4> QED
        BY <1>6, <4>1
    <3>3. SubSeq(s, 1, n) = [i \in 1 .. n |-> s[i]]
      BY <1>5, <3>1
    <3> QED
      BY <3>2, <3>3
  <2>5. \A i \in 1 .. n : SubSeq(s, 1, n)[i] = text[i]
    BY <1>5, <1>6, <1>9
  <2>7. SubSeq(s, 1, n) = text
    BY <1>1, <1>10, <2>4, <2>5, SeqEqual
  <2> QED
    BY <1>1, <1>2, <2>3, <2>7
<1> QED
  BY <1>8, <1>9

(* What USSD encodes of a text without zeros it decodes to that text.      *)
LEMMA UssdDecodes ==
  ASSUME NEW text \in Seq(1 .. 127), text # <<>>
  PROVE  CString(hexstr_7bit_to_char(char_to_hexstr_7bit(text))) = text
<1>1. text \in Seq(0 .. 127)
  <2>1. \A i \in 1 .. Len(text) : text[i] \in 0 .. 127
    BY ElementType
  <2> QED
    BY <2>1
<1>2. PICK n \in Nat : n + 1 = Len(text)
  <2>1. Len(text) \in Nat /\ Len(text) # 0
    BY EmptySeq
  <2>2. Len(text) - 1 \in Nat /\ Len(text) - 1 + 1 = Len(text)
    BY <2>1
  <2> QED
    BY <2>2
<1>3. PICK m \in Nat : m = n - (n \div 8) + 1
  OBVIOUS
<1>4. char_to_hexstr_7bit(text) = Pairs(text, m)
  BY <1>1, <1>2, <1>3, Encoded
<1>5. PICK x \in {0, 1} : m + m \div 7 = n + 1 + x
  <2>1. PICK q \in Nat, t \in 0 .. 7 : n = 8 * q + t
    <3>1. n \div 8 \in Nat
      OBVIOUS
    <3>2. n % 8 \in 0 .. 7
      OBVIOUS
    <3>3. n = 8 * (n \div 8) + (n % 8)
      OBVIOUS
    <3> QED
      BY <3>1, <3>2, <3>3
  <2>2. n \div 8 = q
    BY <2>1
  <2>3. m = 7 * q + t + 1
    BY <1>3, <2>1, <2>2
  <2>4. CASE t < 6
    <3>1. m \div 7 = q
      BY <2>3, <2>4
    <3> QED
      BY <2>1, <2>3, <3>1
  <2>5. CASE ~ (t < 6)
    <3>1. m \div 7 = q + 1
      BY <2>3, <2>5
    <3> QED
      BY <2>1, <2>3, <3>1
  <2> QED
    BY <2>4, <2>5
<1>6. hexstr_7bit_to_char(char_to_hexstr_7bit(text)) = Chars(text, m + m \div 7)
  BY <1>1, <1>4, DecodedPairs
<1>7. m + m \div 7 = Len(text) + x
  BY <1>2, <1>5
<1>8. CString(Chars(text, Len(text) + x)) = text
  BY ZerosCut
<1> QED
  BY <1>6, <1>7, <1>8

-----------------------------------------------------------------------------

(* The driver's two packers agree on every text (text2pdu,                 *)
(* char_to_hexstr_7bit).                                                   *)
THEOREM PackersAgreeHolds == Spec => []PackersAgree
<1>1. IInv => PackersAgree
  BY MessageType, PackersDo DEF IInv, Inputs, PackersAgree
<1> QED
  BY <1>1, Kept, PTL

(* A USSD of any length, without "@", is decoded as it was encoded         *)
(* (encodeUSSD, at_response_cusd).                                         *)
THEOREM UssdRoundTripHolds == Spec => []UssdRoundTrip
<1>1. IInv => UssdRoundTrip
  <2> SUFFICES ASSUME IInv, message # <<>>, 0 \notin {message[i] : i \in DOMAIN message}
               PROVE  CString(hexstr_7bit_to_char(char_to_hexstr_7bit(message))) = message
    BY DEF UssdRoundTrip
  <2>1. message \in Seq(0 .. 127)
    BY MessageType DEF IInv, Inputs
  <2>2. \A i \in 1 .. Len(message) : message[i] \in 1 .. 127
    <3>1. \A i \in 1 .. Len(message) : message[i] \in 0 .. 127 /\ message[i] # 0
      BY <2>1
    <3>2. \A c \in 0 .. 127 : c # 0 => c \in 1 .. 127
      OBVIOUS
    <3> QED
      BY <3>1, <3>2
  <2>3. message \in Seq(1 .. 127)
    <3>1. PICK n \in Nat : n = Len(message) /\ message = [i \in 1 .. n |-> message[i]]
      BY <2>1
    <3>2. message \in [1 .. n -> 1 .. 127]
      BY <2>2, <3>1
    <3> QED
      BY <3>2, IsSequence
  <2> QED
    BY <2>3, UssdDecodes
<1> QED
  BY <1>1, Kept, PTL
=============================================================================
