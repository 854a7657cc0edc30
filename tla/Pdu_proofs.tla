----------------------------- MODULE Pdu_proofs -----------------------------
(***************************************************************************)
(* What MCFormats says of whole messages, of reports, of messages to       *)
(* submit and of the lines of the modem, for every bound.  An address of   *)
(* any length is read as it was written (Formed), and so is the address of *)
(* a service centre (CentreFound).  What follows is read where the address *)
(* ends (BodyShape), so that a whole message or report is read back and    *)
(* one that is cut short fails one of the tests of length on the way.  A   *)
(* message to submit has its fields where the network looks for them.  In  *)
(* a line that quotes a text, the first and last token of a kind are where *)
(* the line is put together; in one of +CREG, the loop is followed state   *)
(* by state to where each field begins.                                    *)
(***************************************************************************)
EXTENDS MCFormats, UserData_proofs

Digit == 0 .. 9

-----------------------------------------------------------------------------
(* Arithmetic, apart from sequences.                                       *)

LEMMA Halves == \A n \in Nat : n % 2 = 0 => 2 * (n \div 2) = n
OBVIOUS

LEMMA HalfOf == \A k \in Nat : k \div 2 \in Nat /\ 2 * (k \div 2) <= k
OBVIOUS

LEMMA OddPlace == \A k \in Nat : k % 2 = 1 => 2 * ((k + 1) \div 2) - 1 = k
OBVIOUS

LEMMA EvenPlace == \A k \in Nat : k % 2 = 0 => 2 * ((k + 1) \div 2) = k
OBVIOUS

LEMMA Nibbles ==
  \A a, b \in 0 .. 15 : (a + 16 * b) % 16 = a /\ (a + 16 * b) \div 16 = b
OBVIOUS

LEMMA Parity == \A n \in Nat : (n % 2 = 0 \/ n % 2 = 1) /\ (n % 2 = 1 => (n + 1) % 2 = 0)
OBVIOUS

-----------------------------------------------------------------------------

(* What is padded has an even length, and digits of four bits. *)
LEMMA PaddedShape ==
  ASSUME NEW n \in Seq(Digit)
  PROVE  /\ Padded(n) \in Seq(0 .. 15)
         /\ Len(Padded(n)) % 2 = 0
         /\ IF Len(n) % 2 = 1 THEN Padded(n) = Append(n, Fill) ELSE Padded(n) = n
<1>1. n \in Seq(0 .. 15)
  BY DEF Digit
<1>2. Len(n) \in Nat
  OBVIOUS
<1>3. CASE Len(n) % 2 = 1
  <2>1. Padded(n) = Append(n, 15) /\ Len(Append(n, 15)) = Len(n) + 1
    BY <1>1, <1>3 DEF Padded, Fill
  <2>2. Append(n, 15) \in Seq(0 .. 15)
    BY <1>1
  <2>3. QED
    BY <1>2, <1>3, <2>1, <2>2, Parity DEF Fill
<1>4. CASE Len(n) % 2 # 1
  BY <1>1, <1>2, <1>4, Parity DEF Padded
<1>5. QED
  BY <1>3, <1>4

(* Reading the semi-octets of what was written gives the padded number. *)
LEMMA SemiOctetsOfOctets ==
  ASSUME NEW n \in Seq(Digit)
  PROVE  SemiOctets(Octets(n)) = Padded(n)
<1> DEFINE semi == Padded(n)
<1> DEFINE octets == Octets(n)
<1>1. semi \in Seq(0 .. 15) /\ Len(semi) \in Nat /\ Len(semi) % 2 = 0
  BY PaddedShape
<1>2. PICK half \in Nat : half = Len(semi) \div 2 /\ 2 * half = Len(semi)
  BY <1>1, HalfOf, Halves
<1>3. octets = [k \in 1 .. half |-> semi[2 * k - 1] + 16 * semi[2 * k]]
  BY <1>2 DEF Octets
<1>4. Len(octets) = half
  BY <1>3
<1>5. SemiOctets(octets) =
        [k \in 1 .. 2 * half |->
           IF k % 2 = 1 THEN octets[(k + 1) \div 2] % 16 ELSE octets[(k + 1) \div 2] \div 16]
  BY <1>4 DEF SemiOctets
<1>6. ASSUME NEW k \in 1 .. 2 * half
      PROVE  (IF k % 2 = 1 THEN octets[(k + 1) \div 2] % 16 ELSE octets[(k + 1) \div 2] \div 16)
               = semi[k]
  <2>1. k \in Nat /\ (k + 1) \div 2 \in 1 .. half
    BY <1>6
  <2>2. PICK j \in 1 .. half : j = (k + 1) \div 2
    BY <2>1
  <2>3. octets[j] = semi[2 * j - 1] + 16 * semi[2 * j]
    BY <1>3
  <2>4. semi[2 * j - 1] \in 0 .. 15 /\ semi[2 * j] \in 0 .. 15
    <3>1. 2 * j - 1 \in 1 .. Len(semi) /\ 2 * j \in 1 .. Len(semi)
      BY <1>2
    <3>2. QED
      BY <3>1, <1>1, ElementType
  <2>5. PICK a \in 0 .. 15, b \in 0 .. 15 : a = semi[2 * j - 1] /\ b = semi[2 * j]
    BY <2>4
  <2>6. octets[j] % 16 = a /\ octets[j] \div 16 = b
    <3>1. octets[j] = a + 16 * b
      BY <2>3, <2>5
    <3>2. QED
      BY <3>1, Nibbles
  <2>7. CASE k % 2 = 1
    BY <2>1, <2>2, <2>5, <2>6, <2>7, OddPlace
  <2>8. CASE k % 2 # 1
    BY <2>1, <2>2, <2>5, <2>6, <2>8, EvenPlace, Parity
  <2>9. QED
    BY <2>7, <2>8
<1>7. semi = [k \in 1 .. 2 * half |-> semi[k]]
  BY <1>1, <1>2
<1>8. QED
  BY <1>5, <1>6, <1>7

(* A number of any length, odd or even, is read as it was written: what    *)
(* generate writes with swapchars and "F", parseDeliver and parseSMSC      *)
(* read with swapchars and without "F".                                    *)
THEOREM NumberRoundTrip ==
  \A n \in Seq(Digit) : DropFill(SemiOctets(Octets(n))) = n
<1> SUFFICES ASSUME NEW n \in Seq(Digit)
             PROVE  DropFill(Padded(n)) = n
  BY SemiOctetsOfOctets
<1>1. CASE Len(n) % 2 = 1
  <2>1. Padded(n) = Append(n, 15)
    BY <1>1, PaddedShape DEF Fill
  <2>2. /\ Append(n, 15) # <<>>
        /\ Len(Append(n, 15)) = Len(n) + 1
        /\ Append(n, 15)[Len(n) + 1] = 15
        /\ SubSeq(Append(n, 15), 1, Len(n)) = n
    BY DEF Digit
  <2>3. Len(Append(n, 15)) - 1 = Len(n)
    BY <2>2
  <2>4. DropFill(Append(n, 15)) = SubSeq(Append(n, 15), 1, Len(n))
    BY <2>2, <2>3 DEF DropFill, Fill
  <2>5. QED
    BY <2>1, <2>2, <2>4
<1>2. CASE Len(n) % 2 # 1
  <2>1. Padded(n) = n
    BY <1>2, PaddedShape
  <2>2. n # <<>> => n[Len(n)] \in Digit
    OBVIOUS
  <2>3. QED
    BY <2>1, <2>2 DEF DropFill, Fill, Digit
<1>3. QED
  BY <1>1, <1>2

(* The length of a name is counted in semi-octets, the next whole number   *)
(* above 7/4 of its characters: 4/7 of it gives back their number, for a   *)
(* name of any length (parseDeliver, parseStatusReport).                   *)
THEOREM NameLength ==
  \A chars \in Nat : NameSeptets((7 * chars + 3) \div 4) = chars
<1> SUFFICES ASSUME NEW chars \in Nat
             PROVE  NameSeptets((7 * chars + 3) \div 4) = chars
  OBVIOUS
<1>1. PICK length \in Nat : /\ length = (7 * chars + 3) \div 4
                            /\ 7 * chars <= 4 * length /\ 4 * length <= 7 * chars + 3
  OBVIOUS
<1>2. (length * 4) \div 7 = chars
  BY <1>1
<1>3. QED
  BY <1>1, <1>2 DEF NameSeptets

(* The octets a name announces hold its characters: the text it is given   *)
(* to pdu2text as is never refused for being cut.                          *)
THEOREM NameFits ==
  \A length \in Nat : (7 * NameSeptets(length) + 7) \div 8 <= AddressOctets(length)
<1> SUFFICES ASSUME NEW length \in Nat
             PROVE  (7 * NameSeptets(length) + 7) \div 8 <= AddressOctets(length)
  OBVIOUS
<1>1. PICK s \in Nat : s = (length * 4) \div 7 /\ 7 * s <= 4 * length
  OBVIOUS
<1>2. (7 * s + 7) \div 8 <= (length + 1) \div 2
  BY <1>1
<1>3. QED
  BY <1>1, <1>2 DEF NameSeptets, AddressOctets

-----------------------------------------------------------------------------
(* Sequences made of two.                                                  *)

(* The first of two parts of a sequence is cut out whole.                  *)
LEMMA FirstPart ==
  ASSUME NEW a \in Seq(Nat), NEW b \in Seq(Nat), NEW m, m = Len(a)
  PROVE  SubSeq(a \o b, 1, m) = a
<1>1. m \in Nat
  OBVIOUS
<1>2. PICK s \in Seq(Nat) : s = a \o b
  BY ConcatProperties
<1>3. Len(s) = Len(a) + Len(b) /\ \A i \in 1 .. m : s[i] = a[i]
  BY <1>1, <1>2
<1>4. SubSeq(s, 1, m) = [i \in 1 .. m |-> s[i]]
  BY <1>1, <1>3
<1>5. a = [i \in 1 .. m |-> a[i]]
  OBVIOUS
<1> QED
  BY <1>2, <1>3, <1>4, <1>5

(* So is the second, which is what is behind the first.                    *)
LEMMA SecondPart ==
  ASSUME NEW a \in Seq(Nat), NEW b \in Seq(Nat), NEW m, m = Len(a) + 1
  PROVE  From(a \o b, m) = b
<1>1. PICK k \in Nat : k = Len(a)
  OBVIOUS
<1>2. PICK n \in Nat : n = Len(b)
  OBVIOUS
<1>3. PICK s \in Seq(Nat) : s = a \o b
  BY ConcatProperties
<1>4. Len(s) = k + n /\ \A i \in 1 .. n : s[k + i] = b[i]
  BY <1>1, <1>2, <1>3
<1>5. PICK t : t = SubSeq(s, k + 1, k + n)
  OBVIOUS
<1>6. \A i \in k + 1 .. k + n : s[i] \in Nat
  BY <1>4
<1>7. k + n - (k + 1) + 1 = n
  OBVIOUS
<1>8. t \in Seq(Nat) /\ Len(t) = n /\ \A i \in 1 .. n : t[i] = s[k + 1 + i - 1]
  BY <1>5, <1>6, <1>7, SubSeqProperties
<1>9. \A i \in 1 .. n : t[i] = b[i]
  <2> SUFFICES ASSUME NEW i \in 1 .. n PROVE t[i] = b[i]
    OBVIOUS
  <2>1. k + 1 + i - 1 = k + i
    OBVIOUS
  <2> QED
    BY <1>4, <1>8, <2>1
<1>10. t = b
  BY <1>2, <1>8, <1>9, SeqEqual
<1> QED
  BY <1>1, <1>3, <1>4, <1>5, <1>10 DEF From

(* The type, the length and the first elements of two parts.               *)
LEMMA PartsShape ==
  ASSUME NEW a \in Seq(Nat), NEW b \in Seq(Nat)
  PROVE  /\ a \o b \in Seq(Nat) /\ Len(a \o b) = Len(a) + Len(b)
         /\ \A i \in 1 .. Len(a) : (a \o b)[i] = a[i]
BY ConcatProperties

(* Of three, any two may be joined first; a name of its own, for the       *)
(* provers to instantiate.                                                 *)
EitherFirst(a, b, c) == (a \o b) \o c = a \o (b \o c)

LEMMA Regroup ==
  ASSUME NEW a \in Seq(Nat), NEW b \in Seq(Nat), NEW c \in Seq(Nat)
  PROVE  EitherFirst(a, b, c)
BY ConcatAssociative, SMTT(60) DEF EitherFirst

(* The same of four.                                                       *)
JoinedLater(a, b, c, d) == ((a \o b) \o c) \o d = a \o (b \o (c \o d))

(* Of four parts, the last three may be joined first.                      *)
LEMMA RegroupFour ==
  ASSUME NEW a \in Seq(Nat), NEW b \in Seq(Nat), NEW c \in Seq(Nat), NEW d \in Seq(Nat)
  PROVE  JoinedLater(a, b, c, d)
<1>1. (a \o b) \o c = a \o (b \o c)
  BY Regroup, SMTT(60) DEF EitherFirst
<1>2. (b \o c) \o d = b \o (c \o d)
  BY Regroup, SMTT(60) DEF EitherFirst
<1>3. PICK both \in Seq(Nat) : both = b \o c
  <2>1. b \o c \in Seq(Nat)
    BY ConcatProperties
  <2> QED
    BY <2>1
<1>4. (a \o both) \o d = a \o (both \o d)
  BY Regroup, SMTT(60) DEF EitherFirst
<1> QED
  BY <1>1, <1>2, <1>3, <1>4 DEF JoinedLater

(* A sequence without elements, and no other, is empty.                    *)
LEMMA NotEmpty ==
  ASSUME NEW s \in Seq(Nat)
  PROVE  s # <<>> <=> Len(s) >= 1
BY EmptySeq

(* What is left when the end is lost.                                      *)
LEMMA LeftPart ==
  ASSUME NEW s \in Seq(Nat), NEW k \in Nat, k <= Len(s)
  PROVE  SubSeq(s, 1, k) \in Seq(Nat) /\ Len(SubSeq(s, 1, k)) = k
OBVIOUS

(* A slice of the first is a slice of both.                                *)
LEMMA SliceOfFirst ==
  ASSUME NEW a \in Seq(Nat), NEW b \in Seq(Nat),
         NEW m \in 1 .. Len(a), NEW n \in 1 .. Len(a)
  PROVE  SubSeq(a \o b, m, n) = SubSeq(a, m, n)
BY SubSeqOfConcat1

(* What is left behind the first octets.                                   *)
LEMMA FromShape ==
  ASSUME NEW s \in Seq(Nat), NEW m \in Nat \ {0}, m <= Len(s) + 1
  PROVE  /\ From(s, m) \in Seq(Nat) /\ Len(From(s, m)) = Len(s) - m + 1
         /\ \A i \in 1 .. Len(s) - m + 1 : From(s, m)[i] = s[m + i - 1]
<1>1. PICK n \in Int : n = Len(s) /\ n >= 0
  OBVIOUS
<1>2. \A i \in m .. n : s[i] \in Nat
  <2>1. \A i \in 1 .. n : s[i] \in Nat
    BY <1>1, ElementType
  <2>2. m .. n \subseteq 1 .. n
    OBVIOUS
  <2> QED
    BY <2>1, <2>2
<1>3. PICK t : t = SubSeq(s, m, n)
  OBVIOUS
<1>4. m \in Int
  OBVIOUS
<1>5. /\ t \in Seq(Nat) /\ Len(t) = IF m <= n THEN n - m + 1 ELSE 0
      /\ \A i \in 1 .. n - m + 1 : t[i] = s[m + i - 1]
  BY <1>2, <1>3, <1>4, SubSeqProperties
<1>6. Len(t) = n - m + 1
  BY <1>1, <1>5
<1> QED
  BY <1>1, <1>3, <1>5, <1>6 DEF From

-----------------------------------------------------------------------------
(* Addresses as the network spells them.                                   *)

(* Its spelling of a number is the driver's.                               *)
LEMMA SpelledIsOctets ==
  ASSUME NEW n \in Seq(Digit)
  PROVE  Spelled(n) = Octets(n)
<1>1. PICK len \in Nat : len = Len(n)
  OBVIOUS
<1>2. CASE len % 2 = 1
  <2>1. Padded(n) = Append(n, 15) /\ Len(Append(n, 15)) = len + 1
    BY <1>1, <1>2, PaddedShape DEF Fill
  <2>2. \A k \in 1 .. len : Append(n, 15)[k] = n[k]
    BY <1>1
  <2>3. Append(n, 15)[len + 1] = 15
    BY <1>1
  <2>4. ASSUME NEW k \in 1 .. (len + 1) \div 2
        PROVE  /\ Append(n, 15)[2 * k - 1] = n[2 * k - 1]
               /\ Append(n, 15)[2 * k] = IF 2 * k <= len THEN n[2 * k] ELSE 15
    <3>1. 2 * k - 1 \in 1 .. len
      BY <1>2
    <3>2. CASE 2 * k <= len
      <4>1. 2 * k \in 1 .. len
        BY <3>2
      <4> QED
        BY <2>2, <3>1, <3>2, <4>1
    <3>3. CASE ~(2 * k <= len)
      <4>1. 2 * k = len + 1
        BY <3>1, <3>3
      <4> QED
        BY <2>2, <2>3, <3>1, <3>3, <4>1
    <3> QED
      BY <3>2, <3>3
  <2> QED
    BY <1>1, <2>1, <2>4 DEF Spelled, Octets
<1>3. CASE len % 2 # 1
  <2>1. Padded(n) = n
    BY <1>1, <1>3, PaddedShape
  <2>2. (len + 1) \div 2 = len \div 2
    BY <1>3
  <2>3. \A k \in 1 .. len \div 2 : 2 * k <= len
    OBVIOUS
  <2> QED
    BY <1>1, <2>1, <2>2, <2>3 DEF Spelled, Octets
<1> QED
  BY <1>2, <1>3

(* It takes two digits an octet.                                           *)
LEMMA SpelledShape ==
  ASSUME NEW n \in Seq(Digit)
  PROVE  /\ Spelled(n) \in Seq(Nat) /\ Len(Spelled(n)) = AddressOctets(Len(n))
         /\ DropFill(SemiOctets(Spelled(n))) = n
<1>1. PICK len \in Nat : len = Len(n)
  OBVIOUS
<1>2. PICK half \in Nat : half = (len + 1) \div 2
  OBVIOUS
<1>3. ASSUME NEW k \in 1 .. half
      PROVE  n[2 * k - 1] + 16 * (IF 2 * k <= len THEN n[2 * k] ELSE 15) \in Nat
  <2>1. 2 * k - 1 \in 1 .. len
    BY <1>2
  <2>2. n[2 * k - 1] \in 0 .. 9
    BY <1>1, <2>1, ElementType DEF Digit
  <2>3. CASE 2 * k <= len
    <3>1. n[2 * k] \in 0 .. 9
      <4>1. 2 * k \in 1 .. len
        BY <2>3
      <4> QED
        BY <1>1, <4>1, ElementType DEF Digit
    <3>2. PICK u \in 0 .. 9, v \in 0 .. 9 : u = n[2 * k - 1] /\ v = n[2 * k]
      BY <2>2, <3>1
    <3>3. u + 16 * v \in Nat
      OBVIOUS
    <3> QED
      BY <2>3, <3>2, <3>3
  <2>4. CASE ~(2 * k <= len)
    BY <2>2, <2>4
  <2> QED
    BY <2>3, <2>4
<1>4. Spelled(n) = [k \in 1 .. half |-> n[2 * k - 1] + 16 * (IF 2 * k <= len THEN n[2 * k] ELSE 15)]
  BY <1>1, <1>2 DEF Spelled
<1>5. Spelled(n) \in [1 .. half -> Nat]
  BY <1>3, <1>4
<1>6. Spelled(n) \in Seq(Nat) /\ Len(Spelled(n)) = half
  BY <1>5
<1> QED
  BY <1>1, <1>2, <1>6, SpelledIsOctets, NumberRoundTrip DEF AddressOctets

(* What an address looks like that reads as what is shown.                 *)
Formed(address, shown) ==
  /\ address \in Seq(Nat) /\ Len(address) >= 2 /\ address[1] <= max_number
  /\ Len(address) = 2 + AddressOctets(address[1])
  /\ IF address[1] = 0 THEN shown = <<>>
     ELSE /\ IsType(address[2])
          /\ Alphanumeric(address[2]) \/ 2 * AddressOctets(address[1]) < max_number
          /\ Sender(address[1], address[2], SubSeq(address, 3, Len(address))) = shown

(* Two octets before a sequence, as an address has them.                   *)
LEMMA TwoAndMore ==
  ASSUME NEW x \in Nat, NEW y \in Nat, NEW b \in Seq(Nat), NEW a, a = <<x, y>> \o b
  PROVE  /\ a \in Seq(Nat) /\ Len(a) = 2 + Len(b) /\ a[1] = x /\ a[2] = y
         /\ SubSeq(a, 3, Len(a)) = b
<1>1. PICK p \in Seq(Nat) : p = <<x, y>>
  <2>1. <<x, y>> \in Seq(Nat)
    OBVIOUS
  <2> QED
    BY <2>1
<1>4. Len(p) = 2 /\ p[1] = x /\ p[2] = y /\ 3 = Len(p) + 1
  BY <1>1
<1>2. a \in Seq(Nat) /\ Len(a) = 2 + Len(b) /\ a[1] = x /\ a[2] = y
  <2>1. 1 \in 1 .. Len(p) /\ 2 \in 1 .. Len(p)
    BY <1>4
  <2> QED
    BY <1>1, <1>4, <2>1, PartsShape
<1>3. From(p \o b, 3) = b
  BY <1>4, SecondPart
<1> QED
  BY <1>1, <1>2, <1>3 DEF From

(* A number is formed so, whether its digits are even or odd in number.    *)
LEMMA NumberFormed ==
  ASSUME NEW n \in Seq(Digit), n # <<>>, Len(n) <= max_number,
         2 * AddressOctets(Len(n)) < max_number
  PROVE  Formed(NumberSender(n).octets, n)
<1>1. PICK len \in Nat \ {0} : len = Len(n)
  BY EmptySeq
<1>2. PICK b \in Seq(Nat) : b = Spelled(n)
  BY SpelledShape
<1>3. PICK a : a = <<len, 145>> \o b
  OBVIOUS
<1>4. /\ a \in Seq(Nat) /\ Len(a) = 2 + Len(b) /\ a[1] = len /\ a[2] = 145
      /\ SubSeq(a, 3, Len(a)) = b
  BY <1>3, TwoAndMore
<1>5. Len(b) = AddressOctets(len) /\ DropFill(SemiOctets(b)) = n
  BY <1>1, <1>2, SpelledShape
<1>6. ~Alphanumeric(145) /\ IsType(145)
  BY DEF Alphanumeric, IsType
<1>7. Sender(len, 145, b) = n
  BY <1>5, <1>6 DEF Sender
<1>8. Len(a) >= 2
  BY <1>4
<1>9. Formed(a, n)
  <2>1. IsType(a[2]) /\ Sender(a[1], a[2], SubSeq(a, 3, Len(a))) = n
    BY <1>4, <1>6, <1>7
  <2>2. a[1] # 0 /\ a[1] <= max_number /\ Len(a) = 2 + AddressOctets(a[1])
    BY <1>1, <1>4, <1>5
  <2>3. 2 * AddressOctets(a[1]) < max_number
    BY <1>1, <1>4
  <2> QED
    BY <1>4, <1>8, <2>1, <2>2, <2>3 DEF Formed
<1> QED
  BY <1>1, <1>2, <1>3, <1>9 DEF NumberSender

(* Without zeros, nothing is cut.                                          *)
LEMMA NoZeros ==
  ASSUME NEW s \in Seq(1 .. 127)
  PROVE  CString(s) = s
<1>1. \A i \in DOMAIN s : s[i] # 0
  <2>1. \A c \in 1 .. 127 : c # 0
    OBVIOUS
  <2>2. \A i \in 1 .. Len(s) : s[i] \in 1 .. 127
    BY ElementType
  <2>3. DOMAIN s = 1 .. Len(s)
    OBVIOUS
  <2> QED
    BY <2>1, <2>2, <2>3
<1>2. {i \in DOMAIN s : s[i] = 0} = {}
  BY <1>1
<1> QED
  BY <1>2 DEF CString

(* A name is packed in as many octets as its length in semi-octets means.  *)
LEMMA NameOctets ==
  ASSUME NEW n \in Nat \ {0}
  PROVE  (7 * (n - 1) + 6 + 0) \div 8 + 1 = AddressOctets((7 * n + 3) \div 4)
<1>1. PICK h \in Nat : h = (7 * n + 3) \div 4
  OBVIOUS
<1>2. (7 * (n - 1) + 6 + 0) \div 8 + 1 = (h + 1) \div 2
  BY <1>1
<1> QED
  BY <1>1, <1>2 DEF AddressOctets

(* So is a name, seven bits a character.                                   *)
LEMMA NameFormed ==
  ASSUME NEW name \in Seq(1 .. 127), name # <<>>, (7 * Len(name) + 3) \div 4 <= max_number
  PROVE  Formed(NameSender(name).octets, name)
<1>1. PICK n \in Nat \ {0} : n = Len(name)
  BY EmptySeq
<1>2. name \in Seq(0 .. 127)
  <2>1. \A i \in 1 .. Len(name) : name[i] \in 0 .. 127
    BY ElementType
  <2>2. name \in [1 .. n -> 0 .. 127]
    <3>1. name = [i \in 1 .. n |-> name[i]]
      BY <1>1
    <3> QED
      BY <1>1, <2>1, <3>1
  <2> QED
    BY <2>2, IsSequence
<1>3. PICK b \in Seq(Nat) : b = Packed(name, 0)
  BY <1>2, PackedType
<1>4. PICK semi \in Nat : semi = (7 * n + 3) \div 4
  OBVIOUS
<1>5. semi # 0
  BY <1>4
<1>6. Len(b) = AddressOctets(semi)
  <2>1. LastOctet(name, 0) = (7 * (n - 1) + 6 + 0) \div 8
    BY <1>1 DEF LastOctet
  <2>2. Len(b) = LastOctet(name, 0) + 1
    BY <1>2, <1>3, PackedType
  <2> QED
    BY <1>4, <2>1, <2>2, NameOctets
<1>7. NameSeptets(semi) = n
  BY <1>4, NameLength
<1>8. PICK left : left = [length |-> n, octets |-> b]
  OBVIOUS
<1>9. pdu2text(left, FALSE) = [ok |-> TRUE, udh |-> <<>>, message |-> name]
  <2>1. PICK hdr \in Seq(Nat) : hdr = <<>>
    <3>1. <<>> \in Seq(Nat)
      OBVIOUS
    <3> QED
      BY <3>1
  <2>2. FillBits(hdr) = 0 /\ UdhSeptets(hdr) = 0
    BY <2>1 DEF FillBits, UdhSeptets
  <2>3. hdr \o Packed(name, FillBits(hdr)) = b
    BY <1>3, <2>1, <2>2
  <2>4. PICK k \in Nat : k = Len(b)
    OBVIOUS
  <2>5. SubSeq(b, 1, k) = b
    BY <2>4
  <2>6. ~(k < (7 * n + 7) \div 8)
    <3>1. (7 * n + 7) \div 8 <= AddressOctets(semi)
      BY <1>7, NameFits
    <3>2. AddressOctets(semi) \in Nat /\ (7 * n + 7) \div 8 \in Nat
      BY <1>6
    <3> QED
      BY <1>6, <2>4, <3>1, <3>2
  <2>7. EnoughLeft(name, hdr, k, left)
    BY <1>1, <1>8, <2>1, <2>2, <2>3, <2>4, <2>5, <2>6 DEF EnoughLeft
  <2>8. WellFormed(hdr)
    BY <2>1 DEF WellFormed
  <2>9. pdu2text(left, hdr # <<>>) = [ok |-> TRUE, udh |-> hdr, message |-> name]
    BY <1>2, <2>7, <2>8, LeftText
  <2>10. (hdr # <<>>) = FALSE
    BY <2>1
  <2> QED
    BY <2>1, <2>9, <2>10
<1>10. Sender(semi, 208, b) = name
  <2>1. Alphanumeric(208)
    BY DEF Alphanumeric
  <2>2. pdu2text([length |-> NameSeptets(semi), octets |-> b], FALSE).message = name
    <3>1. [length |-> NameSeptets(semi), octets |-> b] = left
      BY <1>7, <1>8
    <3>2. PICK read : read = pdu2text(left, FALSE)
      OBVIOUS
    <3>3. read.message = name
      <4>1. read = [ok |-> TRUE, udh |-> <<>>, message |-> name]
        BY <1>9, <3>2
      <4> QED
        BY <4>1
    <3> QED
      BY <3>1, <3>2, <3>3
  <2>3. CString(name) = name
    BY NoZeros
  <2> QED
    BY <2>1, <2>2, <2>3 DEF Sender
<1>11. PICK a : a = <<semi, 208>> \o b
  OBVIOUS
<1>12. /\ a \in Seq(Nat) /\ Len(a) = 2 + Len(b) /\ a[1] = semi /\ a[2] = 208
       /\ SubSeq(a, 3, Len(a)) = b
  BY <1>11, TwoAndMore
<1>13. IsType(208) /\ Alphanumeric(208) /\ Len(a) >= 2
  BY <1>12 DEF IsType, Alphanumeric
<1>14. Formed(a, name)
  <2>1. IsType(a[2]) /\ Sender(a[1], a[2], SubSeq(a, 3, Len(a))) = name
    BY <1>10, <1>12, <1>13
  <2>2. a[1] # 0 /\ a[1] <= max_number /\ Len(a) = 2 + AddressOctets(a[1])
    BY <1>1, <1>4, <1>5, <1>6, <1>12
  <2> QED
    BY <1>12, <1>13, <2>1, <2>2 DEF Formed
<1> QED
  BY <1>1, <1>3, <1>4, <1>11, <1>14 DEF NameSender

-----------------------------------------------------------------------------
(* The service centre.                                                     *)

(* parse reads its address and goes on behind it.                          *)
CentreFound(pdu, smsc, rest) ==
  /\ Patched(pdu) = pdu /\ pdu # <<>>
  /\ pdu[1] = 0 \/ HasSmsc(pdu)
  /\ ~SmscOverruns(pdu)
  /\ Smsc(pdu) = smsc
  /\ From(pdu, IF pdu[1] = 0 THEN 2 ELSE pdu[1] + 2) = rest

(* The address of a service centre is found whole, and so is what is       *)
(* behind it (parseSMSC).                                                  *)
LEMMA CentreRead ==
  ASSUME NEW smsc \in Seq(Digit), AddressOctets(Len(smsc)) + 1 <= max_smsc,
         2 * AddressOctets(Len(smsc)) < max_smsc,
         NEW rest \in Seq(Nat), rest # <<>>, rest[1] # 0,
         NEW pdu, pdu = CentreOctets(smsc) \o rest
  PROVE  CentreFound(pdu, smsc, rest)
<1>1. CASE smsc = <<>>
  <2>1. PICK c \in Seq(Nat) : c = <<0>>
    <3>1. <<0>> \in Seq(Nat)
      OBVIOUS
    <3> QED
      BY <3>1
  <2>2. Len(c) = 1 /\ c[1] = 0 /\ 2 = Len(c) + 1
    BY <2>1
  <2>3. pdu = c \o rest
    BY <1>1, <2>1 DEF CentreOctets
  <2>4. Len(rest) \in Nat /\ Len(rest) >= 1
    BY EmptySeq
  <2>5. pdu \in Seq(Nat) /\ Len(pdu) = 1 + Len(rest) /\ pdu[1] = 0
    <3>1. 1 \in 1 .. Len(c)
      BY <2>2
    <3>2. pdu \in Seq(Nat) /\ Len(pdu) = Len(c) + Len(rest)
      BY <2>3, PartsShape
    <3>3. pdu[1] = c[1]
      BY <2>3, <3>1, PartsShape
    <3> QED
      BY <2>2, <3>2, <3>3
  <2>6. pdu[2] = rest[1]
    <3>1. 2 \in 1 .. Len(c) + Len(rest) /\ ~(2 <= Len(c)) /\ 2 - Len(c) = 1
      BY <2>2, <2>4
    <3>2. (c \o rest)[2] = IF 2 <= Len(c) THEN c[2] ELSE rest[2 - Len(c)]
      BY <3>1, ConcatProperties
    <3> QED
      BY <2>3, <3>1, <3>2
  <2>7. From(pdu, 2) = rest
    BY <2>2, <2>3, SecondPart
  <2>8. Patched(pdu) = pdu
    <3>1. PICK empty : empty = Append(<<0, 0, 0, 255>>, 0)
      OBVIOUS
    <3>2. Len(empty) = 5 /\ empty[2] = 0
      BY <3>1
    <3>3. ~IsPrefix(empty, pdu)
      <4> SUFFICES ASSUME IsPrefix(empty, pdu) PROVE FALSE
        OBVIOUS
      <4>1. 5 <= Len(pdu) /\ SubSeq(empty, 1, 5) = SubSeq(pdu, 1, 5)
        BY <3>2 DEF IsPrefix
      <4>2. SubSeq(empty, 1, 5)[2] = 0
        BY <3>2
      <4>3. SubSeq(pdu, 1, 5)[2] = pdu[2]
        BY <2>5, <4>1
      <4> QED
        BY <2>6, <4>1, <4>2, <4>3
    <3> QED
      BY <3>1, <3>3 DEF Patched
  <2>9. Smsc(pdu) = <<>>
    BY <2>5 DEF Smsc
  <2>10. ~SmscOverruns(pdu)
    <3>1. ~(max_smsc <= 2 * 0 - 2)
      BY AddressAssumption
    <3> QED
      BY <2>5, <3>1 DEF SmscOverruns
  <2> QED
    BY <1>1, <2>4, <2>5, <2>7, <2>8, <2>9, <2>10, EmptySeq DEF CentreFound
<1>2. CASE smsc # <<>>
  <2>1. PICK len \in Nat \ {0} : len = Len(smsc)
    BY <1>2, EmptySeq
  <2>2. PICK b \in Seq(Nat) : b = Spelled(smsc)
    BY SpelledShape
  <2>3. Len(b) = AddressOctets(len) /\ DropFill(SemiOctets(b)) = smsc
    BY <2>1, <2>2, SpelledShape
  <2>4. Len(b) >= 1 /\ Len(b) \in Nat
    BY <2>1, <2>3 DEF AddressOctets
  <2>5. PICK n \in Nat : n = Len(b) + 1
    BY <2>4
  <2>6. PICK c : c = <<n, 145>> \o b
    OBVIOUS
  <2>7. /\ c \in Seq(Nat) /\ Len(c) = 2 + Len(b) /\ c[1] = n /\ c[2] = 145
        /\ SubSeq(c, 3, Len(c)) = b
    BY <2>6, TwoAndMore
  <2>8. pdu = c \o rest
    BY <1>2, <2>2, <2>5, <2>6 DEF CentreOctets
  <2>9. Len(rest) \in Nat /\ Len(rest) >= 1
    BY EmptySeq
  <2>10. Len(c) = n + 1 /\ 1 \in 1 .. Len(c) /\ 2 \in 1 .. Len(c)
    BY <2>4, <2>5, <2>7
  <2>11. /\ pdu \in Seq(Nat) /\ Len(pdu) = n + 1 + Len(rest) /\ pdu[1] = n /\ pdu[2] = 145
    <3>1. pdu \in Seq(Nat) /\ Len(pdu) = Len(c) + Len(rest)
      <4>1. PICK e \in Seq(Nat) : e = c
        BY <2>7
      <4>2. e \o rest \in Seq(Nat) /\ Len(e \o rest) = Len(e) + Len(rest)
        BY PartsShape
      <4> QED
        BY <2>8, <4>1, <4>2
    <3>2. pdu[1] = c[1] /\ pdu[2] = c[2]
      BY <2>7, <2>8, <2>10, PartsShape
    <3> QED
      BY <2>7, <2>10, <3>1, <3>2
  <2>12. SubSeq(pdu, 3, n + 1) = b
    <3>1. 3 \in 1 .. Len(c) /\ n + 1 \in 1 .. Len(c)
      BY <2>4, <2>5, <2>10
    <3>2. c \in Seq(Nat)
      BY <2>7
    <3>3. SubSeq(c \o rest, 3, n + 1) = SubSeq(c, 3, n + 1)
      BY <3>1, <3>2, SliceOfFirst
    <3> QED
      BY <2>7, <2>8, <2>10, <3>3
  <2>13. ~Alphanumeric(145) /\ IsType(145)
    BY DEF Alphanumeric, IsType
  <2>14. IsNumber(smsc)
    <3>1. \A i \in DOMAIN smsc : smsc[i] \in 0 .. 9
      BY DEF Digit
    <3>2. \A d \in 0 .. 9 : d <= 9
      OBVIOUS
    <3> QED
      BY <3>1, <3>2 DEF IsNumber
  <2>15. HasSmsc(pdu)
    <3>1. 2 <= n /\ n <= max_smsc
      BY <2>1, <2>3, <2>4, <2>5
    <3>2. Len(pdu) >= n + 1
      BY <2>9, <2>11
    <3> QED
      BY <2>3, <2>11, <2>12, <2>13, <2>14, <3>1, <3>2 DEF HasSmsc
  <2>16. n # 0
    BY <2>4, <2>5
  <2>17. Smsc(pdu) = smsc
    BY <2>3, <2>11, <2>12, <2>13, <2>16 DEF Smsc
  <2>18. From(pdu, n + 2) = rest
    <3>1. n + 2 = Len(c) + 1
      BY <2>10
    <3> QED
      BY <2>7, <2>8, <3>1, SecondPart
  <2>19. Patched(pdu) = pdu
    <3>1. PICK empty : empty = Append(<<0, 0, 0, 255>>, 0)
      OBVIOUS
    <3>2. Len(empty) = 5 /\ empty[1] = 0
      BY <3>1
    <3>3. ~IsPrefix(empty, pdu)
      <4> SUFFICES ASSUME IsPrefix(empty, pdu) PROVE FALSE
        OBVIOUS
      <4>1. 5 <= Len(pdu) /\ SubSeq(empty, 1, 5) = SubSeq(pdu, 1, 5)
        BY <3>2 DEF IsPrefix
      <4>2. SubSeq(empty, 1, 5)[1] = 0
        BY <3>2
      <4>3. SubSeq(pdu, 1, 5)[1] = pdu[1]
        BY <2>11, <4>1
      <4> QED
        BY <2>11, <2>16, <4>1, <4>2, <4>3, SMTT(60)
    <3> QED
      BY <3>1, <3>3 DEF Patched
  <2>20. pdu # <<>>
    BY <2>9, <2>11, EmptySeq
  <2>21. ~SmscOverruns(pdu)
    <3>1. PICK m \in Nat : m = AddressOctets(len) /\ 2 * m < max_smsc
      BY <2>1, <2>3, <2>4
    <3>2. ~(max_smsc <= 2 * n - 2)
      BY <2>3, <2>5, <3>1, AddressAssumption
    <3> QED
      BY <2>11, <3>2 DEF SmscOverruns
  <2> QED
    BY <2>11, <2>15, <2>16, <2>17, <2>18, <2>19, <2>20, <2>21 DEF CentreFound
<1> QED
  BY <1>1, <1>2

-----------------------------------------------------------------------------
(* Messages and reports.                                                   *)

(* Both begin with an address, and go on behind it.                        *)
AddressFound(octets, shown, body) ==
  /\ HasAddress(octets) /\ ~NumberOverruns(octets)
  /\ From(octets, 3 + AddressOctets(octets[1])) = body
  /\ octets[1] = 0 => shown = <<>>
  /\ octets[1] # 0 =>
       /\ IsType(octets[2])
       /\ Sender(octets[1], octets[2], SubSeq(octets, 3, 2 + AddressOctets(octets[1]))) = shown

(* The address of a sender is read, and what is behind it is found.        *)
LEMMA AddressRead ==
  ASSUME NEW address, NEW shown, Formed(address, shown), NEW body \in Seq(Nat),
         NEW octets, octets = address \o body
  PROVE  /\ AddressFound(octets, shown, body)
         /\ octets \in Seq(Nat) /\ Len(octets) = Len(address) + Len(body)
         /\ octets[1] = address[1]
<1>1. /\ address \in Seq(Nat) /\ Len(address) >= 2 /\ address[1] <= max_number
      /\ Len(address) = 2 + AddressOctets(address[1])
  BY DEF Formed
<1>2. address[1] \in Nat
  <2>1. 1 \in 1 .. Len(address)
    BY <1>1
  <2> QED
    BY <1>1, <2>1, ElementType
<1>3. PICK n \in Nat : n = AddressOctets(address[1])
  BY <1>2 DEF AddressOctets
<1>4. octets \in Seq(Nat) /\ Len(octets) = Len(address) + Len(body)
  BY <1>1, PartsShape
<1>5. octets[1] = address[1] /\ octets[2] = address[2]
  <2>1. 1 \in 1 .. Len(address) /\ 2 \in 1 .. Len(address)
    BY <1>1
  <2> QED
    BY <1>1, <2>1, PartsShape
<1>6. HasAddress(octets)
  <2>1. Len(body) \in Nat
    OBVIOUS
  <2>2. Len(octets) >= 2 + n /\ Len(octets) >= 2
    BY <1>1, <1>3, <1>4, <2>1
  <2>3. octets[1] # 0 => IsType(octets[2])
    BY <1>5 DEF Formed
  <2> QED
    BY <1>1, <1>3, <1>5, <2>2, <2>3 DEF HasAddress
<1>11. ~NumberOverruns(octets)
  <2>1. Len(body) \in Nat
    OBVIOUS
  <2>2. ~(Len(octets) < 2 + n)
    BY <1>1, <1>3, <1>4, <2>1
  <2>3. octets[1] = 0 \/ Alphanumeric(octets[2]) \/ 2 * n < max_number
    BY <1>3, <1>5 DEF Formed
  <2>4. 2 * n < max_number => ~(max_number <= 2 * n)
    BY <1>3, AddressAssumption
  <2> QED
    BY <1>3, <1>5, <2>2, <2>3, <2>4 DEF NumberOverruns
<1>7. From(octets, 3 + n) = body
  <2>1. 3 + n = Len(address) + 1
    BY <1>1, <1>3
  <2> QED
    BY <1>1, <2>1, SecondPart
<1>8. SubSeq(octets, 3, 2 + n) = SubSeq(address, 3, Len(address))
  <2>1. CASE n = 0
    <3>1. 2 + n < 3 /\ Len(address) < 3 /\ 2 + n \in Int /\ Len(address) \in Int /\ 3 \in Int
      BY <1>1, <1>3, <2>1
    <3>2. SubSeq(octets, 3, 2 + n) = <<>>
      BY <3>1, SubSeqEmpty
    <3>3. SubSeq(address, 3, Len(address)) = <<>>
      BY <3>1, SubSeqEmpty
    <3> QED
      BY <3>2, <3>3
  <2>2. CASE n # 0
    <3>1. 3 \in 1 .. Len(address) /\ 2 + n \in 1 .. Len(address)
      BY <1>1, <1>3, <2>2
    <3>2. SubSeq(octets, 3, 2 + n) = SubSeq(address, 3, 2 + n)
      BY <1>1, <3>1, SubSeqOfConcat1
    <3> QED
      BY <1>1, <1>3, <3>2
  <2> QED
    BY <2>1, <2>2
<1>9. CASE address[1] = 0
  BY <1>3, <1>4, <1>5, <1>6, <1>7, <1>9, <1>11 DEF Formed, AddressFound
<1>10. CASE address[1] # 0
  <2>1. IsType(octets[2])
    BY <1>5, <1>10 DEF Formed
  <2>2. Sender(octets[1], octets[2], SubSeq(octets, 3, 2 + n)) = shown
    BY <1>5, <1>8, <1>10 DEF Formed
  <2> QED
    BY <1>3, <1>4, <1>5, <1>6, <1>7, <1>10, <1>11, <2>1, <2>2 DEF AddressFound
<1> QED
  BY <1>9, <1>10

(* What parseDeliver reads behind the address of a message.                *)
BodyRead(body, first) ==
  ParseUserData(AlphabetOf(body[2]) = 0, [length |-> body[10], octets |-> From(body, 11)],
                (first \div 64) % 2 = 1)

BodyFormed(body) ==
  /\ body \in Seq(Nat) /\ Len(body) >= 10
  /\ body[1] = 0 /\ AlphabetOf(body[2]) # 3
  /\ IsNumber(Stamp(From(body, 3)))

(* The fields behind the address are where parseDeliver looks for them.    *)
LEMMA FieldsFound ==
  ASSUME NEW body \in Seq(Nat), Len(body) >= 10, NEW stamp, stamp = From(body, 3)
  PROVE  /\ stamp \in Seq(Nat) /\ Len(stamp) >= 8
         /\ stamp[8] = body[10] /\ From(stamp, 9) = From(body, 11)
<1>1. PICK n \in Nat : n = Len(body)
  OBVIOUS
<1>4. /\ stamp \in Seq(Nat) /\ Len(stamp) = n - 2
      /\ \A i \in 1 .. n - 2 : stamp[i] = body[3 + i - 1]
  <2>1. 3 \in Nat \ {0} /\ 3 <= Len(body) + 1 /\ Len(body) - 3 + 1 = n - 2
    BY <1>1
  <2> QED
    BY <2>1, FromShape
<1>5. Len(stamp) >= 8 /\ stamp[8] = body[10]
  <2>1. 8 \in 1 .. n - 2 /\ 3 + 8 - 1 = 10 /\ n - 2 >= 8
    BY <1>1
  <2> QED
    BY <1>4, <2>1
<1>6. From(stamp, 9) = From(body, 11)
  <2>1. From(stamp, 9) = SubSeq(stamp, 9, n - 2) /\ From(body, 11) = SubSeq(body, 11, n)
    BY <1>1, <1>4 DEF From
  <2>2. CASE n = 10
    <3>1. SubSeq(stamp, 9, n - 2) = <<>> /\ SubSeq(body, 11, n) = <<>>
      <4>1. n - 2 < 9 /\ n < 11 /\ n - 2 \in Int /\ n \in Int /\ 9 \in Int /\ 11 \in Int
        BY <2>2
      <4> QED
        BY <4>1, SubSeqEmpty
    <3> QED
      BY <2>1, <3>1
  <2>3. CASE n # 10
    <3>1. /\ 3 \in 1 .. Len(body) /\ n \in 1 .. Len(body) /\ 9 \in 1 .. n - 3 + 1
          /\ n - 2 \in 1 .. n - 3 + 1
      <4>1. n >= 10 /\ Len(body) = n
        BY <1>1
      <4>2. n >= 11
        BY <2>3, <4>1
      <4> QED
        BY <4>1, <4>2
    <3>2. 3 + 9 - 1 = 11 /\ 3 + (n - 2) - 1 = n
      OBVIOUS
    <3>3. SubSeq(SubSeq(body, 3, n), 9, n - 2) = SubSeq(body, 3 + 9 - 1, 3 + (n - 2) - 1)
      BY <3>1, SubSeqOfSubSeq
    <3>4. stamp = SubSeq(body, 3, n)
      BY <1>1 DEF From
    <3> QED
      BY <2>1, <3>2, <3>3, <3>4
  <2> QED
    BY <2>2, <2>3
<1> QED
  BY <1>4, <1>5, <1>6

(* A message is read behind the address of its sender (parseDeliver).      *)
LEMMA DeliverRead ==
  ASSUME NEW address, NEW shown, Formed(address, shown), NEW smsc, NEW first,
         NEW body, BodyFormed(body), BodyRead(body, first).ok
  PROVE  parseDeliver(address \o body, smsc, first) =
           [kind |-> "message", smsc |-> smsc, number |-> shown, replace |-> 0,
            alphabet |-> AlphabetOf(body[2]), flash |-> IsFlash(body[2]),
            stamp |-> Stamp(From(body, 3)), udh |-> BodyRead(body, first).udh,
            message |-> BodyRead(body, first).message]
<1>1. PICK octets : octets = address \o body
  OBVIOUS
<1>2. body \in Seq(Nat) /\ Len(body) >= 10 /\ body[1] = 0
  BY DEF BodyFormed
<1>3. /\ HasAddress(octets) /\ ~NumberOverruns(octets)
      /\ From(octets, 3 + AddressOctets(octets[1])) = body
      /\ octets[1] = 0 => shown = <<>>
      /\ octets[1] # 0 =>
           /\ IsType(octets[2])
           /\ Sender(octets[1], octets[2], SubSeq(octets, 3, 2 + AddressOctets(octets[1]))) = shown
  <2>1. AddressFound(octets, shown, body)
    BY <1>1, <1>2, AddressRead
  <2> QED
    BY <2>1 DEF AddressFound
<1>4. PICK stamp : stamp = From(body, 3)
  OBVIOUS
<1>5. Len(stamp) >= 8 /\ stamp[8] = body[10] /\ From(stamp, 9) = From(body, 11) /\ Len(stamp) \in Nat
  BY <1>2, <1>4, FieldsFound, SMTT(60)
<1>6. HasFields(body) /\ HasStamp(stamp)
  BY <1>2, <1>4, <1>5 DEF HasFields, HasStamp, StampOctets, BodyFormed
<1>7. PICK read : read = BodyRead(body, first)
  OBVIOUS
<1>8. ParseUserData(AlphabetOf(body[2]) = 0,
                    [length |-> stamp[StampOctets + 1], octets |-> From(stamp, StampOctets + 2)],
                    (first \div 64) % 2 = 1) = read
  <2>1. StampOctets + 1 = 8 /\ StampOctets + 2 = 9
    BY DEF StampOctets
  <2> QED
    BY <1>5, <1>7, <2>1 DEF BodyRead
<1>9. read.ok /\ AlphabetOf(body[2]) # 3
  BY <1>7 DEF BodyFormed
<1>10. (IF octets[1] = 0 THEN <<>>
        ELSE Sender(octets[1], octets[2], SubSeq(octets, 3, 2 + AddressOctets(octets[1])))) = shown
  BY <1>3
<1>11. (IF body[1] \div 8 = 8 THEN body[1] % 8 ELSE 0) = 0
  BY <1>2
<1>12. PICK fields : fields = From(octets, 3 + AddressOctets(octets[1])) /\ fields = body
  BY <1>3
<1> QED
  BY <1>1, <1>3, <1>4, <1>6, <1>7, <1>8, <1>9, <1>10, <1>11 DEF parseDeliver

(* A message that ends in its fields, or whose user data is refused, is    *)
(* refused whole.                                                          *)
LEMMA DeliverRefused ==
  ASSUME NEW address, NEW shown, Formed(address, shown), NEW smsc, NEW first,
         NEW body \in Seq(Nat), Len(body) >= 10 => ~BodyRead(body, first).ok
  PROVE  parseDeliver(address \o body, smsc, first) = NotRead
<1>1. PICK octets : octets = address \o body
  OBVIOUS
<1>2. From(octets, 3 + AddressOctets(octets[1])) = body /\ ~NumberOverruns(octets)
  BY <1>1, AddressRead DEF AddressFound
<1>3. Len(body) \in Nat
  OBVIOUS
<1>4. CASE Len(body) < 10
  <2>1. ~HasFields(body)
    BY <1>3, <1>4 DEF HasFields, StampOctets
  <2> QED
    BY <1>1, <1>2, <2>1 DEF parseDeliver
<1>5. CASE ~(Len(body) < 10)
  <2>1. Len(body) >= 10
    BY <1>3, <1>5
  <2>2. PICK stamp : stamp = From(body, 3)
    OBVIOUS
  <2>3. stamp[8] = body[10] /\ From(stamp, 9) = From(body, 11)
    BY <2>1, <2>2, FieldsFound
  <2>4. ~ParseUserData(AlphabetOf(body[2]) = 0,
                       [length |-> stamp[StampOctets + 1], octets |-> From(stamp, StampOctets + 2)],
                       (first \div 64) % 2 = 1).ok
    <3>1. StampOctets + 1 = 8 /\ StampOctets + 2 = 9
      BY DEF StampOctets
    <3> QED
      BY <2>1, <2>3, <3>1 DEF BodyRead
  <2> QED
    BY <1>1, <1>2, <2>2, <2>4 DEF parseDeliver
<1> QED
  BY <1>4, <1>5

(* The digits of a stamp, two an octet.                                    *)
LEMMA StampSpelled ==
  /\ Spelled(StampDigits) \in Seq(Nat) /\ Len(Spelled(StampDigits)) = 6
  /\ SemiOctets(Spelled(StampDigits)) = StampDigits /\ IsNumber(StampDigits)
<1>1. PICK n \in Seq(Digit) : n = StampDigits /\ Len(n) = 12
  <2>1. StampDigits \in Seq(Digit) /\ Len(StampDigits) = 12
    BY DEF StampDigits, Digit
  <2> QED
    BY <2>1
<1>2. AddressOctets(12) = 6
  BY DEF AddressOctets
<1>3. Spelled(n) \in Seq(Nat) /\ Len(Spelled(n)) = 6
  BY <1>1, <1>2, SpelledShape
<1>4. Padded(n) = n
  <2>1. 12 % 2 # 1
    OBVIOUS
  <2> QED
    BY <1>1, <2>1, PaddedShape
<1>5. SemiOctets(Spelled(n)) = n
  BY <1>4, SpelledIsOctets, SemiOctetsOfOctets
<1>6. IsNumber(n)
  <2>1. \A d \in 0 .. 9 : d <= 9
    OBVIOUS
  <2>2. \A i \in DOMAIN n : n[i] \in 0 .. 9
    BY DEF Digit
  <2> QED
    BY <2>1, <2>2 DEF IsNumber
<1> QED
  BY <1>1, <1>3, <1>5, <1>6

(* A stamp is read, whatever follows it.                                   *)
LEMMA StampRead ==
  ASSUME NEW b \in Seq(Nat), NEW s, s = StampField \o b
  PROVE  /\ StampField \in Seq(Nat) /\ Len(StampField) = 7
         /\ s \in Seq(Nat) /\ Len(s) = 7 + Len(b)
         /\ Stamp(s) = StampDigits /\ HasStamp(s) /\ From(s, 8) = b
<1>1. PICK digits \in Seq(Nat) : digits = Spelled(StampDigits) /\ Len(digits) = 6
  BY StampSpelled
<1>2. PICK f : f = Append(digits, 33)
  OBVIOUS
<1>3. f \in Seq(Nat) /\ Len(f) = 7 /\ SubSeq(f, 1, 6) = digits
  <2>1. Append(digits, 33) \in Seq(Nat)
    OBVIOUS
  <2>2. Len(Append(digits, 33)) = Len(digits) + 1 /\ SubSeq(Append(digits, 33), 1, Len(digits)) = digits
    OBVIOUS
  <2>3. Len(digits) = 6
    BY <1>1
  <2> QED
    BY <1>2, <2>1, <2>2, <2>3
<1>4. s = f \o b /\ StampField = f
  BY <1>1, <1>2 DEF StampField
<1>5. s \in Seq(Nat) /\ Len(s) = 7 + Len(b)
  <2>1. f \in Seq(Nat)
    BY <1>3
  <2>2. f \o b \in Seq(Nat) /\ Len(f \o b) = Len(f) + Len(b)
    BY <2>1, PartsShape
  <2> QED
    BY <1>3, <1>4, <2>2
<1>6. SubSeq(s, 1, 6) = digits
  <2>1. 1 \in 1 .. Len(f) /\ 6 \in 1 .. Len(f)
    BY <1>3
  <2>2. SubSeq(f \o b, 1, 6) = SubSeq(f, 1, 6)
    BY <1>3, <2>1, SliceOfFirst
  <2> QED
    BY <1>3, <1>4, <2>2
<1>7. Stamp(s) = StampDigits
  BY <1>1, <1>6, StampSpelled DEF Stamp
<1>8. HasStamp(s)
  <2>1. Len(b) \in Nat
    OBVIOUS
  <2>2. Len(s) >= 7
    BY <1>5, <2>1
  <2> QED
    BY <1>7, <2>2, StampSpelled DEF HasStamp, StampOctets
<1>9. From(s, 8) = b
  <2>1. 8 = Len(f) + 1 /\ f \in Seq(Nat)
    BY <1>3
  <2>2. From(f \o b, 8) = b
    BY <2>1, SecondPart
  <2> QED
    BY <1>4, <2>2
<1> QED
  BY <1>3, <1>4, <1>5, <1>7, <1>8, <1>9

(* A first octet, and what follows it.                                     *)
LEMMA TailOf ==
  ASSUME NEW x \in Nat, NEW b \in Seq(Nat), NEW a, a = <<x>> \o b
  PROVE  /\ a \in Seq(Nat) /\ Len(a) = 1 + Len(b) /\ a # <<>> /\ a[1] = x /\ Tail(a) = b
<1>1. PICK p \in Seq(Nat) : p = <<x>>
  <2>1. <<x>> \in Seq(Nat)
    OBVIOUS
  <2> QED
    BY <2>1
<1>2. Len(p) = 1 /\ p[1] = x /\ 2 = Len(p) + 1
  BY <1>1
<1>3. a \in Seq(Nat) /\ Len(a) = 1 + Len(b) /\ a[1] = x
  <2>1. 1 \in 1 .. Len(p)
    BY <1>2
  <2> QED
    BY <1>1, <1>2, <2>1, PartsShape
<1>4. a # <<>>
  <2>1. Len(b) \in Nat
    OBVIOUS
  <2> QED
    BY <1>3, <2>1, EmptySeq
<1>5. From(a, 2) = b
  BY <1>1, <1>2, SecondPart
<1>6. Tail(a) = SubSeq(a, 2, Len(a))
  BY <1>3, <1>4
<1> QED
  BY <1>3, <1>4, <1>5, <1>6 DEF From

ReportBody(status) == StampField \o (StampField \o <<status>>)

(* The stamps and the status of a report are read.                         *)
ReportReads(address, shown, smsc, id, status) ==
  parseStatusReport(<<id>> \o (address \o ReportBody(status)), smsc) =
    [kind |-> "report", smsc |-> smsc, id |-> id, number |-> shown,
     stamp |-> StampDigits, discharge |-> StampDigits, status |-> status]

(* A report is read behind the address it is about (parseStatusReport).    *)
LEMMA ReportFound ==
  ASSUME NEW address, NEW shown, Formed(address, shown), shown # <<>>,
         NEW id \in Nat, NEW smsc, NEW status \in Nat
  PROVE  ReportReads(address, shown, smsc, id, status)
<1>1. PICK last \in Seq(Nat) : last = <<status>>
  <2>1. <<status>> \in Seq(Nat)
    OBVIOUS
  <2> QED
    BY <2>1
<1>2. PICK second : second = StampField \o last
  OBVIOUS
<1>3. /\ StampField \in Seq(Nat) /\ Len(StampField) = 7
      /\ second \in Seq(Nat) /\ Len(second) = 7 + Len(last)
      /\ Stamp(second) = StampDigits /\ HasStamp(second) /\ From(second, 8) = last
  BY <1>2, StampRead
<1>4. Len(last) = 1 /\ last[1] = status
  BY <1>1
<1>5. second[8] = status
  <2>1. PICK f \in Seq(Nat) : f = StampField /\ Len(f) = 7
    BY <1>3
  <2>2. 8 \in 1 .. Len(f) + Len(last) /\ ~(8 <= Len(f)) /\ 8 - Len(f) = 1
    BY <1>4, <2>1
  <2>3. (f \o last)[8] = IF 8 <= Len(f) THEN f[8] ELSE last[8 - Len(f)]
    BY <2>2, ConcatProperties
  <2> QED
    BY <1>2, <1>4, <2>1, <2>2, <2>3
<1>6. PICK body : body = StampField \o second
  OBVIOUS
<1>7. /\ body \in Seq(Nat) /\ Len(body) = 7 + Len(second)
      /\ Stamp(body) = StampDigits /\ HasStamp(body) /\ From(body, 8) = second
  BY <1>3, <1>6, StampRead
<1>8. PICK inner : inner = address \o body
  OBVIOUS
<1>9. /\ AddressFound(inner, shown, body)
      /\ inner \in Seq(Nat) /\ Len(inner) = Len(address) + Len(body) /\ inner[1] = address[1]
  BY <1>7, <1>8, AddressRead
<1>10. PICK octets : octets = <<id>> \o inner
  OBVIOUS
<1>11. Len(octets) = 1 + Len(inner) /\ octets[1] = id /\ Tail(octets) = inner
  BY <1>9, <1>10, TailOf
<1>12. /\ HasAddress(inner) /\ ~NumberOverruns(inner) /\ From(inner, 3 + AddressOctets(inner[1])) = body
       /\ inner[1] # 0 /\ IsType(inner[2])
       /\ Sender(inner[1], inner[2], SubSeq(inner, 3, 2 + AddressOctets(inner[1]))) = shown
  BY <1>9 DEF AddressFound
<1>14. ~(Len(second) <= 7)
  BY <1>3, <1>4
<1>15. 1 + StampOctets = 8 /\ StampOctets = 7 /\ StampOctets + 1 = 8
  BY DEF StampOctets
<1>16. ~(Len(octets) < 3) /\ ~(inner[1] < 1)
  <2>1. address \in Seq(Nat) /\ Len(address) >= 2
    BY DEF Formed
  <2>2. PICK m \in Nat : m = Len(address) /\ m >= 2
    BY <2>1
  <2>3. PICK k \in Nat : k = Len(body) /\ k >= 1
    BY <1>3, <1>4, <1>7
  <2>4. 1 \in 1 .. Len(address)
    BY <2>2
  <2>5. PICK x \in Nat : x = inner[1]
    BY <1>9, <2>1, <2>4, ElementType
  <2>6. Len(octets) = 1 + (m + k)
    BY <1>9, <1>11, <2>2, <2>3
  <2>7. x # 0
    BY <1>12, <2>5
  <2>8. ~(1 + (m + k) < 3) /\ ~(x < 1)
    BY <2>2, <2>7
  <2> QED
    BY <2>5, <2>6, <2>8
<1>17. parseStatusReport(octets, smsc) =
         [kind |-> "report", smsc |-> smsc, id |-> octets[1],
          number |-> Sender(inner[1], inner[2], SubSeq(inner, 3, 2 + AddressOctets(inner[1]))),
          stamp |-> Stamp(body), discharge |-> Stamp(second), status |-> second[8]]
  BY <1>3, <1>7, <1>11, <1>12, <1>14, <1>15, <1>16 DEF parseStatusReport
<1> QED
  BY <1>1, <1>2, <1>3, <1>5, <1>6, <1>7, <1>8, <1>10, <1>11, <1>12, <1>17 DEF ReportBody, ReportReads

(* A report that ends before its status is refused.                        *)
LEMMA ReportRefused ==
  ASSUME NEW address, NEW shown, Formed(address, shown),
         NEW id \in Nat, NEW smsc, NEW body \in Seq(Nat), Len(body) < 15
  PROVE  parseStatusReport(<<id>> \o (address \o body), smsc) = NotRead
<1>1. PICK inner : inner = address \o body
  OBVIOUS
<1>2. AddressFound(inner, shown, body) /\ inner \in Seq(Nat)
  BY <1>1, AddressRead
<1>3. PICK octets : octets = <<id>> \o inner
  OBVIOUS
<1>4. Tail(octets) = inner
  BY <1>2, <1>3, TailOf
<1>5. From(inner, 3 + AddressOctets(inner[1])) = body /\ ~NumberOverruns(inner)
  BY <1>2 DEF AddressFound
<1>6. PICK k \in Nat : k = Len(body) /\ k < 15
  OBVIOUS
<1>7. CASE k < 7
  <2>1. ~HasStamp(body)
    BY <1>6, <1>7 DEF HasStamp, StampOctets
  <2> QED
    BY <1>1, <1>3, <1>4, <1>5, <2>1 DEF parseStatusReport
<1>8. CASE ~(k < 7)
  <2>1. 8 \in Nat \ {0} /\ 8 <= Len(body) + 1 /\ Len(body) - 8 + 1 = k - 7
    BY <1>6, <1>8
  <2>2. Len(From(body, 8)) = k - 7
    BY <2>1, FromShape
  <2>3. Len(From(body, 1 + StampOctets)) <= StampOctets
    BY <1>6, <2>2 DEF StampOctets
  <2> QED
    BY <1>1, <1>3, <1>4, <1>5, <2>3 DEF parseStatusReport
<1> QED
  BY <1>7, <1>8
-----------------------------------------------------------------------------
(* The user data of a message, of which no octet is sent that its length   *)
(* does not announce.                                                      *)

DataLimit(packed, hdr) == IF packed THEN max_pdu - UdhSeptets(hdr) ELSE maxsms_binary

(* What is written of a text and its header is read whole, or not at all.  *)
DataWhole(packed, text, hdr, length, data) ==
  LET needed == IF packed THEN (7 * length + 7) \div 8 ELSE length
      whole  == Generate(packed, text, hdr)
  IN  /\ length = whole.length /\ data = Cut(whole.octets, needed)
      /\ ParseUserData(packed, [length |-> length, octets |-> data], hdr # <<>>)
           = [ok |-> TRUE, udh |-> hdr, message |-> text]
      /\ \A short \in Seq(Nat) :
           Len(short) < Len(data) =>
             ~ParseUserData(packed, [length |-> length, octets |-> short], hdr # <<>>).ok

(* A sequence is cut where it ends or before.                              *)
LEMMA CutsShort ==
  ASSUME NEW s \in Seq(Nat), NEW k \in Nat, k <= Len(s)
  PROVE  Cut(s, k) = SubSeq(s, 1, k) /\ Cut(s, k) \in Seq(Nat) /\ Len(Cut(s, k)) = k
<1>1. k \in 0 .. Len(s)
  OBVIOUS
<1>2. Least(Len(s), k) = k
  <2>1. PICK n \in Nat : n = Len(s)
    OBVIOUS
  <2> QED
    BY <2>1 DEF Least
<1> QED
  BY <1>1, <1>2, LeftOctets DEF Cut

(* The octets that so many septets take, behind a header of h octets.      *)
LEMMA OctetsNeeded ==
  ASSUME NEW h \in Nat, NEW n \in Nat, NEW fill \in 0 .. 6, NEW skip \in Nat,
         7 * skip = 8 * h + fill
  PROVE  (7 * (n + skip) + 7) \div 8 = h + (7 * n + fill + 7) \div 8
<1>1. 7 * (n + skip) + 7 = 8 * h + (7 * n + fill + 7)
  OBVIOUS
<1>2. 7 * n + fill + 7 \in Nat
  OBVIOUS
<1> QED
  BY <1>1, <1>2, WholeOctets

(* A text in the GSM alphabet.                                             *)
LEMMA PackedData ==
  ASSUME NEW text \in Seq(0 .. 127), NEW hdr \in Seq(Nat), WellFormed(hdr),
         3 * Len(hdr) < max_udh_data, Len(text) <= max_pdu - UdhSeptets(hdr)
  PROVE  \E length \in Nat, data \in Seq(Nat) : DataWhole(TRUE, text, hdr, length, data)
<1>1. PICK n \in Nat : n = Len(text)
  OBVIOUS
<1>2. PICK h \in Nat : h = Len(hdr)
  OBVIOUS
<1>3. PICK fill \in 0 .. 6, skip \in Nat :
        fill = FillBits(hdr) /\ skip = UdhSeptets(hdr) /\ 7 * skip = 8 * h + fill
  BY <1>2, FillAligns
<1>4. PICK packed \in Seq(Nat) : packed = Packed(text, fill) /\ Len(packed) = LastOctet(text, fill) + 1
  BY PackedType
<1>5. PICK octets \in Seq(Nat) : octets = hdr \o packed /\ Len(octets) = h + Len(packed)
  BY <1>2, PartsShape
<1>6. PICK length \in Nat : length = n + skip
  OBVIOUS
<1>7. Generate(TRUE, text, hdr) = [length |-> length, octets |-> octets]
  <2>1. Cut(text, max_pdu - UdhSeptets(hdr)) = text
    <3>1. max_pdu - UdhSeptets(hdr) \in Int
      BY FillAligns, LimitAssumption
    <3> QED
      BY <3>1, CutType
  <2> QED
    BY <1>1, <1>3, <1>4, <1>5, <1>6, <2>1 DEF Generate, text2pdu
<1>8. PICK more \in Nat : more = (7 * n + fill + 7) \div 8
  OBVIOUS
<1>9. PICK needed \in Nat : needed = (7 * length + 7) \div 8 /\ needed = h + more
  <2>1. (7 * (n + skip) + 7) \div 8 = h + (7 * n + fill + 7) \div 8
    <3>1. n \in Nat /\ h \in Nat /\ fill \in 0 .. 6 /\ skip \in Nat
      BY <1>1, <1>2, <1>3
    <3>2. 7 * skip = 8 * h + fill
      BY <1>3
    <3> QED
      BY <3>1, <3>2, OctetsNeeded
  <2>2. h + more \in Nat /\ (7 * length + 7) \div 8 = h + more
    BY <1>2, <1>6, <1>8, <2>1
  <2> QED
    BY <2>2
<1>10. needed <= Len(octets)
  <2>1. PICK last \in Nat : last = LastOctet(text, fill) /\ more <= last + 1
    BY <1>1, <1>8, OctetsEnough
  <2>2. Len(octets) = h + (last + 1)
    BY <1>4, <1>5, <2>1
  <2> QED
    BY <1>9, <2>1, <2>2
<1>11. PICK data \in Seq(Nat) :
         data = Cut(octets, needed) /\ data = SubSeq(octets, 1, needed) /\ Len(data) = needed
  BY <1>10, CutsShort
<1>12. PICK left : left = [length |-> length, octets |-> data]
  OBVIOUS
<1>13. left.length = length /\ left.octets = data
  BY <1>12
<1>14. hdr # <<>> => HasHeader(left)
  <2> SUFFICES ASSUME hdr # <<>> PROVE HasHeader(left)
    OBVIOUS
  <2>1. octets[1] + 1 = h
    BY <1>2, <1>5, ReaderFindsHeader
  <2>2. h >= 1
    BY <1>2, EmptySeq
  <2>3. needed >= 1
    BY <1>9, <2>2
  <2>4. data # <<>>
    BY <1>11, <2>3, NotEmpty
  <2>5. PICK x \in Nat : x = data[1] /\ x + 1 = h
    <3>1. 1 \in 1 .. needed /\ 1 \in 1 .. Len(data) /\ needed \in 0 .. Len(octets)
      BY <1>10, <1>11, <2>3
    <3>2. data[1] = octets[1]
      BY <1>11, <3>1, LeftOctets
    <3>3. data[1] \in Nat
      BY <3>1, ElementType
    <3> QED
      BY <2>1, <3>2, <3>3
  <2>6. x + 1 <= needed /\ 3 * x + 3 = 3 * h
    <3>1. needed = h + more /\ more \in Nat
      BY <1>8, <1>9
    <3>2. \A a, b \in Nat : a + 1 <= (a + 1) + b /\ 3 * a + 3 = 3 * (a + 1)
      OBVIOUS
    <3>3. x + 1 <= (x + 1) + more /\ 3 * x + 3 = 3 * (x + 1)
      BY <3>1, <3>2
    <3>4. x + 1 = h
      BY <2>5
    <3> QED
      BY <3>1, <3>3, <3>4
  <2> QED
    BY <1>2, <1>11, <1>13, <2>4, <2>5, <2>6 DEF HasHeader
<1>15. EnoughLeft(text, hdr, needed, left)
  <2>1. ~(needed < (7 * left.length + 7) \div 8)
    BY <1>9, <1>13
  <2>2. left.octets = SubSeq(octets, 1, needed)
    BY <1>11, <1>13
  <2>3. octets = hdr \o Packed(text, FillBits(hdr))
    BY <1>3, <1>4, <1>5
  <2>4. left.length = Len(text) + UdhSeptets(hdr)
    BY <1>1, <1>3, <1>6, <1>13
  <2> QED
    BY <1>10, <1>14, <2>1, <2>2, <2>3, <2>4 DEF EnoughLeft
<1>16. pdu2text(left, hdr # <<>>) = [ok |-> TRUE, udh |-> hdr, message |-> text]
  BY <1>15, LeftText
<1>17. ASSUME NEW short \in Seq(Nat), Len(short) < Len(data)
       PROVE  ~pdu2text([length |-> length, octets |-> short], hdr # <<>>).ok
  <2>1. PICK cut : cut = [length |-> length, octets |-> short]
    OBVIOUS
  <2>2. cut.length = length /\ cut.octets = short
    BY <2>1
  <2>3. Len(cut.octets) < (7 * cut.length + 7) \div 8
    BY <1>9, <1>11, <1>17, <2>2
  <2>4. pdu2text(cut, hdr # <<>>) = Refused
    BY <2>3 DEF pdu2text
  <2> QED
    BY <2>1, <2>4 DEF Refused
<1>18. DataWhole(TRUE, text, hdr, length, data)
  <2>1. PICK whole : whole = Generate(TRUE, text, hdr)
    OBVIOUS
  <2>2. whole.length = length /\ whole.octets = octets
    <3>1. whole = [length |-> length, octets |-> octets]
      BY <1>7, <2>1
    <3> QED
      BY <3>1
  <2>3. data = Cut(whole.octets, (7 * length + 7) \div 8)
    BY <1>9, <1>11, <2>2
  <2> QED
    BY <1>12, <1>16, <1>17, <2>1, <2>2, <2>3 DEF DataWhole, ParseUserData
<1> QED
  BY <1>18

(* A text in another alphabet.                                             *)
LEMMA CopiedData ==
  ASSUME NEW text \in Seq(Nat), NEW hdr \in Seq(Nat), WellFormed(hdr),
         3 * Len(hdr) < max_udh_data, Len(text) <= maxsms_binary
  PROVE  \E length \in Nat, data \in Seq(Nat) : DataWhole(FALSE, text, hdr, length, data)
<1>1. PICK octets \in Seq(Nat) : octets = hdr \o text /\ Len(octets) = Len(hdr) + Len(text)
  BY PartsShape
<1>2. PICK length \in Nat : length = Len(text) + Len(hdr)
  OBVIOUS
<1>3. PICK whole : whole = [length |-> length, octets |-> octets]
  OBVIOUS
<1>4. whole.length = length /\ whole.octets = octets
  BY <1>3
<1>5. binary2pdu(text, hdr) = whole
  <2>1. Cut(text, maxsms_binary) = text
    BY CutType, LimitAssumption
  <2> QED
    BY <1>1, <1>2, <1>3, <2>1 DEF binary2pdu
<1>6. Len(octets) = length
  BY <1>1, <1>2
<1>7. Cut(octets, length) = octets
  <2>1. length \in Int /\ Len(octets) <= length
    BY <1>6
  <2> QED
    BY <2>1, CutType
<1>8. pdu2binary(whole, hdr # <<>>) = [ok |-> TRUE, udh |-> hdr, message |-> text]
  BY <1>5, BinaryRoundTrip
<1>9. ASSUME NEW short \in Seq(Nat), Len(short) < Len(octets)
      PROVE  ~pdu2binary([length |-> length, octets |-> short], hdr # <<>>).ok
  <2>1. PICK cut : cut = [length |-> length, octets |-> short]
    OBVIOUS
  <2>2. cut.length = length /\ cut.octets = short
    BY <2>1
  <2>3. Len(cut.octets) < cut.length
    BY <1>6, <1>9, <2>2
  <2>4. pdu2binary(cut, hdr # <<>>) = Refused
    BY <2>3 DEF pdu2binary
  <2> QED
    BY <2>1, <2>4 DEF Refused
<1>10. DataWhole(FALSE, text, hdr, length, octets)
  <2>1. Generate(FALSE, text, hdr) = whole
    BY <1>5 DEF Generate
  <2> QED
    BY <1>3, <1>4, <1>7, <1>8, <1>9, <2>1 DEF DataWhole, ParseUserData
<1> QED
  BY <1>10

-----------------------------------------------------------------------------
(* The body of a message.                                                  *)

(* It is two octets, a stamp, a length and as many octets as that means.   *)
LEMMA BodyParts ==
  ASSUME NEW coding \in Nat, NEW length \in Nat, NEW data \in Seq(Nat)
  PROVE  <<0, coding>> \o StampField \o <<length>> \o data
           = <<0, coding>> \o (StampField \o (<<length>> \o data))
<1>1. PICK two \in Seq(Nat) : two = <<0, coding>>
  <2>1. <<0, coding>> \in Seq(Nat)
    OBVIOUS
  <2> QED
    BY <2>1
<1>2. PICK one \in Seq(Nat) : one = <<length>>
  <2>1. <<length>> \in Seq(Nat)
    OBVIOUS
  <2> QED
    BY <2>1
<1>3. PICK f \in Seq(Nat) : f = StampField
  <2>1. <<>> \in Seq(Nat)
    OBVIOUS
  <2> QED
    BY <2>1, StampRead
<1>4. JoinedLater(two, f, one, data)
  BY <1>1, <1>2, <1>3, RegroupFour
<1>5. ((two \o f) \o one) \o data = two \o (f \o (one \o data))
  BY <1>4 DEF JoinedLater
<1> QED
  BY <1>1, <1>2, <1>3, <1>5

BodyIs(body, coding, length, data) ==
  body = <<0, coding>> \o StampField \o <<length>> \o data

(* What parseDeliver looks for behind the address is where it looks.       *)
LEMMA BodyShape ==
  ASSUME NEW coding \in Nat, NEW length \in Nat, NEW data \in Seq(Nat),
         NEW body, BodyIs(body, coding, length, data)
  PROVE  /\ body \in Seq(Nat) /\ Len(body) = 10 + Len(data)
         /\ body[1] = 0 /\ body[2] = coding /\ body[10] = length
         /\ Stamp(From(body, 3)) = StampDigits /\ From(body, 11) = data
<1>1. PICK two \in Seq(Nat) : two = <<0, coding>>
  <2>1. <<0, coding>> \in Seq(Nat)
    OBVIOUS
  <2> QED
    BY <2>1
<1>2. PICK one \in Seq(Nat) : one = <<length>> /\ Len(one) = 1 /\ one[1] = length
  <2>1. <<length>> \in Seq(Nat)
    OBVIOUS
  <2> QED
    BY <2>1
<1>3. PICK f \in Seq(Nat) : f = StampField /\ Len(f) = 7
  BY <1>2, StampRead
<1>4. PICK rest \in Seq(Nat) : rest = one \o data /\ Len(rest) = 1 + Len(data)
  BY <1>2, PartsShape
<1>5. PICK stamp : stamp = f \o rest
  OBVIOUS
<1>6. stamp \in Seq(Nat) /\ Len(stamp) = 7 + Len(rest) /\ Stamp(stamp) = StampDigits
  BY <1>3, <1>5, StampRead
<1>7. body = two \o stamp
  <2>1. body = <<0, coding>> \o (StampField \o (<<length>> \o data))
    BY BodyParts DEF BodyIs
  <2> QED
    BY <1>1, <1>2, <1>3, <1>4, <1>5, <2>1
<1>8. /\ body \in Seq(Nat) /\ Len(body) = 2 + Len(stamp) /\ body[1] = 0 /\ body[2] = coding
      /\ SubSeq(body, 3, Len(body)) = stamp
  <2>1. PICK zero \in Nat : zero = 0
    OBVIOUS
  <2>2. PICK a : a = <<zero, coding>> \o stamp
    OBVIOUS
  <2>3. /\ a \in Seq(Nat) /\ Len(a) = 2 + Len(stamp) /\ a[1] = zero /\ a[2] = coding
        /\ SubSeq(a, 3, Len(a)) = stamp
    BY <1>6, <2>1, <2>2, TwoAndMore
  <2>4. body = a
    BY <1>1, <1>7, <2>1, <2>2
  <2> QED
    BY <2>1, <2>3, <2>4
<1>9. PICK k \in Nat : k = Len(data)
  OBVIOUS
<1>10. Len(body) = 10 + k /\ Len(body) >= 10
  BY <1>4, <1>6, <1>8, <1>9
<1>11. From(body, 3) = stamp
  BY <1>8 DEF From
<1>12. stamp[8] = body[10] /\ From(stamp, 9) = From(body, 11)
  BY <1>8, <1>10, <1>11, FieldsFound
<1>13. stamp[8] = length
  <2>1. 8 \in 1 .. Len(f) + Len(rest) /\ ~(8 <= Len(f)) /\ 8 - Len(f) = 1
    BY <1>3, <1>4, <1>9
  <2>2. (f \o rest)[8] = IF 8 <= Len(f) THEN f[8] ELSE rest[8 - Len(f)]
    BY <2>1, ConcatProperties
  <2>3. rest[1] = length
    <3>1. 1 \in 1 .. Len(one)
      BY <1>2
    <3> QED
      BY <1>2, <1>4, <3>1, PartsShape
  <2> QED
    BY <1>5, <2>1, <2>2, <2>3
<1>14. From(stamp, 9) = data
  <2>1. PICK head \in Seq(Nat) : head = f \o one /\ Len(head) = 8
    <3>1. f \o one \in Seq(Nat) /\ Len(f \o one) = Len(f) + Len(one)
      BY <1>2, <1>3, PartsShape
    <3>2. Len(f) = 7 /\ Len(one) = 1
      BY <1>2, <1>3
    <3>3. Len(f \o one) = 8
      BY <3>1, <3>2
    <3> QED
      BY <3>1, <3>3
  <2>2. head \o data = stamp
    <3>1. (f \o one) \o data = f \o (one \o data)
      <4>1. EitherFirst(f, one, data)
        BY <1>2, <1>3, Regroup
      <4> QED
        BY <4>1 DEF EitherFirst
    <3> QED
      BY <1>4, <1>5, <2>1, <3>1
  <2>3. 9 = Len(head) + 1
    BY <2>1
  <2>4. From(head \o data, 9) = data
    BY <2>1, <2>3, SecondPart
  <2> QED
    BY <2>2, <2>4
<1> QED
  BY <1>6, <1>8, <1>9, <1>10, <1>11, <1>12, <1>13, <1>14

(* The octets of a body that are left, and those that are not.             *)
BodyLeft(cut, body, data, k) ==
  /\ cut \in Seq(Nat) /\ Len(cut) = k
  /\ cut[2] = body[2] /\ cut[10] = body[10]
  /\ From(cut, 11) \in Seq(Nat) /\ Len(From(cut, 11)) < Len(data)

(* A cut in the text leaves less of it than is announced, and the fields   *)
(* before it as they were.                                                 *)
LEMMA BodyCut ==
  ASSUME NEW body \in Seq(Nat), NEW data \in Seq(Nat), Len(body) = 10 + Len(data),
         NEW k \in Nat, 10 <= k, k < Len(body)
  PROVE  BodyLeft(SubSeq(body, 1, k), body, data, k)
<1>0. PICK cut : cut = SubSeq(body, 1, k)
  OBVIOUS
<1>1. PICK n \in Nat : n = Len(data)
  OBVIOUS
<1>2. k \in 0 .. Len(body)
  BY <1>1
<1>3. cut \in Seq(Nat) /\ Len(cut) = k /\ \A i \in 1 .. k : cut[i] = body[i]
  BY <1>0, <1>2, LeftOctets
<1>4. 2 \in 1 .. k /\ 10 \in 1 .. k
  OBVIOUS
<1>5. 11 \in Nat \ {0} /\ 11 <= Len(cut) + 1 /\ Len(cut) - 11 + 1 = k - 10
  BY <1>3
<1>6. From(cut, 11) \in Seq(Nat) /\ Len(From(cut, 11)) = k - 10
  BY <1>3, <1>5, FromShape
<1>7. k - 10 < n
  BY <1>1
<1>8. cut[2] = body[2] /\ cut[10] = body[10]
  BY <1>3, <1>4
<1>9. Len(From(cut, 11)) < Len(data)
  BY <1>1, <1>6, <1>7
<1> QED
  BY <1>0, <1>3, <1>6, <1>8, <1>9 DEF BodyLeft
(* What TP-DCS says is read.                                               *)
LEMMA CodingRead ==
  ASSUME NEW alphabet \in 0 .. 2, NEW flash \in BOOLEAN,
         NEW coding, coding = 4 * alphabet + (IF flash THEN 16 ELSE 0)
  PROVE  coding \in Nat /\ AlphabetOf(coding) = alphabet /\ IsFlash(coding) = flash
<1>1. alphabet = 0 \/ alphabet = 1 \/ alphabet = 2
  OBVIOUS
<1>2. CASE flash
  <2>1. coding \in Nat /\ (coding \div 16) % 2 = 1 /\ coding % 2 = 0
    BY <1>1, <1>2
  <2>2. (coding \div 4) % 4 = alphabet
    BY <1>1, <1>2
  <2> QED
    BY <1>2, <2>1, <2>2 DEF AlphabetOf, IsFlash
<1>3. CASE ~flash
  <2>1. coding \in Nat /\ (coding \div 16) % 2 # 1
    BY <1>1, <1>3
  <2>2. (coding \div 4) % 4 = alphabet
    BY <1>1, <1>3
  <2> QED
    BY <1>3, <2>1, <2>2 DEF AlphabetOf, IsFlash
<1> QED
  BY <1>2, <1>3

(* A message fits, and its header has the form that pdu2text expects.      *)
MessageFormed(i) ==
  /\ i.alphabet \in 0 .. 2 /\ i.flash \in BOOLEAN
  /\ i.udh \in Seq(Nat) /\ WellFormed(i.udh) /\ 3 * Len(i.udh) < max_udh_data
  /\ i.text \in Seq(0 .. 127) /\ i.text \in Seq(Nat)
  /\ Len(i.text) <= DataLimit(i.alphabet = 0, i.udh)

(* The first octet tells whether there is a header.                        *)
HeaderTold(first, hdr) == ((first \div 64) % 2 = 1) = (hdr # <<>>)

(* A message of which nothing is lost is read, any other is refused.       *)
MessageReads(i, address, shown, smsc, first) ==
  /\ MessageBody(i) \in Seq(Nat)
  /\ parseDeliver(address \o MessageBody(i), smsc, first) =
       [kind |-> "message", smsc |-> smsc, number |-> shown, replace |-> 0,
        alphabet |-> i.alphabet, flash |-> i.flash, stamp |-> StampDigits,
        udh |-> i.udh, message |-> i.text]
  /\ \A k \in Nat :
       k < Len(MessageBody(i)) =>
         parseDeliver(address \o SubSeq(MessageBody(i), 1, k), smsc, first) = NotRead

(* A message is read whole, and not at all when it is cut short.           *)
LEMMA MessageFound ==
  ASSUME NEW i, MessageFormed(i), NEW address, NEW shown, Formed(address, shown),
         NEW smsc, NEW first, HeaderTold(first, i.udh)
  PROVE  MessageReads(i, address, shown, smsc, first)
<1>1. PICK packed \in BOOLEAN : packed = (i.alphabet = 0)
  OBVIOUS
<1>2. PICK length \in Nat, data \in Seq(Nat) : DataWhole(packed, i.text, i.udh, length, data)
  <2>1. CASE packed
    <3>1. Len(i.text) <= max_pdu - UdhSeptets(i.udh)
      BY <1>1, <2>1 DEF MessageFormed, DataLimit
    <3>2. \E length \in Nat, data \in Seq(Nat) : DataWhole(TRUE, i.text, i.udh, length, data)
      BY <3>1, PackedData DEF MessageFormed
    <3>3. packed = TRUE
      BY <2>1
    <3> QED
      BY <3>2, <3>3
  <2>2. CASE ~packed
    <3>1. Len(i.text) <= maxsms_binary
      BY <1>1, <2>2 DEF MessageFormed, DataLimit
    <3>2. \E length \in Nat, data \in Seq(Nat) : DataWhole(FALSE, i.text, i.udh, length, data)
      BY <3>1, CopiedData DEF MessageFormed
    <3>3. packed = FALSE
      BY <2>2
    <3> QED
      BY <3>2, <3>3
  <2> QED
    BY <2>1, <2>2
<1>3. PICK coding \in Nat : /\ coding = 4 * i.alphabet + (IF i.flash THEN 16 ELSE 0)
                            /\ AlphabetOf(coding) = i.alphabet /\ IsFlash(coding) = i.flash
  <2>1. i.alphabet \in 0 .. 2 /\ i.flash \in BOOLEAN
    BY DEF MessageFormed
  <2> QED
    BY <2>1, CodingRead
<1>4. PICK body : body = <<0, coding>> \o StampField \o <<length>> \o data
  OBVIOUS
<1>5. MessageBody(i) = body
  <2>1. PICK whole : whole = Generate(packed, i.text, i.udh)
    OBVIOUS
  <2>2. /\ length = whole.length
        /\ data = Cut(whole.octets, IF packed THEN (7 * length + 7) \div 8 ELSE length)
    BY <1>2, <2>1 DEF DataWhole
  <2>3. whole = Generate(i.alphabet = 0, i.text, i.udh)
    BY <1>1, <2>1
  <2>4. data = Cut(whole.octets, IF i.alphabet = 0 THEN (7 * whole.length + 7) \div 8
                                 ELSE whole.length)
    BY <1>1, <2>2
  <2> QED
    BY <1>3, <1>4, <2>2, <2>3, <2>4 DEF MessageBody
<1>6. /\ body \in Seq(Nat) /\ Len(body) = 10 + Len(data)
      /\ body[1] = 0 /\ body[2] = coding /\ body[10] = length
      /\ Stamp(From(body, 3)) = StampDigits /\ From(body, 11) = data
  <2>1. BodyIs(body, coding, length, data)
    BY <1>4 DEF BodyIs
  <2>2. coding \in Nat /\ length \in Nat /\ data \in Seq(Nat)
    BY <1>2, <1>3
  <2> QED
    BY <2>1, <2>2, BodyShape
<1>7. PICK with_udh \in BOOLEAN : with_udh = (i.udh # <<>>) /\ with_udh = ((first \div 64) % 2 = 1)
  BY DEF HeaderTold
<1>8. Len(body) >= 10
  <2>1. Len(data) \in Nat
    BY <1>2
  <2> QED
    BY <1>6, <2>1
<1>9. parseDeliver(address \o body, smsc, first) =
        [kind |-> "message", smsc |-> smsc, number |-> shown, replace |-> 0,
         alphabet |-> i.alphabet, flash |-> i.flash, stamp |-> StampDigits,
         udh |-> i.udh, message |-> i.text]
  <2>1. PICK read : read = BodyRead(body, first)
    OBVIOUS
  <2>2. ParseUserData(packed, [length |-> length, octets |-> data], with_udh)
          = [ok |-> TRUE, udh |-> i.udh, message |-> i.text]
    BY <1>2, <1>7 DEF DataWhole
  <2>3. BodyRead(body, first)
          = ParseUserData(packed, [length |-> length, octets |-> data], with_udh)
    BY <1>1, <1>3, <1>6, <1>7 DEF BodyRead
  <2>4. read = [ok |-> TRUE, udh |-> i.udh, message |-> i.text]
    BY <2>1, <2>2, <2>3
  <2>5. read.ok /\ read.udh = i.udh /\ read.message = i.text
    BY <2>4
  <2>6. BodyFormed(body)
    <3>1. AlphabetOf(body[2]) # 3
      <4>1. \A a \in 0 .. 2 : a # 3
        OBVIOUS
      <4> QED
        BY <1>3, <1>6, <4>1 DEF MessageFormed
    <3> QED
      BY <1>6, <1>8, <3>1, StampSpelled DEF BodyFormed
  <2>7. parseDeliver(address \o body, smsc, first) =
          [kind |-> "message", smsc |-> smsc, number |-> shown, replace |-> 0,
           alphabet |-> AlphabetOf(body[2]), flash |-> IsFlash(body[2]),
           stamp |-> Stamp(From(body, 3)), udh |-> read.udh, message |-> read.message]
    BY <2>1, <2>5, <2>6, DeliverRead
  <2> QED
    BY <1>3, <1>6, <2>5, <2>7
<1>10. ASSUME NEW k \in Nat, k < Len(body)
       PROVE  parseDeliver(address \o SubSeq(body, 1, k), smsc, first) = NotRead
  <2>1. PICK cut : cut = SubSeq(body, 1, k)
    OBVIOUS
  <2>2. cut \in Seq(Nat) /\ Len(cut) = k
    <3>1. k \in 0 .. Len(body)
      BY <1>6, <1>10
    <3> QED
      BY <1>6, <2>1, <3>1, LeftOctets
  <2>3. Len(cut) >= 10 => ~BodyRead(cut, first).ok
    <3> SUFFICES ASSUME 10 <= k PROVE ~BodyRead(cut, first).ok
      BY <2>2
    <3>1. /\ cut[2] = body[2] /\ cut[10] = body[10]
          /\ From(cut, 11) \in Seq(Nat) /\ Len(From(cut, 11)) < Len(data)
      <4>1. body \in Seq(Nat) /\ data \in Seq(Nat) /\ Len(body) = 10 + Len(data)
        BY <1>2, <1>6
      <4>2. k \in Nat /\ 10 <= k /\ k < Len(body)
        BY <1>10
      <4>3. BodyLeft(SubSeq(body, 1, k), body, data, k)
        BY <4>1, <4>2, BodyCut
      <4> QED
        BY <2>1, <4>3 DEF BodyLeft
    <3>2. PICK short \in Seq(Nat) : short = From(cut, 11) /\ Len(short) < Len(data)
      BY <3>1
    <3>3. ~ParseUserData(packed, [length |-> length, octets |-> short], i.udh # <<>>).ok
      BY <1>2, <3>2 DEF DataWhole
    <3>4. ~ParseUserData(packed, [length |-> length, octets |-> short], with_udh).ok
      BY <1>7, <3>3
    <3>5. BodyRead(cut, first)
            = ParseUserData(packed, [length |-> length, octets |-> short], with_udh)
      BY <1>1, <1>3, <1>6, <1>7, <3>1, <3>2 DEF BodyRead
    <3> QED
      BY <3>4, <3>5
  <2> QED
    BY <2>1, <2>2, <2>3, DeliverRefused
<1> QED
  BY <1>5, <1>6, <1>9, <1>10 DEF MessageReads
-----------------------------------------------------------------------------
(* Whole PDUs: the address of a service centre, a first octet, the rest.   *)

Sent(smsc, first, inner) == CentreOctets(smsc) \o (<<first>> \o inner)

CentreFits(smsc) ==
  /\ smsc \in Seq(Digit)
  /\ AddressOctets(Len(smsc)) + 1 <= max_smsc /\ 2 * AddressOctets(Len(smsc)) < max_smsc

(* The address of a service centre is made of octets.                      *)
LEMMA CentreType ==
  ASSUME NEW smsc \in Seq(Digit)
  PROVE  CentreOctets(smsc) \in Seq(Nat)
<1>1. CASE smsc = <<>>
  <2>1. <<0>> \in Seq(Nat)
    OBVIOUS
  <2> QED
    BY <1>1, <2>1 DEF CentreOctets
<1>2. CASE smsc # <<>>
  <2>1. PICK b \in Seq(Nat) : b = Spelled(smsc)
    BY SpelledShape
  <2>2. PICK n \in Nat, type \in Nat : n = Len(b) + 1 /\ type = 145
    OBVIOUS
  <2>3. PICK c : c = <<n, type>> \o b
    OBVIOUS
  <2>4. c \in Seq(Nat)
    BY <2>1, <2>2, <2>3, TwoAndMore
  <2> QED
    BY <1>2, <2>1, <2>2, <2>3, <2>4 DEF CentreOctets
<1> QED
  BY <1>1, <1>2

(* parse hands what follows the first octet to the reader that octet means. *)
Firsts == {4, 6, 68}

GoesOn(smsc, first, inner) ==
  parse(Sent(smsc, first, inner)) =
    IF first = 6 THEN parseStatusReport(inner, smsc) ELSE parseDeliver(inner, smsc, first)

(* parse goes on behind the service centre's address, by the first octet.  *)
LEMMA ParseGoesOn ==
  ASSUME NEW smsc, CentreFits(smsc), NEW first \in Firsts, NEW inner \in Seq(Nat)
  PROVE  GoesOn(smsc, first, inner)
<1>1. PICK rest : rest = <<first>> \o inner
  OBVIOUS
<1>2. first \in {4, 6, 68} /\ first \in Nat /\ first # 0
  BY DEF Firsts
<1>3. rest \in Seq(Nat) /\ rest # <<>> /\ rest[1] = first /\ Tail(rest) = inner
  BY <1>1, <1>2, TailOf
<1>4. PICK pdu : pdu = CentreOctets(smsc) \o rest
  OBVIOUS
<1>5. /\ Patched(pdu) = pdu /\ pdu # <<>> /\ (pdu[1] = 0 \/ HasSmsc(pdu))
      /\ ~SmscOverruns(pdu)
      /\ Smsc(pdu) = smsc
      /\ From(pdu, IF pdu[1] = 0 THEN 2 ELSE pdu[1] + 2) = rest
  <2>1. /\ smsc \in Seq(Digit)
        /\ AddressOctets(Len(smsc)) + 1 <= max_smsc /\ 2 * AddressOctets(Len(smsc)) < max_smsc
    BY DEF CentreFits
  <2>2. rest \in Seq(Nat) /\ rest # <<>> /\ rest[1] # 0
    BY <1>2, <1>3
  <2>3. CentreFound(CentreOctets(smsc) \o rest, smsc, rest)
    BY <2>1, <2>2, CentreRead
  <2>4. CentreFound(pdu, smsc, rest)
    BY <1>4, <2>3
  <2> QED
    BY <2>4 DEF CentreFound
<1>6. /\ 4 % 4 = 0 /\ 68 % 4 = 0 /\ 6 % 4 = 2
      /\ 4 % 4 # 2 /\ 68 % 4 # 2 /\ 6 % 4 # 0
  OBVIOUS
<1>7. Sent(smsc, first, inner) = pdu
  BY <1>1, <1>4 DEF Sent
<1>8. CASE first = 6
  <2>1. parse(pdu) = parseStatusReport(Tail(rest), Smsc(pdu))
    BY <1>3, <1>5, <1>6, <1>8 DEF parse
  <2> QED
    BY <1>3, <1>5, <1>7, <1>8, <2>1 DEF GoesOn
<1>9. CASE first # 6
  <2>1. rest[1] % 4 = 0 /\ rest[1] % 4 # 2
    BY <1>2, <1>3, <1>6, <1>9
  <2>2. parse(pdu) = parseDeliver(Tail(rest), Smsc(pdu), rest[1])
    BY <1>3, <1>5, <2>1 DEF parse
  <2> QED
    BY <1>3, <1>5, <1>7, <1>9, <2>2 DEF GoesOn
<1> QED
  BY <1>8, <1>9

-----------------------------------------------------------------------------
(* The senders, the service centres and the messages of the run.           *)

(* Of one character more, a name takes no less.                            *)
LEMMA LongerName ==
  \A a, b \in Nat : a <= b => (7 * a + 3) \div 4 <= (7 * b + 3) \div 4
OBVIOUS

(* The senders of the run are formed so.                                   *)
LEMMA SendersFormed ==
  ASSUME NEW from \in Senders
  PROVE  Formed(from.octets, from.shown)
<1>1. CASE from = [shown |-> <<>>, octets |-> <<0, 129>>]
  <2>1. PICK a \in Seq(Nat) : a = <<0, 129>>
    <3>1. <<0, 129>> \in Seq(Nat)
      OBVIOUS
    <3> QED
      BY <3>1
  <2>2. Len(a) = 2 /\ a[1] = 0
    BY <2>1
  <2>3. AddressOctets(0) = 0 /\ 0 <= max_number
    BY AddressAssumption DEF AddressOctets
  <2>4. Formed(a, <<>>)
    BY <2>2, <2>3 DEF Formed
  <2> QED
    BY <1>1, <2>1, <2>4
<1>2. CASE from \in {NumberSender(n) : n \in UNION {[1 .. k -> Digits] : k \in 1 .. MaxNumber}}
  <2>1. PICK k \in 1 .. MaxNumber : \E n \in [1 .. k -> Digits] : from = NumberSender(n)
    BY <1>2
  <2>2. PICK n \in [1 .. k -> Digits] : from = NumberSender(n)
    BY <2>1
  <2>3. k \in Nat \ {0} /\ k <= max_number /\ 2 * AddressOctets(k) < max_number
    BY FormatsAssumption, AddressAssumption, SMTT(60) DEF AddressOctets
  <2>4. n \in [1 .. k -> Digit]
    <3>1. Digits \subseteq Digit
      BY DEF Digits, Digit
    <3> QED
      BY <2>2, <3>1
  <2>5. n \in Seq(Digit) /\ Len(n) = k
    BY <2>3, <2>4
  <2>6. n # <<>>
    BY <2>3, <2>5
  <2>7. Formed(NumberSender(n).octets, n)
    BY <2>3, <2>5, <2>6, NumberFormed
  <2> QED
    BY <2>2, <2>7 DEF NumberSender
<1>3. CASE from \in {NameSender(t) : t \in UNION {[1 .. k -> Characters] : k \in 1 .. MaxName}}
  <2>1. PICK k \in 1 .. MaxName : \E t \in [1 .. k -> Characters] : from = NameSender(t)
    BY <1>3
  <2>2. PICK t \in [1 .. k -> Characters] : from = NameSender(t)
    BY <2>1
  <2>3. k \in Nat \ {0} /\ k <= MaxName /\ MaxName \in Nat
    BY FormatsAssumption
  <2>4. t \in [1 .. k -> 1 .. 127]
    <3>1. \A c \in 0 .. 127 : c # 0 => c \in 1 .. 127
      OBVIOUS
    <3>2. Characters \subseteq 1 .. 127
      BY <3>1, CharacterAssumption, FormatsAssumption
    <3> QED
      BY <2>2, <3>2
  <2>5. t \in Seq(1 .. 127) /\ Len(t) = k
    BY <2>3, <2>4
  <2>6. t # <<>>
    BY <2>3, <2>5
  <2>7. (7 * k + 3) \div 4 <= max_number
    <3>1. PICK p \in Nat : p = (7 * k + 3) \div 4
      BY <2>3
    <3>2. PICK q \in Nat : q = (7 * MaxName + 3) \div 4
      BY <2>3
    <3>3. p <= q
      BY <2>3, <3>1, <3>2, LongerName
    <3>4. q <= max_number /\ max_number \in Nat
      BY <3>2, FormatsAssumption, AddressAssumption
    <3> QED
      BY <3>1, <3>3, <3>4
  <2>8. Formed(NameSender(t).octets, t)
    BY <2>5, <2>6, <2>7, NameFormed
  <2> QED
    BY <2>2, <2>8 DEF NameSender
<1>4. CASE from \in {NameSender([i \in 1 .. k |-> 70 + i]) : k \in MaxName .. 11}
  <2>1. PICK k \in MaxName .. 11 : from = NameSender([i \in 1 .. k |-> 70 + i])
    BY <1>4
  <2>2. k \in Nat \ {0} /\ k <= 11
    BY FormatsAssumption
  <2>3. PICK t \in [1 .. k -> 1 .. 127] : t = [i \in 1 .. k |-> 70 + i]
    <3>1. \A i \in 1 .. k : 70 + i \in 1 .. 127
      BY <2>2
    <3> QED
      BY <3>1
  <2>4. t \in Seq(1 .. 127) /\ Len(t) = k
    BY <2>2, <2>3
  <2>5. t # <<>>
    BY <2>2, <2>4
  <2>6. (7 * k + 3) \div 4 <= max_number
    <3>1. PICK p \in Nat : p = (7 * k + 3) \div 4 /\ p <= 20
      BY <2>2
    <3>2. 20 <= max_number /\ max_number \in Nat
      BY FormatsAssumption, AddressAssumption
    <3> QED
      BY <3>1, <3>2
  <2>7. Formed(NameSender(t).octets, t)
    BY <2>4, <2>5, <2>6, NameFormed
  <2> QED
    BY <2>1, <2>3, <2>7 DEF NameSender
<1> QED
  BY <1>1, <1>2, <1>3, <1>4 DEF Senders

(* The service centres of the run fit.                                     *)
LEMMA CentresFit ==
  ASSUME NEW smsc \in Centres
  PROVE  CentreFits(smsc)
<1>1. smsc \in Seq(Digit) /\ (Len(smsc) = 0 \/ Len(smsc) = 2 \/ Len(smsc) = 3)
  <2>1. CASE smsc = <<>>
    BY <2>1
  <2>2. CASE smsc = <<3, 8>>
    <3>1. 3 \in Digit /\ 8 \in Digit
      BY DEF Digit
    <3> QED
      BY <2>2, <3>1
  <2>3. CASE smsc = <<8, 3, 3>>
    <3>1. 3 \in Digit /\ 8 \in Digit
      BY DEF Digit
    <3> QED
      BY <2>3, <3>1
  <2> QED
    BY <2>1, <2>2, <2>3 DEF Centres
<1>2. AddressOctets(0) = 0 /\ AddressOctets(2) = 1 /\ AddressOctets(3) = 2
  BY DEF AddressOctets
<1>3. AddressOctets(Len(smsc)) + 1 <= max_smsc /\ 2 * AddressOctets(Len(smsc)) < max_smsc
  <2>1. \/ AddressOctets(Len(smsc)) = 0 \/ AddressOctets(Len(smsc)) = 1
        \/ AddressOctets(Len(smsc)) = 2
    BY <1>1, <1>2
  <2>2. 5 <= max_smsc /\ max_smsc \in Nat
    BY FormatsAssumption, AddressAssumption
  <2> QED
    BY <2>1, <2>2
<1> QED
  BY <1>1, <1>3 DEF CentreFits

(* The texts of the run are short, and made of characters.                 *)
LEMMA TextsFormed ==
  ASSUME NEW text \in Texts
  PROVE  text \in Seq(0 .. 127) /\ text \in Seq(Nat) /\ Len(text) \in 0 .. 3
<1>1. CASE text = <<>>
  BY <1>1
<1>2. CASE text = <<35>>
  BY <1>2
<1>3. CASE text = <<35, 92, 35>>
  BY <1>3
<1> QED
  BY <1>1, <1>2, <1>3 DEF Texts

(* The headers of the run are well formed, and fit.                        *)
LEMMA HeadersOfRun ==
  ASSUME NEW hdr \in {<<>>, <<3, 0, 1, 9>>}
  PROVE  /\ hdr \in Seq(Nat) /\ WellFormed(hdr) /\ 3 * Len(hdr) < max_udh_data
         /\ UdhSeptets(hdr) \in 0 .. 5
<1>1. CASE hdr = <<>>
  <2>1. hdr \in Seq(Nat) /\ Len(hdr) = 0
    BY <1>1
  <2> QED
    BY <1>1, <2>1, FormatsAssumption, LimitAssumption DEF WellFormed, UdhSeptets
<1>2. CASE hdr = <<3, 0, 1, 9>>
  <2>1. hdr \in Seq(Nat) /\ Len(hdr) = 4 /\ hdr[1] = 3
    BY <1>2
  <2> QED
    BY <2>1, FormatsAssumption, LimitAssumption DEF WellFormed, UdhSeptets
<1> QED
  BY <1>1, <1>2

(* Short as they are, the texts fit.                                       *)
LEMMA TextsFit ==
  ASSUME NEW n \in 0 .. 3, NEW packed \in BOOLEAN, NEW hdr, UdhSeptets(hdr) \in 0 .. 5
  PROVE  n <= DataLimit(packed, hdr)
<1>1. PICK skip \in 0 .. 5 : skip = UdhSeptets(hdr)
  OBVIOUS
<1>2. /\ max_pdu \in Nat /\ 8 <= max_pdu
      /\ maxsms_binary \in Nat /\ 3 <= maxsms_binary
  BY FormatsAssumption, LimitAssumption
<1>3. n <= max_pdu - skip /\ n <= maxsms_binary
  BY <1>2
<1> QED
  BY <1>1, <1>3 DEF DataLimit
-----------------------------------------------------------------------------
(* The run.                                                                *)

MessageLeft(from, smsc, alphabet, flash, hdr, text, lost) ==
  [sort |-> "message", from |-> from, smsc |-> smsc, alphabet |-> alphabet,
   flash |-> flash, udh |-> hdr, text |-> text, lost |-> lost]

ReportLeft(from, smsc, status, lost) ==
  [sort |-> "report", from |-> from, smsc |-> smsc, status |-> status, lost |-> lost]

IsMessageLeft(i) ==
  \E from \in Senders, smsc \in Centres, alphabet \in 0 .. 2, flash \in BOOLEAN,
     hdr \in {<<>>, <<3, 0, 1, 9>>}, text \in Texts, lost \in Nat :
    /\ i = MessageLeft(from, smsc, alphabet, flash, hdr, text, lost)
    /\ lost <= Len(Body(i))

IsReportLeft(i) ==
  \E from \in Senders, smsc \in Centres, status \in {0, 70}, lost \in Nat :
    /\ from.shown # <<>>
    /\ i = ReportLeft(from, smsc, status, lost)
    /\ lost <= Len(Body(i))

IsItem(i) ==
  \/ i \in {None} \cup SubmitItems \cup CregItems \cup UssdItems
  \/ IsMessageLeft(i) \/ IsReportLeft(i)

FormatsInv == IsItem(item)

(* What the item holds, as the lemmas about bodies need it.                *)
MessageIs(i, from, smsc, lost) ==
  /\ i.sort = "message" /\ i.from = from /\ i.smsc = smsc /\ i.lost = lost
  /\ MessageFormed(i) /\ Body(i) = MessageBody(i)
  /\ \E first \in {4, 68} : First(i) = <<first>> /\ HeaderTold(first, i.udh)

(* A message of the run, and all that is left of it.                       *)
LEMMA MessageOfRun ==
  ASSUME NEW from \in Senders, NEW smsc \in Centres, NEW alphabet \in 0 .. 2,
         NEW flash \in BOOLEAN, NEW hdr \in {<<>>, <<3, 0, 1, 9>>}, NEW text \in Texts,
         NEW lost \in Nat,
         NEW i, i = MessageLeft(from, smsc, alphabet, flash, hdr, text, lost)
  PROVE  MessageIs(i, from, smsc, lost)
<1>1. /\ i.sort = "message" /\ i.from = from /\ i.smsc = smsc /\ i.alphabet = alphabet
      /\ i.flash = flash /\ i.udh = hdr /\ i.text = text /\ i.lost = lost
  BY DEF MessageLeft
<1>2. MessageFormed(i)
  <2>1. /\ hdr \in Seq(Nat) /\ WellFormed(hdr) /\ 3 * Len(hdr) < max_udh_data
        /\ UdhSeptets(hdr) \in 0 .. 5
    BY HeadersOfRun
  <2>2. text \in Seq(0 .. 127) /\ text \in Seq(Nat) /\ Len(text) \in 0 .. 3
    BY TextsFormed
  <2>3. PICK packed \in BOOLEAN : packed = (alphabet = 0)
    OBVIOUS
  <2>4. Len(text) <= DataLimit(packed, hdr)
    BY <2>1, <2>2, TextsFit
  <2> QED
    BY <1>1, <2>1, <2>2, <2>3, <2>4 DEF MessageFormed
<1>3. "message" # "report"
  OBVIOUS
<1>4. Body(i) = MessageBody(i)
  BY <1>1 DEF Body
<1>5. \E first \in {4, 68} : First(i) = <<first>> /\ HeaderTold(first, i.udh)
  <2>1. CASE hdr = <<>>
    <3>1. First(i) = <<4>>
      BY <1>1, <1>3, <2>1 DEF First
    <3>2. HeaderTold(4, hdr)
      BY <2>1 DEF HeaderTold
    <3> QED
      BY <1>1, <3>1, <3>2
  <2>2. CASE hdr = <<3, 0, 1, 9>>
    <3>1. hdr # <<>>
      BY <2>2
    <3>2. First(i) = <<68>>
      BY <1>1, <1>3, <3>1 DEF First
    <3>3. HeaderTold(68, hdr)
      <4>1. ((68 \div 64) % 2 = 1) = TRUE
        OBVIOUS
      <4> QED
        BY <3>1, <4>1 DEF HeaderTold
    <3> QED
      BY <1>1, <3>2, <3>3
  <2> QED
    BY <2>1, <2>2
<1> QED
  BY <1>1, <1>2, <1>4, <1>5 DEF MessageIs

(* What of a PDU is left, as parse takes it apart.                         *)
TakenApart(smsc, first, address, left) ==
  CentreOctets(smsc) \o <<first>> \o address \o left = Sent(smsc, first, address \o left)

(* A PDU of four parts is the one that parse takes apart.                  *)
LEMMA PduTaken ==
  ASSUME NEW smsc, CentreFits(smsc), NEW first \in Nat, NEW address \in Seq(Nat),
         NEW left \in Seq(Nat)
  PROVE  TakenApart(smsc, first, address, left)
<1>1. PICK c \in Seq(Nat) : c = CentreOctets(smsc)
  BY CentreType DEF CentreFits
<1>2. PICK f \in Seq(Nat) : f = <<first>>
  <2>1. <<first>> \in Seq(Nat)
    OBVIOUS
  <2> QED
    BY <2>1
<1>3. JoinedLater(c, f, address, left)
  BY <1>1, <1>2, RegroupFour
<1>4. ((c \o f) \o address) \o left = c \o (f \o (address \o left))
  BY <1>3 DEF JoinedLater
<1> QED
  BY <1>1, <1>2, <1>4 DEF Sent, TakenApart

(* Every message of the run: read when nothing is lost, or refused.        *)
LEMMA MessageKept ==
  ASSUME NEW i, IsMessageLeft(i)
  PROVE  /\ i.sort = "message" /\ i.lost \in Nat
         /\ i.lost = 0 =>
              parse(PduOf(i)) =
                [kind |-> "message", smsc |-> i.smsc, number |-> i.from.shown, replace |-> 0,
                 alphabet |-> i.alphabet, flash |-> i.flash, stamp |-> StampDigits,
                 udh |-> i.udh, message |-> i.text]
         /\ i.lost > 0 => parse(PduOf(i)) = NotRead
<1>1. PICK from \in Senders, smsc \in Centres, alphabet \in 0 .. 2, flash \in BOOLEAN,
           hdr \in {<<>>, <<3, 0, 1, 9>>}, text \in Texts, lost \in Nat :
             /\ i = MessageLeft(from, smsc, alphabet, flash, hdr, text, lost)
             /\ lost <= Len(Body(i))
  BY DEF IsMessageLeft
<1>2. /\ i.sort = "message" /\ i.from = from /\ i.smsc = smsc /\ i.lost = lost
      /\ MessageFormed(i) /\ Body(i) = MessageBody(i)
      /\ \E first \in {4, 68} : First(i) = <<first>> /\ HeaderTold(first, i.udh)
  <2>1. MessageIs(i, from, smsc, lost)
    BY <1>1, MessageOfRun
  <2> QED
    BY <2>1 DEF MessageIs
<1>3. PICK first \in {4, 68} : First(i) = <<first>> /\ HeaderTold(first, i.udh)
  BY <1>2
<1>4. PICK address : address = from.octets /\ Formed(address, from.shown) /\ address \in Seq(Nat)
  BY <1>1, SendersFormed DEF Formed
<1>5. /\ MessageBody(i) \in Seq(Nat)
      /\ parseDeliver(address \o MessageBody(i), smsc, first) =
           [kind |-> "message", smsc |-> smsc, number |-> from.shown, replace |-> 0,
            alphabet |-> i.alphabet, flash |-> i.flash, stamp |-> StampDigits,
            udh |-> i.udh, message |-> i.text]
      /\ \A k \in Nat :
           k < Len(MessageBody(i)) =>
             parseDeliver(address \o SubSeq(MessageBody(i), 1, k), smsc, first) = NotRead
  <2>1. MessageReads(i, address, from.shown, smsc, first)
    BY <1>2, <1>3, <1>4, MessageFound
  <2> QED
    BY <2>1 DEF MessageReads
<1>6. PICK body \in Seq(Nat) : body = MessageBody(i)
  BY <1>5
<1>7. PICK k \in Nat : k = Len(body) - lost /\ k <= Len(body)
  <2>1. PICK n \in Nat : n = Len(body)
    BY <1>6
  <2>2. lost <= n /\ lost \in Nat
    BY <1>1, <1>2, <1>6, <2>1
  <2>3. n - lost \in Nat /\ n - lost <= n
    BY <2>1, <2>2
  <2> QED
    BY <2>1, <2>3
<1>8. PICK left \in Seq(Nat) : left = SubSeq(body, 1, k)
  <2>1. k \in 0 .. Len(body)
    BY <1>6, <1>7
  <2> QED
    BY <1>6, <2>1, LeftOctets
<1>9. PduOf(i) = Sent(smsc, first, address \o left)
  <2>1. PduOf(i) = CentreOctets(smsc) \o <<first>> \o address \o left
    BY <1>2, <1>3, <1>4, <1>6, <1>7, <1>8 DEF PduOf
  <2>2. CentreFits(smsc)
    BY <1>1, CentresFit
  <2>3. first \in Nat
    BY <1>3
  <2>4. TakenApart(smsc, first, address, left)
    BY <1>4, <1>8, <2>2, <2>3, PduTaken
  <2> QED
    BY <2>1, <2>4 DEF TakenApart
<1>10. parse(PduOf(i)) = parseDeliver(address \o left, smsc, first)
  <2>1. CentreFits(smsc) /\ first \in Firsts /\ first # 6
    BY <1>1, <1>3, CentresFit DEF Firsts
  <2>2. PICK inner \in Seq(Nat) : inner = address \o left
    <3>1. address \o left \in Seq(Nat)
      BY <1>4, <1>8, PartsShape
    <3> QED
      BY <3>1
  <2>3. GoesOn(smsc, first, inner)
    BY <2>1, <2>2, ParseGoesOn, ZenonT(60)
  <2> QED
    BY <1>9, <2>1, <2>2, <2>3 DEF GoesOn
<1>11. CASE lost = 0
  <2>1. k = Len(body)
    BY <1>6, <1>7, <1>11
  <2>2. left = body
    BY <1>6, <1>8, <2>1
  <2> QED
    BY <1>2, <1>5, <1>6, <1>10, <1>11, <2>2
<1>12. CASE lost # 0
  <2>1. k < Len(body)
    BY <1>1, <1>6, <1>7, <1>12
  <2>2. parse(PduOf(i)) = NotRead
    BY <1>5, <1>6, <1>7, <1>8, <1>10, <2>1
  <2> QED
    BY <1>1, <1>2, <1>12, <2>2
<1> QED
  BY <1>11, <1>12
(* A report's body is its stamps and its status.                           *)
LEMMA ReportShape ==
  ASSUME NEW status \in Nat
  PROVE  /\ StampField \o StampField \o <<status>> = ReportBody(status)
         /\ ReportBody(status) \in Seq(Nat) /\ Len(ReportBody(status)) = 15
<1>1. PICK last \in Seq(Nat) : last = <<status>> /\ Len(last) = 1
  <2>1. <<status>> \in Seq(Nat)
    OBVIOUS
  <2> QED
    BY <2>1
<1>2. PICK f \in Seq(Nat) : f = StampField /\ Len(f) = 7
  BY <1>1, StampRead
<1>3. PICK second \in Seq(Nat) : second = f \o last /\ Len(second) = 8
  <2>1. f \o last \in Seq(Nat) /\ Len(f \o last) = Len(f) + Len(last)
    BY <1>1, <1>2, PartsShape
  <2>2. Len(f) = 7 /\ Len(last) = 1
    BY <1>1, <1>2
  <2>3. Len(f \o last) = 8
    BY <2>1, <2>2
  <2> QED
    BY <2>1, <2>3
<1>4. f \o second \in Seq(Nat) /\ Len(f \o second) = 15
  <2>1. f \o second \in Seq(Nat) /\ Len(f \o second) = Len(f) + Len(second)
    BY <1>2, <1>3, PartsShape
  <2> QED
    BY <1>2, <1>3, <2>1
<1>5. (f \o f) \o last = f \o second
  <2>1. EitherFirst(f, f, last)
    BY <1>1, <1>2, Regroup
  <2> QED
    BY <1>3, <2>1 DEF EitherFirst
<1> QED
  BY <1>1, <1>2, <1>3, <1>4, <1>5 DEF ReportBody

(* A report of the run, and all that is left of it.                        *)
LEMMA ReportOfRun ==
  ASSUME NEW from \in Senders, NEW smsc \in Centres, NEW status \in {0, 70}, NEW lost \in Nat,
         NEW i, i = ReportLeft(from, smsc, status, lost)
  PROVE  /\ i.sort = "report" /\ i.from = from /\ i.smsc = smsc /\ i.status = status
         /\ i.lost = lost
         /\ Body(i) = ReportBody(status) /\ First(i) = <<6, 77>>
<1>1. /\ i.sort = "report" /\ i.from = from /\ i.smsc = smsc /\ i.status = status
      /\ i.lost = lost
  BY DEF ReportLeft
<1>2. "report" # "message" /\ status \in Nat
  OBVIOUS
<1>3. Body(i) = StampField \o StampField \o <<status>>
  BY <1>1, <1>2 DEF Body
<1>4. First(i) = <<6, 77>>
  BY <1>1, <1>2 DEF First
<1> QED
  BY <1>1, <1>2, <1>3, <1>4, ReportShape

(* The two octets before the address of a report.                          *)
LEMMA PairJoined == <<6>> \o <<77>> = <<6, 77>>
<1>1. PICK a \in Seq(Nat), b \in Seq(Nat) : a = <<6>> /\ b = <<77>>
  <2>1. <<6>> \in Seq(Nat) /\ <<77>> \in Seq(Nat)
    OBVIOUS
  <2> QED
    BY <2>1
<1>2. Len(a) = 1 /\ Len(b) = 1 /\ a[1] = 6 /\ b[1] = 77
  BY <1>1
<1>3. PICK s \in Seq(Nat) : s = a \o b
  BY <1>1, ConcatProperties
<1>4. Len(s) = 2 /\ s[1] = 6 /\ s[2] = 77
  BY <1>1, <1>2, <1>3
<1>5. s = <<6, 77>>
  <2>1. PICK t \in Seq(Nat) : t = <<6, 77>>
    <3>1. <<6, 77>> \in Seq(Nat)
      OBVIOUS
    <3> QED
      BY <3>1
  <2>2. Len(t) = Len(s) /\ t[1] = s[1] /\ t[2] = s[2]
    BY <1>4, <2>1
  <2>3. \A i \in 1 .. Len(s) : s[i] = t[i]
    <3>1. \A i \in 1 .. 2 : i = 1 \/ i = 2
      OBVIOUS
    <3> QED
      BY <1>4, <2>2, <3>1
  <2>4. s = t
    BY <1>3, <2>2, <2>3, SeqEqual
  <2> QED
    BY <2>1, <2>4
<1> QED
  BY <1>1, <1>3, <1>5

(* The octet that names the report stands before the address.              *)
ReportApart(smsc, address, left) ==
  CentreOctets(smsc) \o <<6, 77>> \o address \o left
    = Sent(smsc, 6, <<77>> \o (address \o left))

(* A report of four parts is the one that parse takes apart.               *)
LEMMA ReportTaken ==
  ASSUME NEW smsc, CentreFits(smsc), NEW address \in Seq(Nat), NEW left \in Seq(Nat)
  PROVE  ReportApart(smsc, address, left)
<1>1. PICK c \in Seq(Nat) : c = CentreOctets(smsc)
  BY CentreType DEF CentreFits
<1>2. PICK f \in Seq(Nat) : f = <<6, 77>>
  <2>1. <<6, 77>> \in Seq(Nat)
    OBVIOUS
  <2> QED
    BY <2>1
<1>3. PICK six \in Seq(Nat), id \in Seq(Nat) : six = <<6>> /\ id = <<77>>
  <2>1. <<6>> \in Seq(Nat) /\ <<77>> \in Seq(Nat)
    OBVIOUS
  <2> QED
    BY <2>1
<1>4. six \o id = f
  BY <1>2, <1>3, PairJoined
<1>5. JoinedLater(c, f, address, left)
  BY <1>1, <1>2, RegroupFour
<1>6. ((c \o f) \o address) \o left = c \o (f \o (address \o left))
  BY <1>5 DEF JoinedLater
<1>7. PICK rest \in Seq(Nat) : rest = address \o left
  BY ConcatProperties
<1>8. (six \o id) \o rest = six \o (id \o rest)
  <2>1. six \in Seq(Nat) /\ id \in Seq(Nat) /\ rest \in Seq(Nat)
    BY <1>3, <1>7
  <2>2. EitherFirst(six, id, rest)
    BY <2>1, Regroup
  <2> QED
    BY <2>2 DEF EitherFirst
<1> QED
  BY <1>1, <1>2, <1>3, <1>4, <1>6, <1>7, <1>8 DEF Sent, ReportApart

(* Every report of the run: read when nothing is lost, or refused.         *)
LEMMA ReportKept ==
  ASSUME NEW i, IsReportLeft(i)
  PROVE  /\ i.sort = "report" /\ i.lost \in Nat
         /\ i.lost = 0 =>
              parse(PduOf(i)) =
                [kind |-> "report", smsc |-> i.smsc, id |-> 77, number |-> i.from.shown,
                 stamp |-> StampDigits, discharge |-> StampDigits, status |-> i.status]
         /\ i.lost > 0 => parse(PduOf(i)) = NotRead
<1>1. PICK from \in Senders, smsc \in Centres, status \in {0, 70}, lost \in Nat :
             /\ from.shown # <<>>
             /\ i = ReportLeft(from, smsc, status, lost)
             /\ lost <= Len(Body(i))
  BY DEF IsReportLeft
<1>2. /\ i.sort = "report" /\ i.from = from /\ i.smsc = smsc /\ i.status = status
      /\ i.lost = lost
      /\ Body(i) = ReportBody(status) /\ First(i) = <<6, 77>>
  BY <1>1, ReportOfRun
<1>3. PICK address : address = from.octets /\ Formed(address, from.shown) /\ address \in Seq(Nat)
  BY <1>1, SendersFormed DEF Formed
<1>4. PICK body \in Seq(Nat) : body = ReportBody(status) /\ Len(body) = 15
  <2>1. status \in Nat
    BY <1>1
  <2> QED
    BY <2>1, ReportShape, ZenonT(60)
<1>5. PICK k \in Nat : k = 15 - lost /\ k <= 15
  <2>1. lost <= 15 /\ lost \in Nat
    BY <1>1, <1>2, <1>4
  <2> QED
    BY <2>1
<1>6. PICK left \in Seq(Nat) : left = SubSeq(body, 1, k) /\ Len(left) = k
  <2>1. k <= Len(body)
    BY <1>4, <1>5
  <2>2. SubSeq(body, 1, k) \in Seq(Nat) /\ Len(SubSeq(body, 1, k)) = k
    BY <1>4, <1>5, <2>1, LeftPart, ZenonT(60)
  <2> QED
    BY <2>2
<1>7. CentreFits(smsc)
  BY <1>1, CentresFit
<1>8. PICK id \in Nat : id = 77
  OBVIOUS
<1>9. PICK inner \in Seq(Nat) : inner = <<id>> \o (address \o left)
  <2>1. PICK rest \in Seq(Nat) : rest = address \o left
    BY <1>3, <1>6, ConcatProperties
  <2>2. <<id>> \o rest \in Seq(Nat)
    BY <1>8, <2>1, TailOf
  <2> QED
    BY <2>1, <2>2
<1>10. PduOf(i) = Sent(smsc, 6, inner)
  <2>1. PduOf(i) = CentreOctets(smsc) \o <<6, 77>> \o address \o left
    BY <1>2, <1>3, <1>4, <1>5, <1>6 DEF PduOf
  <2>2. ReportApart(smsc, address, left)
    BY <1>3, <1>6, <1>7, ReportTaken
  <2> QED
    BY <1>8, <1>9, <2>1, <2>2 DEF ReportApart
<1>11. parse(PduOf(i)) = parseStatusReport(inner, smsc)
  <2>1. PICK first \in Firsts : first = 6
    BY DEF Firsts
  <2>2. GoesOn(smsc, first, inner)
    BY <1>7, <1>9, <2>1, ParseGoesOn
  <2> QED
    BY <1>10, <2>1, <2>2 DEF GoesOn
<1>12. CASE lost = 0
  <2>1. k = Len(body)
    BY <1>4, <1>5, <1>12
  <2>2. left = body
    BY <1>4, <1>6, <2>1
  <2>3. ReportReads(address, from.shown, smsc, id, status)
    <3>1. status \in Nat /\ from.shown # <<>>
      BY <1>1
    <3> QED
      BY <1>3, <1>8, <3>1, ReportFound
  <2> QED
    BY <1>2, <1>4, <1>8, <1>9, <1>11, <1>12, <2>2, <2>3 DEF ReportReads
<1>13. CASE lost # 0
  <2>1. Len(left) < 15
    BY <1>1, <1>5, <1>6, <1>13
  <2>2. parseStatusReport(<<id>> \o (address \o left), smsc) = NotRead
    BY <1>3, <1>6, <1>8, <2>1, ReportRefused, ZenonT(60)
  <2> QED
    BY <1>1, <1>2, <1>9, <1>11, <1>13, <2>2
<1> QED
  BY <1>12, <1>13

(* What is neither loses nothing and is none of what these properties are  *)
(* about.                                                                  *)
LEMMA OthersOfRun ==
  ASSUME NEW i \in {None} \cup SubmitItems \cup CregItems \cup UssdItems
  PROVE  i.sort # "message" /\ i.sort # "report"
<1>1. CASE i = None
  BY <1>1 DEF None
<1>2. CASE i \in SubmitItems
  <2>1. i.sort = "submit"
    BY <1>2 DEF SubmitItems
  <2> QED
    BY <2>1
<1>3. CASE i \in CregItems
  <2>1. \E mode, status, cell, space :
          i = [sort |-> "creg", mode |-> mode, status |-> status, cell |-> cell, space |-> space]
    BY <1>3 DEF CregItems
  <2>2. i.sort = "creg"
    BY <2>1
  <2> QED
    BY <2>2
<1>4. CASE i \in UssdItems
  <2>1. \E text, space : i = [sort |-> "ussd", text |-> text, space |-> space]
    BY <1>4 DEF UssdItems
  <2>2. i.sort = "ussd"
    BY <2>1
  <2> QED
    BY <2>2
<1> QED
  BY <1>1, <1>2, <1>3, <1>4

(* A message of the run, be all of it left or not.                         *)
MessageShape(i) ==
  \E from \in Senders, smsc \in Centres, alphabet \in 0 .. 2, flash \in BOOLEAN,
     hdr \in {<<>>, <<3, 0, 1, 9>>}, text \in Texts, lost \in Nat :
    i = MessageLeft(from, smsc, alphabet, flash, hdr, text, lost)

(* The body of a message is made of octets.                                *)
LEMMA BodyOctets ==
  ASSUME NEW i, MessageShape(i)
  PROVE  \E n \in Nat : Body(i) \in Seq(Nat) /\ n = Len(Body(i))
<1>1. PICK from \in Senders, smsc \in Centres, alphabet \in 0 .. 2, flash \in BOOLEAN,
           hdr \in {<<>>, <<3, 0, 1, 9>>}, text \in Texts, lost \in Nat :
             i = MessageLeft(from, smsc, alphabet, flash, hdr, text, lost)
  BY DEF MessageShape
<1>2. /\ i.sort = "message" /\ i.from = from /\ i.smsc = smsc /\ i.lost = lost
      /\ MessageFormed(i) /\ Body(i) = MessageBody(i)
      /\ \E first \in {4, 68} : First(i) = <<first>> /\ HeaderTold(first, i.udh)
  <2>1. MessageIs(i, from, smsc, lost)
    BY <1>1, MessageOfRun
  <2> QED
    BY <2>1 DEF MessageIs
<1>3. PICK first \in {4, 68} : HeaderTold(first, i.udh)
  BY <1>2
<1>4. PICK address : Formed(address, from.shown)
  BY <1>1, SendersFormed
<1>5. MessageReads(i, address, from.shown, smsc, first)
  BY <1>2, <1>3, <1>4, MessageFound
<1>6. Body(i) \in Seq(Nat)
  BY <1>2, <1>5 DEF MessageReads
<1> QED
  BY <1>6

(* Messages and reports begin whole.                                       *)
LEMMA BeginWhole ==
  ASSUME NEW i \in MessageItems \cup ReportItems
  PROVE  IsMessageLeft(i) \/ IsReportLeft(i)
<1>1. PICK lost \in Nat : lost = 0
  OBVIOUS
<1>2. CASE i \in MessageItems
  <2>1. PICK from \in Senders, smsc \in Centres, alphabet \in 0 .. 2, flash \in BOOLEAN,
             h \in DOMAIN UdhOf, text \in Texts :
          i = [sort |-> "message", from |-> from, smsc |-> smsc, alphabet |-> alphabet,
               flash |-> flash, udh |-> UdhOf[h], text |-> text, lost |-> 0]
    BY <1>2 DEF MessageItems
  <2>2. PICK hdr \in {<<>>, <<3, 0, 1, 9>>} : hdr = UdhOf[h]
    BY DEF UdhOf
  <2>3. i = MessageLeft(from, smsc, alphabet, flash, hdr, text, lost)
    BY <1>1, <2>1, <2>2 DEF MessageLeft
  <2>4. MessageShape(i)
    BY <1>1, <2>1, <2>2, <2>3 DEF MessageShape
  <2>5. lost <= Len(Body(i))
    BY <1>1, <2>4, BodyOctets
  <2> QED
    BY <1>1, <2>1, <2>2, <2>3, <2>5 DEF IsMessageLeft
<1>3. CASE i \in ReportItems
  <2>1. PICK from \in {s \in Senders : s.shown # <<>>}, smsc \in Centres, status \in {0, 70} :
          i = [sort |-> "report", from |-> from, smsc |-> smsc, status |-> status, lost |-> 0]
    BY <1>3 DEF ReportItems
  <2>2. i = ReportLeft(from, smsc, status, lost)
    BY <1>1, <2>1 DEF ReportLeft
  <2>3. from \in Senders /\ from.shown # <<>>
    BY <2>1
  <2>4. Body(i) = ReportBody(status)
    BY <1>1, <2>1, <2>2, <2>3, ReportOfRun
  <2>5. lost <= Len(Body(i))
    <3>1. status \in Nat
      BY <2>1
    <3>2. Len(ReportBody(status)) = 15
      BY <3>1, ReportShape
    <3> QED
      BY <1>1, <2>4, <3>2
  <2> QED
    BY <1>1, <2>1, <2>2, <2>3, <2>5 DEF IsReportLeft
<1> QED
  BY <1>2, <1>3

(* One octet less leaves a message or a report less of its body.           *)
LEMMA LosesOctet ==
  ASSUME NEW i, IsMessageLeft(i) \/ IsReportLeft(i), i.lost < Len(Body(i)),
         NEW j, j = [i EXCEPT !.lost = @ + 1]
  PROVE  IsMessageLeft(j) \/ IsReportLeft(j)
<1>1. CASE IsMessageLeft(i)
  <2>1. PICK from \in Senders, smsc \in Centres, alphabet \in 0 .. 2, flash \in BOOLEAN,
             hdr \in {<<>>, <<3, 0, 1, 9>>}, text \in Texts, lost \in Nat :
               /\ i = MessageLeft(from, smsc, alphabet, flash, hdr, text, lost)
               /\ lost <= Len(Body(i))
    BY <1>1 DEF IsMessageLeft
  <2>2. PICK more \in Nat : more = lost + 1
    BY <2>1
  <2>3. j = MessageLeft(from, smsc, alphabet, flash, hdr, text, more)
    BY <2>1, <2>2 DEF MessageLeft
  <2>4. Body(j) = Body(i)
    <3>1. i.sort = "message" /\ j.sort = "message"
      BY <2>1, <2>3 DEF MessageLeft
    <3>2. j.alphabet = i.alphabet /\ j.flash = i.flash /\ j.text = i.text /\ j.udh = i.udh
      BY <2>1, <2>3 DEF MessageLeft
    <3>3. MessageBody(j) = MessageBody(i)
      BY <3>2, SMTT(60) DEF MessageBody
    <3> QED
      BY <3>1, <3>3 DEF Body
  <2>5. more <= Len(Body(j))
    <3>1. i.lost = lost
      BY <2>1 DEF MessageLeft
    <3>2. MessageShape(i)
      BY <2>1 DEF MessageShape
    <3>3. PICK n \in Nat : n = Len(Body(i))
      BY <3>2, BodyOctets
    <3>4. lost < n
      BY <3>1, <3>3
    <3>5. more <= n
      BY <2>1, <2>2, <3>3, <3>4
    <3> QED
      BY <2>4, <3>3, <3>5
  <2> QED
    BY <2>1, <2>2, <2>3, <2>5 DEF IsMessageLeft
<1>2. CASE IsReportLeft(i)
  <2>1. PICK from \in Senders, smsc \in Centres, status \in {0, 70}, lost \in Nat :
          /\ from.shown # <<>>
          /\ i = ReportLeft(from, smsc, status, lost)
          /\ lost <= Len(Body(i))
    BY <1>2 DEF IsReportLeft
  <2>2. PICK more \in Nat : more = lost + 1
    BY <2>1
  <2>3. j = ReportLeft(from, smsc, status, more)
    BY <2>1, <2>2 DEF ReportLeft
  <2>4. i.lost = lost /\ Body(i) = ReportBody(status)
    BY <2>1, ReportOfRun
  <2>5. Body(j) = ReportBody(status)
    BY <2>1, <2>2, <2>3, ReportOfRun
  <2>6. more <= Len(Body(j))
    <3>1. status \in Nat
      BY <2>1
    <3>2. Len(ReportBody(status)) = 15
      BY <3>1, ReportShape
    <3>3. lost < 15
      BY <2>4, <3>2
    <3>4. more <= 15
      BY <2>1, <2>2, <3>3
    <3> QED
      BY <2>5, <3>2, <3>4
  <2> QED
    BY <2>1, <2>2, <2>3, <2>6 DEF IsReportLeft
<1> QED
  BY <1>1, <1>2

(* Every item of the run is whole or has lost some of its end.             *)
LEMMA ItemsKept == FormatsSpec => []FormatsInv
<1>1. FormatsInit => FormatsInv
  BY BeginWhole DEF FormatsInit, FormatsInv, IsItem
<1>2. FormatsInv /\ [UserDataStep \/ LoseEnd]_<<vars, item>> => FormatsInv'
  <2> SUFFICES ASSUME FormatsInv, [UserDataStep \/ LoseEnd]_<<vars, item>> PROVE FormatsInv'
    OBVIOUS
  <2>1. CASE item' = item
    BY <2>1 DEF FormatsInv
  <2>2. CASE LoseEnd
    <3>1. PICK i, j : i = item /\ j = item'
      OBVIOUS
    <3>2. i.sort \in {"message", "report"} /\ i.lost < Len(Body(i)) /\ j = [i EXCEPT !.lost = @ + 1]
      BY <2>2, <3>1 DEF LoseEnd
    <3>3. i \notin {None} \cup SubmitItems \cup CregItems \cup UssdItems
      BY <3>2, OthersOfRun
    <3>4. IsMessageLeft(i) \/ IsReportLeft(i)
      BY <3>1, <3>3 DEF FormatsInv, IsItem
    <3>5. IsItem(j)
      BY <3>2, <3>4, LosesOctet DEF IsItem
    <3> QED
      BY <3>1, <3>5 DEF FormatsInv
  <2>3. CASE UserDataStep
    BY <2>1, <2>3 DEF UserDataStep
  <2> QED
    BY <2>1, <2>2, <2>3
<1> QED
  BY <1>1, <1>2, PTL DEF FormatsSpec

(* A message is read as the network sent it (PDU::parse, parseSMSC,        *)
(* parseDeliver).                                                          *)
THEOREM MessageReadHolds == FormatsSpec => []MessageRead
<1>1. FormatsInv => MessageRead
  <2> SUFFICES ASSUME FormatsInv, item.sort = "message", item.lost = 0
               PROVE  parse(PduOf(item)) =
                        [kind |-> "message", smsc |-> item.smsc, number |-> item.from.shown,
                         replace |-> 0, alphabet |-> item.alphabet, flash |-> item.flash,
                         stamp |-> StampDigits, udh |-> item.udh, message |-> item.text]
    BY DEF MessageRead
  <2>1. IsMessageLeft(item)
    BY OthersOfRun, ReportKept DEF FormatsInv, IsItem
  <2> QED
    BY <2>1, MessageKept
<1> QED
  BY <1>1, ItemsKept, PTL

(* A status report is read as the network sent it                          *)
(* (PDU::parseStatusReport).                                               *)
THEOREM ReportReadHolds == FormatsSpec => []ReportRead
<1>1. FormatsInv => ReportRead
  <2> SUFFICES ASSUME FormatsInv, item.sort = "report", item.lost = 0
               PROVE  parse(PduOf(item)) =
                        [kind |-> "report", smsc |-> item.smsc, id |-> 77,
                         number |-> item.from.shown, stamp |-> StampDigits,
                         discharge |-> StampDigits, status |-> item.status]
    BY DEF ReportRead
  <2>1. IsReportLeft(item)
    BY OthersOfRun, MessageKept DEF FormatsInv, IsItem
  <2> QED
    BY <2>1, ReportKept
<1> QED
  BY <1>1, ItemsKept, PTL

(* What lost its end behind the address is refused: the tests of length    *)
(* that parseDeliver, parseStatusReport and the readers of the user data   *)
(* make add up.                                                            *)
THEOREM CutRefusedHolds == FormatsSpec => []CutRefused
<1>1. FormatsInv => CutRefused
  <2> SUFFICES ASSUME FormatsInv, item.sort \in {"message", "report"}, item.lost > 0
               PROVE  parse(PduOf(item)) = NotRead
    BY DEF CutRefused
  <2>1. IsMessageLeft(item) \/ IsReportLeft(item)
    BY OthersOfRun DEF FormatsInv, IsItem
  <2> QED
    BY <2>1, MessageKept, ReportKept
<1> QED
  BY <1>1, ItemsKept, PTL

-----------------------------------------------------------------------------
(* Messages to submit.                                                     *)

(* A message to submit, as the run has it.                                 *)
IsSubmit(i) ==
  \E number \in Seq(Digit), national \in BOOLEAN, smsc \in Centres, alphabet \in {-1, 1, 2},
     text \in Texts :
    i = [sort |-> "submit", number |-> number, national |-> national, smsc |-> smsc,
         alphabet |-> alphabet, message |-> text]

(* What is written of a text without a header, and read of it.             *)
DataRead(packed, text, length, data) ==
  /\ Generate(packed, text, <<>>) = [length |-> length, octets |-> data]
  /\ ParseUserData(packed, [length |-> length, octets |-> data], FALSE)
       = [ok |-> TRUE, udh |-> <<>>, message |-> text]
  /\ Len(data) = TextOctets(packed, text)

(* The texts of the run fit, and are read whole.                           *)
LEMMA SubmitData ==
  ASSUME NEW text \in Texts, NEW packed \in BOOLEAN
  PROVE  \E length \in Nat, data \in Seq(Nat) : DataRead(packed, text, length, data)
<1>1. PICK hdr \in Seq(Nat) : hdr = <<>>
  <2>1. <<>> \in Seq(Nat)
    OBVIOUS
  <2> QED
    BY <2>1
<1>2. Len(hdr) = 0 /\ UdhSeptets(hdr) = 0 /\ WellFormed(hdr) /\ 3 * Len(hdr) < max_udh_data
  <2>1. Len(hdr) = 0
    BY <1>1
  <2>2. max_udh_data \in Nat /\ 0 < max_udh_data
    BY FormatsAssumption, LimitAssumption
  <2>3. (8 * 0 + 6) \div 7 = 0
    OBVIOUS
  <2> QED
    BY <1>1, <2>1, <2>2, <2>3 DEF WellFormed, UdhSeptets
<1>3. text \in Seq(0 .. 127) /\ text \in Seq(Nat) /\ Len(text) \in 0 .. 3
  BY TextsFormed
<1>4. Len(text) <= max_pdu /\ max_pdu \in Nat /\ Len(text) <= maxsms_binary
      /\ max_pdu - UdhSeptets(hdr) = max_pdu
  <2>1. PICK n \in 0 .. 3 : n = Len(text)
    BY <1>3
  <2>2. max_pdu \in Nat /\ 8 <= max_pdu /\ maxsms_binary \in Nat /\ 3 <= maxsms_binary
    BY FormatsAssumption, LimitAssumption
  <2>3. n <= max_pdu /\ n <= maxsms_binary
    BY <2>2
  <2>4. max_pdu - 0 = max_pdu
    BY <2>2
  <2> QED
    BY <1>2, <2>1, <2>2, <2>3, <2>4
<1>5. (hdr # <<>>) = FALSE
  BY <1>1
<1>6. CASE packed
  <2>1. pdu2text(text2pdu(text, hdr), hdr # <<>>) = [ok |-> TRUE, udh |-> hdr, message |-> text]
    <3>1. Len(text) <= max_pdu - UdhSeptets(hdr)
      BY <1>4
    <3> QED
      BY <1>2, <1>3, <3>1, TextRoundTrip
  <2>2. Cut(text, max_pdu - UdhSeptets(hdr)) = text
    BY <1>3, <1>4, CutType
  <2>3. PICK fill \in 0 .. 6 : fill = FillBits(hdr)
    BY FillAligns
  <2>4. Packed(text, fill) \in Seq(Nat)
    BY <1>3, PackedType
  <2>5. PICK data \in Seq(Nat) : data = hdr \o Packed(text, FillBits(hdr))
    BY <2>3, <2>4, ConcatProperties
  <2>6. PICK length \in Nat : length = Len(text) + UdhSeptets(hdr)
    BY <1>2, <1>3
  <2>7. text2pdu(text, hdr) = [length |-> length, octets |-> data]
    BY <2>2, <2>5, <2>6 DEF text2pdu
  <2>8. Len(data) = TextOctets(packed, text)
    <3>1. 7 - (0 % 7) = 7
      OBVIOUS
    <3>2. fill = 0
      BY <1>2, <2>3, <3>1 DEF FillBits
    <3>3. PICK n \in 0 .. 3 : n = Len(text)
      BY <1>3
    <3>4. Len(data) = LastOctet(text, 0) + 1
      <4>1. LastOctet(text, fill) \in Nat
        BY <1>3, OctetsEnough
      <4>2. Len(Packed(text, fill)) = LastOctet(text, fill) + 1
        BY <1>3, PackedType
      <4>3. Len(hdr \o Packed(text, fill)) = Len(hdr) + Len(Packed(text, fill))
        BY <2>4, PartsShape
      <4> QED
        BY <1>2, <2>3, <2>5, <3>2, <4>1, <4>2, <4>3
    <3>5. CASE n = 0
      <4>1. text = <<>>
        BY <1>3, <3>3, <3>5, EmptySeq
      <4> QED
        BY <1>6, <3>3, <3>4, <3>5, <4>1 DEF TextOctets, LastOctet
    <3>6. CASE n # 0
      <4>1. text # <<>>
        BY <3>3, <3>6
      <4>2. ((7 * (n - 1) + 6 + 0) \div 8) + 1 = (7 * n + 7) \div 8
        <5>1. n = 1 \/ n = 2 \/ n = 3
          BY <3>3, <3>6
        <5>2. /\ ((7 * (1 - 1) + 6 + 0) \div 8) + 1 = (7 * 1 + 7) \div 8
              /\ ((7 * (2 - 1) + 6 + 0) \div 8) + 1 = (7 * 2 + 7) \div 8
              /\ ((7 * (3 - 1) + 6 + 0) \div 8) + 1 = (7 * 3 + 7) \div 8
          OBVIOUS
        <5> QED
          BY <5>1, <5>2
      <4> QED
        BY <1>6, <3>3, <3>4, <3>6, <4>1, <4>2 DEF TextOctets, LastOctet
    <3> QED
      BY <3>5, <3>6
  <2> QED
    BY <1>1, <1>5, <1>6, <2>1, <2>7, <2>8 DEF DataRead, Generate, ParseUserData
<1>7. CASE ~packed
  <2>1. pdu2binary(binary2pdu(text, hdr), hdr # <<>>) = [ok |-> TRUE, udh |-> hdr, message |-> text]
    BY <1>2, <1>3, <1>4, BinaryRoundTrip
  <2>2. Cut(text, maxsms_binary) = text
    <3>1. maxsms_binary \in Nat
      BY LimitAssumption
    <3> QED
      BY <1>3, <1>4, <3>1, CutType
  <2>3. PICK data \in Seq(Nat) : data = hdr \o text
    BY <1>3, ConcatProperties
  <2>4. PICK length \in Nat : length = Len(text) + Len(hdr)
    BY <1>2, <1>3
  <2>5. binary2pdu(text, hdr) = [length |-> length, octets |-> data]
    BY <2>2, <2>3, <2>4 DEF binary2pdu
  <2>6. Len(data) = TextOctets(packed, text)
    BY <1>1, <1>3, <1>7, <2>3 DEF TextOctets
  <2> QED
    BY <1>1, <1>5, <1>7, <2>1, <2>5, <2>6 DEF DataRead, Generate, ParseUserData
<1> QED
  BY <1>6, <1>7

(* The address of the service centre, and all that follows it.             *)
Centred(pdu, centre, tpdu) ==
  /\ SubSeq(pdu, 1, pdu[1] + 1) = centre
  /\ From(pdu, pdu[1] + 2) = tpdu

(* The first octet of an address of a service centre counts the rest.      *)
LEMMA CentreCounts ==
  ASSUME NEW smsc \in Centres, NEW tpdu \in Seq(Nat)
  PROVE  /\ SmscField(smsc) = CentreOctets(smsc)
         /\ Centred(SmscField(smsc) \o tpdu, CentreOctets(smsc), tpdu)
<1>1. SmscField(smsc) = CentreOctets(smsc)
  <2>1. CASE smsc = <<>>
    BY <2>1 DEF SmscField, CentreOctets
  <2>2. CASE smsc # <<>>
    <3>1. smsc \in Seq(Digit)
      BY CentresFit DEF CentreFits
    <3>2. smsc[1] # 0
      BY <2>2 DEF Centres
    <3>3. Spelled(smsc) = Octets(smsc)
      BY <3>1, SpelledIsOctets
    <3> QED
      BY <2>2, <3>2, <3>3 DEF SmscField, CentreOctets
  <2> QED
    BY <2>1, <2>2
<1>2. PICK c \in Seq(Nat) : c = CentreOctets(smsc)
  BY CentresFit, CentreType DEF CentreFits
<1>3. Len(c) >= 1 /\ c[1] + 1 = Len(c) /\ c[1] \in Nat
  <2>1. CASE smsc = <<>>
    BY <1>2, <2>1 DEF CentreOctets
  <2>2. CASE smsc # <<>>
    <3>1. PICK b \in Seq(Nat) : b = Spelled(smsc)
      BY CentresFit, SpelledShape DEF CentreFits
    <3>2. PICK n \in Nat, type \in Nat : n = Len(b) + 1 /\ type = 145
      OBVIOUS
    <3>3. c = <<n, type>> \o b
      BY <1>2, <2>2, <3>1, <3>2 DEF CentreOctets
    <3>4. Len(c) = 2 + Len(b) /\ c[1] = n
      BY <3>3, TwoAndMore
    <3> QED
      BY <3>2, <3>4
  <2> QED
    BY <2>1, <2>2
<1>4. PICK pdu : pdu = c \o tpdu
  OBVIOUS
<1>5. pdu[1] = c[1]
  <2>1. 1 \in 1 .. Len(c)
    BY <1>3
  <2> QED
    BY <1>4, <2>1, PartsShape
<1>6. SubSeq(pdu, 1, Len(c)) = c
  BY <1>4, FirstPart
<1>7. From(pdu, Len(c) + 1) = tpdu
  BY <1>4, SecondPart
<1>8. pdu[1] + 1 = Len(c) /\ pdu[1] + 2 = Len(c) + 1
  BY <1>3, <1>5
<1> QED
  BY <1>1, <1>2, <1>4, <1>6, <1>7, <1>8 DEF Centred

(* The number and what is behind it, where SubmitRead looks for them.      *)
Submitted(tpdu, n, type, b, fields) ==
  /\ SubSeq(tpdu, 3, 4 + Len(b)) = <<n, type>> \o b
  /\ From(tpdu, 5 + Len(b)) = fields

(* The parts of a message to submit are where its service centre looks for *)
(* them.                                                                   *)
LEMMA SubmitParts ==
  ASSUME NEW n \in Nat, NEW type \in Nat, NEW b \in Seq(Nat), NEW c \in Seq(Nat),
         NEW d \in Seq(Nat), NEW a, a = <<17, 0, n, type>>
  PROVE  /\ a \o b \o c \o d \in Seq(Nat)
         /\ Submitted(a \o b \o c \o d, n, type, b, c \o d)
         /\ Len(a \o b \o c \o d) = 4 + Len(b) + Len(c) + Len(d)
<1>1. a \in Seq(Nat) /\ Len(a) = 4
  <2>1. <<17, 0, n, type>> \in Seq(Nat)
    OBVIOUS
  <2> QED
    BY <2>1
<1>2. PICK fields \in Seq(Nat) : fields = c \o d
  BY ConcatProperties
<1>3. PICK ab : ab = a \o b
  OBVIOUS
<1>4. ab \in Seq(Nat) /\ Len(ab) = 4 + Len(b)
  BY <1>1, <1>3, PartsShape
<1>5. (ab \o c) \o d = ab \o fields
  <2>1. EitherFirst(ab, c, d)
    BY <1>4, Regroup
  <2> QED
    BY <1>2, <2>1 DEF EitherFirst
<1>6. ab \o fields \in Seq(Nat)
  BY <1>2, <1>4, PartsShape
<1>7. From(ab \o fields, 5 + Len(b)) = fields
  <2>1. 5 + Len(b) = Len(ab) + 1
    BY <1>4
  <2> QED
    BY <1>2, <1>4, <2>1, SecondPart
<1>8. PICK two \in Seq(Nat), more \in Seq(Nat) :
        two = <<17, 0>> /\ Len(two) = 2 /\ more = <<n, type>>
  <2>1. <<17, 0>> \in Seq(Nat) /\ <<n, type>> \in Seq(Nat)
    OBVIOUS
  <2> QED
    BY <2>1
<1>9. a = two \o more
  BY <1>8
<1>10. PICK inner \in Seq(Nat) : inner = more \o b
  BY <1>8, ConcatProperties
<1>11. ab = two \o inner
  <2>1. (two \o more) \o b = two \o (more \o b)
    <3>1. EitherFirst(two, more, b)
      BY <1>8, Regroup
    <3> QED
      BY <3>1 DEF EitherFirst
  <2> QED
    BY <1>3, <1>9, <1>10, <2>1
<1>12. From(ab, 3) = inner
  <2>1. 3 = Len(two) + 1
    BY <1>8
  <2>2. two \in Seq(Nat) /\ inner \in Seq(Nat)
    BY <1>8, <1>10
  <2>3. From(two \o inner, 3) = inner
    BY <2>1, <2>2, SecondPart
  <2> QED
    BY <1>11, <2>3
<1>13. SubSeq(ab, 3, 4 + Len(b)) = inner
  BY <1>4, <1>12 DEF From
<1>14. SubSeq(ab \o fields, 3, 4 + Len(b)) = SubSeq(ab, 3, 4 + Len(b))
  <2>1. PICK l \in Nat : l = Len(b)
    OBVIOUS
  <2>2. 3 \in 1 .. 4 + l /\ 4 + l \in 1 .. 4 + l
    OBVIOUS
  <2>3. 3 \in 1 .. Len(ab) /\ 4 + Len(b) \in 1 .. Len(ab)
    BY <1>4, <2>1, <2>2
  <2> QED
    BY <1>2, <1>4, <2>3, SliceOfFirst, SMTT(60)
<1>15. inner = <<n, type>> \o b
  BY <1>8, <1>10
<1>16. a \o b \o c \o d = ab \o fields
  BY <1>3, <1>5
<1>17. Len(ab \o fields) = 4 + Len(b) + Len(c) + Len(d)
  <2>1. Len(fields) = Len(c) + Len(d) /\ Len(ab \o fields) = Len(ab) + Len(fields)
    BY <1>2, <1>4, PartsShape
  <2> QED
    BY <1>4, <2>1
<1>18. Submitted(ab \o fields, n, type, b, fields)
  BY <1>7, <1>13, <1>14, <1>15 DEF Submitted
<1> QED
  BY <1>2, <1>6, <1>16, <1>17, <1>18

(* The four fields, and the octets of the user data behind them.           *)
LEMMA SubmitFields ==
  ASSUME NEW coding \in Nat, NEW length \in Nat, NEW data \in Seq(Nat),
         NEW c, c = <<0, coding, validity, length>>
  PROVE  /\ c \in Seq(Nat)
         /\ (c \o data)[2] = coding /\ (c \o data)[4] = length /\ From(c \o data, 5) = data
<1>1. validity \in Nat
  BY DEF validity
<1>2. c \in Seq(Nat) /\ Len(c) = 4 /\ c[2] = coding /\ c[4] = length
  <2>1. <<0, coding, validity, length>> \in Seq(Nat)
    BY <1>1
  <2> QED
    BY <2>1
<1>3. 2 \in 1 .. Len(c) /\ 4 \in 1 .. Len(c) /\ 5 = Len(c) + 1
  BY <1>2
<1>4. From(c \o data, 5) = data
  BY <1>2, <1>3, SecondPart
<1>5. (c \o data)[2] = c[2] /\ (c \o data)[4] = c[4]
  BY <1>2, <1>3, PartsShape
<1> QED
  BY <1>2, <1>4, <1>5

(* The coding names the alphabet.                                          *)
LEMMA CodingNames ==
  ASSUME NEW alphabet \in {-1, 1, 2}
  PROVE  /\ Coding(alphabet) \in Nat
         /\ AlphabetOf(Coding(alphabet)) = IF alphabet = -1 THEN 0 ELSE alphabet
<1>1. CASE alphabet = -1
  BY <1>1 DEF Coding, AlphabetOf
<1>2. CASE alphabet = 1
  BY <1>2 DEF Coding, AlphabetOf
<1>3. CASE alphabet = 2
  BY <1>3 DEF Coding, AlphabetOf
<1> QED
  BY <1>1, <1>2, <1>3

(* What SubmitRead asks of a message that fits.                            *)
SubmitReads(i) ==
  LET out    == generate(i)
      tpdu   == From(out.pdu, out.pdu[1] + 2)
      fields == From(tpdu, 5 + (Len(i.number) + 1) \div 2)
      packed == i.alphabet = -1
  IN  /\ SubSeq(out.pdu, 1, out.pdu[1] + 1) = CentreOctets(i.smsc)
      /\ out.length = Len(tpdu)
      /\ SubSeq(tpdu, 3, 4 + (Len(i.number) + 1) \div 2)
           = <<Len(i.number), IF i.national THEN 129 ELSE 145>> \o Spelled(i.number)
      /\ AlphabetOf(fields[2]) = IF packed THEN 0 ELSE i.alphabet
      /\ ParseUserData(packed, [length |-> fields[4], octets |-> From(fields, 5)], FALSE)
           = [ok |-> TRUE, udh |-> <<>>, message |-> i.message]

(* And of any message, by the octets it takes.                             *)
SubmitBounded(i) ==
  IF pdu_room < 2 * SubmitOctets(i) + 1 THEN generate(i) = Undefined ELSE SubmitReads(i)

(* Every message to submit of the run.                                     *)
LEMMA SubmitKept ==
  ASSUME NEW i, IsSubmit(i)
  PROVE  SubmitBounded(i)
<1>1. PICK number \in Seq(Digit), national \in BOOLEAN, smsc \in Centres,
           alphabet \in {-1, 1, 2}, text \in Texts :
        i = [sort |-> "submit", number |-> number, national |-> national, smsc |-> smsc,
             alphabet |-> alphabet, message |-> text]
  BY DEF IsSubmit
<1>2. /\ i.number = number /\ i.national = national /\ i.smsc = smsc
      /\ i.alphabet = alphabet /\ i.message = text
  BY <1>1
<1>3. PICK packed \in BOOLEAN : packed = (alphabet = -1)
  OBVIOUS
<1>4. (alphabet \notin {1, 2}) = packed
  BY <1>3
<1>5. PICK length \in Nat, data \in Seq(Nat) : DataRead(packed, text, length, data)
  BY SubmitData
<1>6. PICK n \in Nat, type \in Nat : n = Len(number) /\ type = (IF national THEN 129 ELSE 145)
  OBVIOUS
<1>7. PICK b \in Seq(Nat) : b = Spelled(number) /\ b = Octets(number) /\ Len(b) = (n + 1) \div 2
  BY <1>6, SpelledShape, SpelledIsOctets DEF AddressOctets
<1>8. PICK coding \in Nat : coding = Coding(alphabet)
  BY CodingNames
<1>9. PICK a, c : a = <<17, 0, n, type>> /\ c = <<0, coding, validity, length>>
  OBVIOUS
<1>10. c \in Seq(Nat)
  BY <1>9, SubmitFields
<1>11. PICK tpdu \in Seq(Nat) : tpdu = a \o b \o c \o data
  BY <1>9, <1>10, SubmitParts
<1>12. Submitted(tpdu, n, type, b, c \o data)
  BY <1>9, <1>10, <1>11, SubmitParts
<1>13. PICK pdu : pdu = SmscField(smsc) \o tpdu
  OBVIOUS
<1>14. Centred(pdu, CentreOctets(smsc), tpdu)
  BY <1>13, CentreCounts
<1>15. generate(i) = IF FitsPdu(pdu) THEN [pdu |-> pdu, length |-> Len(tpdu)] ELSE Undefined
  <2>1. PICK written : written = Generate(packed, text, <<>>)
    OBVIOUS
  <2>2. written.length = length /\ written.octets = data
    BY <1>5, <2>1 DEF DataRead
  <2>3. Generate(i.alphabet \notin {1, 2}, i.message, <<>>) = written
    BY <1>2, <1>4, <2>1
  <2>4. <<17, 0, Len(i.number), IF i.national THEN 129 ELSE 145>> = a
    BY <1>2, <1>6, <1>9
  <2>5. <<0, Coding(i.alphabet), validity, written.length>> = c
    BY <1>2, <1>8, <1>9, <2>2
  <2>6. Octets(i.number) = b /\ SmscField(i.smsc) = SmscField(smsc)
    BY <1>2, <1>7
  <2> QED
    BY <1>11, <1>13, <2>2, <2>3, <2>4, <2>5, <2>6, ZenonT(60) DEF generate
<1>16. FitsPdu(pdu) => generate(i).pdu = pdu /\ generate(i).length = Len(tpdu)
  BY <1>15
<1>17. PICK fields : fields = c \o data
  OBVIOUS
<1>18. fields[2] = coding /\ fields[4] = length /\ From(fields, 5) = data
  BY <1>9, <1>17, SubmitFields, SMTT(60)
<1>19. /\ SubSeq(pdu, 1, pdu[1] + 1) = CentreOctets(smsc)
       /\ From(pdu, pdu[1] + 2) = tpdu
  BY <1>14 DEF Centred
<1>20. /\ SubSeq(tpdu, 3, 4 + (n + 1) \div 2) = <<n, type>> \o b
       /\ From(tpdu, 5 + (n + 1) \div 2) = fields
  BY <1>7, <1>12, <1>17 DEF Submitted
<1>21. AlphabetOf(coding) = IF packed THEN 0 ELSE alphabet
  BY <1>3, <1>8, CodingNames
<1>22. ParseUserData(packed, [length |-> length, octets |-> data], FALSE)
         = [ok |-> TRUE, udh |-> <<>>, message |-> text]
  BY <1>5 DEF DataRead
<1>23. FitsPdu(pdu) => SubmitReads(i)
  BY <1>2, <1>3, <1>6, <1>7, <1>16, <1>18, <1>19, <1>20, <1>21, <1>22 DEF SubmitReads
<1>24. Len(pdu) = SubmitOctets(i) /\ SubmitOctets(i) \in Nat
  <2>1. PICK centre \in Seq(Nat) : centre = CentreOctets(smsc)
    BY CentresFit, CentreType DEF CentreFits
  <2>2. pdu = centre \o tpdu
    BY <1>13, <2>1, CentreCounts
  <2>3. Len(pdu) = Len(centre) + Len(tpdu)
    BY <2>2, PartsShape
  <2>4. Len(tpdu) = 4 + Len(b) + Len(c) + Len(data)
    BY <1>9, <1>10, <1>11, SubmitParts
  <2>5. Len(c) = 4
    BY <1>9
  <2>6. Len(data) = TextOctets(packed, text)
    BY <1>5 DEF DataRead
  <2>7. SubmitOctets(i) = Len(centre) + 8 + Len(b) + Len(data)
    BY <1>2, <1>3, <1>7, <2>1, <2>6 DEF SubmitOctets
  <2>8. Len(centre) \in Nat /\ Len(b) \in Nat /\ Len(data) \in Nat
    OBVIOUS
  <2> QED
    BY <2>3, <2>4, <2>5, <2>7, <2>8
<1>25. pdu_room \in Nat
  BY AddressAssumption
<1>26. FitsPdu(pdu) = ~(pdu_room < 2 * SubmitOctets(i) + 1)
  BY <1>24, <1>25 DEF FitsPdu
<1> QED
  BY <1>15, <1>23, <1>26 DEF SubmitBounded

(* None but these are to be submitted.                                     *)
LEMMA SubmitOfRun ==
  ASSUME NEW i, IsItem(i), i.sort = "submit"
  PROVE  IsSubmit(i)
<1>1. ~IsMessageLeft(i) /\ ~IsReportLeft(i)
  BY MessageKept, ReportKept
<1>2. i \notin CregItems
  <2> SUFFICES ASSUME i \in CregItems PROVE FALSE
    OBVIOUS
  <2>1. \E mode, status, cell, space :
          i = [sort |-> "creg", mode |-> mode, status |-> status, cell |-> cell, space |-> space]
    BY DEF CregItems
  <2> QED
    BY <2>1
<1>3. i \notin UssdItems
  <2> SUFFICES ASSUME i \in UssdItems PROVE FALSE
    OBVIOUS
  <2>1. \E text, space : i = [sort |-> "ussd", text |-> text, space |-> space]
    BY DEF UssdItems
  <2> QED
    BY <2>1
<1>4. i \in SubmitItems
  BY <1>1, <1>2, <1>3 DEF IsItem, None
<1>5. PICK number \in UNION {[1 .. k -> Digits] : k \in 1 .. MaxNumber},
           national \in BOOLEAN, smsc \in Centres, alphabet \in {-1, 1, 2}, text \in Texts :
        i = [sort |-> "submit", number |-> number, national |-> national, smsc |-> smsc,
             alphabet |-> alphabet, message |-> text]
  BY <1>4 DEF SubmitItems
<1>6. number \in Seq(Digit)
  <2>1. PICK k \in 1 .. MaxNumber : number \in [1 .. k -> Digits]
    OBVIOUS
  <2>2. k \in Nat
    BY <2>1, FormatsAssumption
  <2>3. Digits \subseteq Digit
    BY DEF Digits, Digit
  <2> QED
    BY <2>1, <2>2, <2>3
<1> QED
  BY <1>5, <1>6 DEF IsSubmit

(* A message to submit is laid out as the service centre reads it          *)
(* (PDU::generate): its address, the length given to AT+CMGS, the number,  *)
(* the alphabet, the text.                                                 *)
THEOREM SubmitReadHolds == FormatsSpec => []SubmitRead
<1>1. FormatsInv => SubmitRead
  BY SubmitOfRun, SubmitKept DEF FormatsInv, SubmitRead, SubmitBounded, SubmitReads
<1> QED
  BY <1>1, ItemsKept, PTL

-----------------------------------------------------------------------------
(* Lines that quote a text: +CUSD and +COPS.                               *)

(* The least of a set of numbers, and the greatest.                        *)
LEMMA LeastIs ==
  ASSUME NEW I, I \subseteq Nat, NEW k \in I, \A j \in I : k <= j
  PROVE  Min(I) = k
<1>1. PICK m : m = CHOOSE x \in I : \A y \in I : x <= y
  OBVIOUS
<1>2. m \in I /\ m <= k /\ k <= m
  BY <1>1
<1>3. m = k
  BY <1>2
<1> QED
  BY <1>1, <1>3 DEF Min

(* The greatest of a set of numbers.                                       *)
LEMMA GreatestIs ==
  ASSUME NEW I, I \subseteq Nat, NEW k \in I, \A j \in I : k >= j
  PROVE  Max(I) = k
<1>1. PICK m : m = CHOOSE x \in I : \A y \in I : x >= y
  OBVIOUS
<1>2. m \in I /\ m >= k /\ k >= m
  BY <1>1
<1>3. m = k
  BY <1>2
<1> QED
  BY <1>1, <1>3 DEF Max

(* The first of the places where a token stands.                           *)
LEMMA FirstFound ==
  ASSUME NEW s, NEW token, NEW k \in 1 .. Len(s), Len(s) \in Nat, s[k] = token,
         \A j \in 1 .. k - 1 : s[j] # token
  PROVE  FirstOf(s, token) = k
<1>1. PICK I : I = {i \in 1 .. Len(s) : s[i] = token}
  OBVIOUS
<1>2. k \in I /\ I \subseteq Nat /\ \A j \in I : k <= j
  BY <1>1
<1>3. Min(I) = k
  BY <1>2, LeastIs
<1> QED
  BY <1>1, <1>2, <1>3 DEF FirstOf, SelectInSeq

(* And the last.                                                           *)
LEMMA LastFound ==
  ASSUME NEW s, NEW token, NEW k \in 1 .. Len(s), Len(s) \in Nat, s[k] = token,
         \A j \in k + 1 .. Len(s) : s[j] # token
  PROVE  LastOf(s, token) = k
<1>1. PICK I : I = {i \in 1 .. Len(s) : s[i] = token}
  OBVIOUS
<1>2. k \in I /\ I \subseteq Nat /\ \A j \in I : k >= j
  BY <1>1
<1>3. Max(I) = k
  BY <1>2, GreatestIs
<1> QED
  BY <1>1, <1>2, <1>3 DEF LastOf, SelectLastInSeq

(* What is behind the spaces of the left.                                  *)
LEMMA LeftTrimmed ==
  ASSUME NEW s, NEW k \in 1 .. Len(s), Len(s) \in Nat, s[k] # Space,
         \A j \in 1 .. k - 1 : s[j] = Space
  PROVE  trimLeft(s) = SubSeq(s, k, Len(s))
<1>1. PICK I : I = {i \in 1 .. Len(s) : s[i] # Space}
  OBVIOUS
<1>2. k \in I /\ I \subseteq Nat /\ \A j \in I : k <= j
  BY <1>1
<1>3. Min(I) = k
  BY <1>2, LeastIs
<1>4. k # 0 /\ I # {}
  BY <1>2
<1> QED
  BY <1>1, <1>3, <1>4 DEF trimLeft, SelectInSeq

(* A line that does not end in a space is only trimmed on the left.        *)
LEMMA BothTrimmed ==
  ASSUME NEW T, NEW s \in Seq(T), Len(s) >= 1, s[Len(s)] # Space
  PROVE  trimSpaces(s) = trimLeft(s)
<1>1. PICK I : I = {i \in 1 .. Len(s) : s[i] # Space}
  OBVIOUS
<1>2. PICK n \in Nat \ {0} : n = Len(s)
  OBVIOUS
<1>3. n \in I /\ I \subseteq Nat /\ \A j \in I : n >= j
  BY <1>1, <1>2
<1>4. Max(I) = n
  BY <1>3, GreatestIs
<1>5. SelectLastInSeq(s, LAMBDA t : t # Space) = n
  BY <1>1, <1>2, <1>3, <1>4 DEF SelectLastInSeq
<1>6. SubSeq(s, 1, n) = s
  BY <1>2
<1> QED
  BY <1>5, <1>6 DEF trimSpaces

(* A slice, and where the elements of it stand.                            *)
LEMMA Slice ==
  ASSUME NEW T, NEW s \in Seq(T), NEW m \in 1 .. Len(s), NEW n \in m .. Len(s)
  PROVE  /\ SubSeq(s, m, n) \in Seq(T) /\ Len(SubSeq(s, m, n)) = n - m + 1
         /\ \A i \in 1 .. n - m + 1 : SubSeq(s, m, n)[i] = s[m + i - 1]
<1>1. m \in Int /\ n \in Int /\ m <= n
  OBVIOUS
<1>2. \A i \in m .. n : s[i] \in T
  <2>1. m .. n \subseteq 1 .. Len(s)
    OBVIOUS
  <2> QED
    BY <2>1, ElementOfSeq
<1> QED
  BY <1>1, <1>2, SubSeqProperties

(* A text in quotes, behind a space or none, up to the comma and what      *)
(* follows: the elements, the spaces on the left counted by sp.            *)
QuotedAt(line, begin, text, sp) ==
  /\ \A j \in begin + 1 .. begin + sp : line[j] = Space
  /\ line[begin + sp + 1] = Quote
  /\ \A j \in 1 .. Len(text) : line[begin + sp + 1 + j] = text[j]
  /\ line[begin + sp + Len(text) + 2] = Quote

CusdIs(line, text, sp) ==
  /\ Len(line) = 7 + 2 * sp + Len(text)
  /\ line[1] = "+CUSD:"
  /\ sp = 1 => line[2] = Space
  /\ line[2 + sp] = "0" /\ line[3 + sp] = ","
  /\ QuotedAt(line, 3 + sp, text, sp)
  /\ line[6 + 2 * sp + Len(text)] = ","
  /\ line[7 + 2 * sp + Len(text)] = "15"

(* What is behind the first item and the space behind it.                  *)
AfterIs(after, text, sp) ==
  /\ Len(after) = 6 + sp + Len(text)
  /\ after[1] = "0" /\ after[2] = ","
  /\ QuotedAt(after, 2, text, sp)
  /\ after[5 + sp + Len(text)] = ","
  /\ after[6 + sp + Len(text)] = "15"

(* The tokens that the proofs tell apart.                                  *)
LEMMA TokensApart ==
  /\ Space # "0" /\ Space # "15" /\ Space # "," /\ Space # Quote
  /\ Quote # "0" /\ Quote # "," /\ Quote # "+COPS:"
  /\ "15" # "," /\ "0" # ","
  /\ "0" \in Numbers /\ "15" \in Numbers
<1>1. /\ "0" \in Numbers /\ "15" \in Numbers
  BY LinesAssumption
<1>2. Space \notin Numbers /\ Quote \notin Numbers /\ Space # "," /\ Quote # ","
      /\ Space # Quote
  BY TokensAssumption
<1>3. Quote # "+COPS:"
  BY LinesAssumption
<1>4. "15" # "," /\ "0" # ","
  OBVIOUS
<1> QED
  BY <1>1, <1>2, <1>3, <1>4

(* What is left of a line of +CUSD behind its first token.                 *)
LEMMA CusdAfter ==
  ASSUME NEW T, NEW line \in Seq(T), NEW text \in Seq(T), NEW sp \in 0 .. 1,
         CusdIs(line, text, sp)
  PROVE  /\ trimSpaces(SubSeq(line, 2, Len(line))) \in Seq(T)
         /\ AfterIs(trimSpaces(SubSeq(line, 2, Len(line))), text, sp)
<1>1. PICK n \in Nat : n = Len(text)
  OBVIOUS
<1>2. PICK len \in Nat : len = Len(line) /\ len = 7 + 2 * sp + n
  <2>1. Len(line) = 7 + 2 * sp + n
    BY <1>1 DEF CusdIs
  <2> QED
    BY <2>1
<1>3. PICK s : s = SubSeq(line, 2, len)
  OBVIOUS
<1>4. s \in Seq(T) /\ Len(s) = len - 1 /\ \A i \in 1 .. len - 1 : s[i] = line[i + 1]
  <2>1. 2 \in 1 .. len /\ len \in 2 .. len /\ len - 2 + 1 = len - 1
    BY <1>2
  <2>2. \A i \in 1 .. len - 1 : 2 + i - 1 = i + 1
    OBVIOUS
  <2>3. 2 \in 1 .. Len(line) /\ len \in 2 .. Len(line)
    BY <1>2, <2>1
  <2>4. s \in Seq(T) /\ Len(s) = len - 2 + 1 /\ \A i \in 1 .. len - 2 + 1 : s[i] = line[2 + i - 1]
    BY <1>3, <2>3, Slice
  <2> QED
    BY <2>1, <2>2, <2>4
<1>5. /\ \A j \in 1 .. sp : s[j] = Space
      /\ s[1 + sp] = "0" /\ s[2 + sp] = "," /\ s[len - 1] = "15"
  <2>1. line[2 + sp] = "0" /\ line[3 + sp] = "," /\ line[len] = "15" /\ (sp = 1 => line[2] = Space)
    BY <1>1, <1>2 DEF CusdIs
  <2>2. 1 + sp \in 1 .. len - 1 /\ 2 + sp \in 1 .. len - 1 /\ len - 1 \in 1 .. len - 1
    BY <1>2
  <2>3. s[1 + sp] = line[1 + sp + 1] /\ s[2 + sp] = line[2 + sp + 1] /\ s[len - 1] = line[len - 1 + 1]
    BY <1>4, <2>2
  <2>4. 1 + sp + 1 = 2 + sp /\ 2 + sp + 1 = 3 + sp /\ len - 1 + 1 = len
    OBVIOUS
  <2>5. sp = 1 => s[1] = line[2]
    BY <1>4, <2>2
  <2>6. \A j \in 1 .. sp : s[j] = Space
    <3>1. CASE sp = 0
      BY <3>1
    <3>2. CASE sp = 1
      <4>1. \A j \in 1 .. 1 : j = 1
        OBVIOUS
      <4>2. s[1] = Space
        BY <2>1, <2>5, <3>2
      <4> QED
        BY <3>2, <4>1, <4>2
    <3> QED
      BY <3>1, <3>2
  <2> QED
    BY <2>1, <2>3, <2>4, <2>6
<1>6. trimSpaces(s) = trimLeft(s)
  <2>1. len - 1 >= 1
    BY <1>2
  <2> QED
    BY <1>4, <1>5, <2>1, BothTrimmed, TokensApart
<1>7. PICK a : a = SubSeq(s, 1 + sp, len - 1)
  OBVIOUS
<1>8. trimLeft(s) = a
  <2>1. 1 + sp \in 1 .. len - 1 /\ len - 1 \in Nat /\ 1 + sp - 1 = sp
    BY <1>2
  <2>2. s[1 + sp] # Space
    BY <1>5, TokensApart
  <2>3. PICK k \in 1 .. len - 1 : k = 1 + sp
    BY <2>1
  <2>4. k \in 1 .. Len(s) /\ Len(s) \in Nat /\ s[k] # Space
    BY <1>4, <2>1, <2>2, <2>3
  <2>5. \A j \in 1 .. k - 1 : s[j] = Space
    <3>1. k - 1 = sp
      BY <2>3
    <3> QED
      BY <1>5, <3>1
  <2>6. trimLeft(s) = SubSeq(s, k, Len(s))
    BY <2>4, <2>5, LeftTrimmed
  <2> QED
    BY <1>4, <1>7, <2>3, <2>6
<1>9. /\ a \in Seq(T) /\ Len(a) = 6 + sp + n
      /\ \A i \in 1 .. 6 + sp + n : a[i] = line[i + 1 + sp]
  <2>1. 1 + sp \in 1 .. len - 1 /\ len - 1 \in 1 + sp .. len - 1 /\ len - 1 - (1 + sp) + 1 = 6 + sp + n
    BY <1>2
  <2>2. /\ a \in Seq(T) /\ Len(a) = 6 + sp + n
        /\ \A i \in 1 .. 6 + sp + n : a[i] = s[1 + sp + i - 1]
    BY <1>4, <1>7, <2>1, Slice
  <2>3. \A i \in 1 .. 6 + sp + n : 1 + sp + i - 1 \in 1 .. len - 1 /\ 1 + sp + i - 1 + 1 = i + 1 + sp
    BY <1>2
  <2> QED
    BY <1>4, <2>2, <2>3
<1>10. AfterIs(a, text, sp)
  <2>1. PICK last \in Nat : last = 6 + sp + n
    BY <1>1
  <2>2. /\ a[1] = line[2 + sp] /\ a[2] = line[3 + sp]
        /\ a[5 + sp + n] = line[6 + 2 * sp + n] /\ a[6 + sp + n] = line[7 + 2 * sp + n]
        /\ a[2 + sp + 1] = line[3 + sp + sp + 1]
        /\ a[2 + sp + n + 2] = line[3 + sp + sp + n + 2]
    <3>1. /\ 1 \in 1 .. 6 + sp + n /\ 2 \in 1 .. 6 + sp + n /\ 5 + sp + n \in 1 .. 6 + sp + n
          /\ 6 + sp + n \in 1 .. 6 + sp + n /\ 2 + sp + 1 \in 1 .. 6 + sp + n
          /\ 2 + sp + n + 2 \in 1 .. 6 + sp + n
      BY <1>1
    <3>2. /\ 1 + 1 + sp = 2 + sp /\ 2 + 1 + sp = 3 + sp /\ 5 + sp + n + 1 + sp = 6 + 2 * sp + n
          /\ 6 + sp + n + 1 + sp = 7 + 2 * sp + n /\ 2 + sp + 1 + 1 + sp = 3 + sp + sp + 1
          /\ 2 + sp + n + 2 + 1 + sp = 3 + sp + sp + n + 2
      BY <1>1
    <3>3. a[1] = line[1 + 1 + sp] /\ a[2] = line[2 + 1 + sp]
      BY <1>9, <3>1
    <3>4. a[5 + sp + n] = line[5 + sp + n + 1 + sp] /\ a[6 + sp + n] = line[6 + sp + n + 1 + sp]
      BY <1>9, <3>1
    <3>5. a[2 + sp + 1] = line[2 + sp + 1 + 1 + sp]
      BY <1>9, <3>1
    <3>6. a[2 + sp + n + 2] = line[2 + sp + n + 2 + 1 + sp]
      BY <1>9, <3>1
    <3> QED
      BY <3>2, <3>3, <3>4, <3>5, <3>6
  <2>3. ASSUME NEW j \in 1 .. n PROVE a[2 + sp + 1 + j] = line[3 + sp + sp + 1 + j]
    <3>1. 2 + sp + 1 + j \in 1 .. 6 + sp + n /\ 2 + sp + 1 + j + 1 + sp = 3 + sp + sp + 1 + j
      BY <1>1
    <3> QED
      BY <1>9, <3>1, SMTT(60)
  <2>4. ASSUME NEW j \in 3 .. 2 + sp PROVE a[j] = line[j + 1 + sp] /\ j + 1 + sp \in 3 + sp + 1 .. 3 + sp + sp
    <3>1. j \in 1 .. 6 + sp + n /\ j + 1 + sp \in 3 + sp + 1 .. 3 + sp + sp
      BY <1>1
    <3> QED
      BY <1>9, <3>1
  <2>5. QuotedAt(a, 2, text, sp)
    <3>1. /\ \A j \in 3 + sp + 1 .. 3 + sp + sp : line[j] = Space
          /\ line[3 + sp + sp + 1] = Quote
          /\ \A j \in 1 .. n : line[3 + sp + sp + 1 + j] = text[j]
          /\ line[3 + sp + sp + n + 2] = Quote
      BY <1>1 DEF CusdIs, QuotedAt
    <3>2. \A j \in 3 .. 2 + sp : a[j] = Space
      BY <2>4, <3>1
    <3>3. \A j \in 1 .. n : a[2 + sp + 1 + j] = text[j]
      BY <2>3, <3>1
    <3>4. 2 + 1 = 3
      OBVIOUS
    <3> QED
      BY <1>1, <2>2, <3>1, <3>2, <3>3, <3>4 DEF QuotedAt
  <2>6. /\ line[2 + sp] = "0" /\ line[3 + sp] = ","
        /\ line[6 + 2 * sp + n] = "," /\ line[7 + 2 * sp + n] = "15"
    BY <1>1 DEF CusdIs
  <2> QED
    BY <1>1, <1>9, <2>2, <2>5, <2>6 DEF AfterIs
<1> QED
  BY <1>2, <1>3, <1>6, <1>8, <1>9, <1>10

(* A text in quotes is taken out of them, whatever stands in it.           *)
LEMMA TextUnquoted ==
  ASSUME NEW T, NEW s \in Seq(T), NEW text \in Seq(T), NEW sp \in 0 .. 1,
         Len(s) = sp + Len(text) + 2, QuotedAt(s, 0, text, sp)
  PROVE  Unquoted(trimLeft(s)) = text
<1>1. PICK n \in Nat : n = Len(text)
  OBVIOUS
<1>2. PICK len \in Nat : len = Len(s) /\ len = sp + n + 2
  BY <1>1
<1>3. /\ \A j \in 1 .. sp : s[j] = Space
      /\ s[sp + 1] = Quote /\ s[sp + n + 2] = Quote
      /\ \A j \in 1 .. n : s[sp + 1 + j] = text[j]
  <2>1. /\ \A j \in 0 + 1 .. 0 + sp : s[j] = Space
        /\ s[0 + sp + 1] = Quote /\ s[0 + sp + n + 2] = Quote
        /\ \A j \in 1 .. n : s[0 + sp + 1 + j] = text[j]
    BY <1>1 DEF QuotedAt
  <2>2. /\ 0 + 1 = 1 /\ 0 + sp = sp /\ 0 + sp + 1 = sp + 1 /\ 0 + sp + n + 2 = sp + n + 2
        /\ \A j \in 1 .. n : 0 + sp + 1 + j = sp + 1 + j
    BY <1>1
  <2> QED
    BY <2>1, <2>2
<1>4. PICK t : t = SubSeq(s, sp + 1, len)
  OBVIOUS
<1>5. trimLeft(s) = t
  <2>1. PICK k \in 1 .. len : k = sp + 1 /\ k - 1 = sp
    BY <1>2
  <2>2. k \in 1 .. Len(s) /\ Len(s) \in Nat /\ s[k] # Space /\ \A j \in 1 .. k - 1 : s[j] = Space
    BY <1>2, <1>3, <2>1, TokensApart
  <2>3. trimLeft(s) = SubSeq(s, k, Len(s))
    BY <2>2, LeftTrimmed
  <2> QED
    BY <1>2, <1>4, <2>1, <2>3
<1>6. t \in Seq(T) /\ Len(t) = n + 2 /\ \A i \in 1 .. n + 2 : t[i] = s[sp + i]
  <2>1. sp + 1 \in 1 .. Len(s) /\ len \in sp + 1 .. Len(s) /\ len - (sp + 1) + 1 = n + 2
    BY <1>2
  <2>2. t \in Seq(T) /\ Len(t) = n + 2 /\ \A i \in 1 .. n + 2 : t[i] = s[sp + 1 + i - 1]
    BY <1>4, <2>1, Slice, SMTT(60)
  <2>3. \A i \in 1 .. n + 2 : sp + 1 + i - 1 = sp + i
    BY <1>1
  <2> QED
    BY <2>2, <2>3
<1>7. t[1] = Quote /\ t[n + 2] = Quote
  <2>1. 1 \in 1 .. n + 2 /\ n + 2 \in 1 .. n + 2 /\ sp + (n + 2) = sp + n + 2
    BY <1>1
  <2> QED
    BY <1>3, <1>6, <2>1
<1>8. Unquoted(t) = SubSeq(t, 2, n + 1)
  <2>1. t # <<>> /\ Len(t) - 1 = n + 1 /\ t[Len(t)] = Quote
    BY <1>1, <1>6, <1>7, EmptySeq
  <2> QED
    BY <1>7, <2>1 DEF Unquoted
<1>9. SubSeq(t, 2, n + 1) = text
  <2>1. CASE n = 0
    <3>1. SubSeq(t, 2, n + 1) = <<>>
      BY <2>1, SubSeqEmpty
    <3> QED
      BY <1>1, <2>1, <3>1, EmptySeq
  <2>2. CASE n >= 1
    <3>1. PICK u : u = SubSeq(t, 2, n + 1)
      OBVIOUS
    <3>2. 2 \in 1 .. Len(t) /\ n + 1 \in 2 .. Len(t) /\ n + 1 - 2 + 1 = n
      BY <1>1, <1>6, <2>2
    <3>3. u \in Seq(T) /\ Len(u) = n /\ \A i \in 1 .. n : u[i] = t[2 + i - 1]
      BY <1>6, <3>1, <3>2, Slice
    <3>4. ASSUME NEW i \in 1 .. n PROVE u[i] = text[i]
      <4>1. 2 + i - 1 \in 1 .. n + 2 /\ sp + (2 + i - 1) = sp + 1 + i
        BY <1>1
      <4> QED
        BY <1>3, <1>6, <3>3, <4>1
    <3>5. u = text
      BY <1>1, <3>3, <3>4, SeqEqual
    <3> QED
      BY <3>1, <3>5
  <2> QED
    BY <1>1, <2>1, <2>2
<1> QED
  BY <1>5, <1>8, <1>9

(* The text is read out of what is left, quotes in it included.            *)
LEMMA CusdRead ==
  ASSUME NEW T, NEW after \in Seq(T), NEW text \in Seq(T), NEW sp \in 0 .. 1,
         NEW line, after = trimSpaces(SubSeq(line, 2, Len(line))), AfterIs(after, text, sp)
  PROVE  at_parse_cusd(line) = [ok |-> TRUE, text |-> text, dcs |-> "15"]
<1>1. PICK n \in Nat : n = Len(text)
  OBVIOUS
<1>2. PICK len \in Nat : len = Len(after) /\ len = 6 + sp + n
  <2>1. Len(after) = 6 + sp + n
    BY <1>1 DEF AfterIs
  <2> QED
    BY <2>1
<1>3. /\ after[1] = "0" /\ after[2] = "," /\ after[len - 1] = "," /\ after[len] = "15"
      /\ QuotedAt(after, 2, text, sp)
  <2>1. 5 + sp + n = len - 1
    BY <1>2
  <2> QED
    BY <1>1, <1>2, <2>1 DEF AfterIs
<1>4. FirstOf(after, ",") = 2
  <2>1. 2 \in 1 .. Len(after) /\ Len(after) \in Nat
    BY <1>2
  <2>2. \A j \in 1 .. 2 - 1 : after[j] # ","
    <3>1. \A j \in 1 .. 2 - 1 : j = 1
      OBVIOUS
    <3>2. after[1] # ","
      BY <1>3, TokensApart
    <3> QED
      BY <3>1, <3>2
  <2> QED
    BY <1>3, <2>1, <2>2, FirstFound
<1>5. TextEnd(after) = len - 1
  <2>1. PICK k \in 1 .. len : k = len - 1
    <3>1. len - 1 \in 1 .. len
      BY <1>1, <1>2
    <3> QED
      BY <3>1
  <2>2. \A j \in k + 1 .. len : j = len
    BY <2>1
  <2>3. \A j \in k + 1 .. Len(after) : after[j] # ","
    BY <1>2, <1>3, <2>2, TokensApart
  <2>4. k \in 1 .. Len(after) /\ Len(after) \in Nat /\ after[k] = ","
    BY <1>2, <1>3, <2>1
  <2>5. LastOf(after, ",") = k
    BY <2>3, <2>4, LastFound
  <2> QED
    BY <2>1, <2>5 DEF TextEnd
<1>6. ASSUME NEW k \in 1 .. len, after[k] # Space
      PROVE  /\ Len(trimSpaces(SubSeq(after, k, k))) = 1
             /\ trimSpaces(SubSeq(after, k, k))[1] = after[k]
  <2>1. PICK one : one = SubSeq(after, k, k)
    OBVIOUS
  <2>2. k \in 1 .. Len(after) /\ k \in k .. Len(after) /\ k - k + 1 = 1
    BY <1>2
  <2>3. one \in Seq(T) /\ Len(one) = 1 /\ one[1] = after[k]
    <3>1. one \in Seq(T) /\ Len(one) = 1 /\ \A i \in 1 .. 1 : one[i] = after[k + i - 1]
      BY <2>1, <2>2, Slice
    <3>2. k + 1 - 1 = k
      OBVIOUS
    <3> QED
      BY <3>1, <3>2
  <2>4. Len(one) >= 1 /\ one[Len(one)] # Space /\ one[1] # Space
    BY <1>6, <2>3
  <2>5. trimSpaces(one) = trimLeft(one)
    BY <2>3, <2>4, BothTrimmed
  <2>6. trimLeft(one) = SubSeq(one, 1, Len(one))
    <3>1. PICK k1 \in 1 .. Len(one) : k1 = 1
      BY <2>4, <2>3
    <3>2. \A j \in 1 .. k1 - 1 : one[j] = Space
      <4>1. 1 .. k1 - 1 = {}
        BY <3>1
      <4> QED
        BY <4>1
    <3>3. one[k1] # Space /\ Len(one) \in Nat
      BY <2>3, <2>4, <3>1
    <3>4. trimLeft(one) = SubSeq(one, k1, Len(one))
      BY <3>2, <3>3, LeftTrimmed
    <3> QED
      BY <3>1, <3>4
  <2>7. SubSeq(one, 1, Len(one)) = one
    BY <2>3
  <2> QED
    BY <2>1, <2>3, <2>5, <2>6, <2>7
<1>7. PICK mode, dcs, words :
        /\ mode = trimSpaces(SubSeq(after, 1, 1))
        /\ dcs = trimSpaces(SubSeq(after, len, len))
        /\ words = SubSeq(after, 3, len - 2)
  OBVIOUS
<1>8. Len(mode) = 1 /\ mode[1] = "0" /\ Len(dcs) = 1 /\ dcs[1] = "15"
  <2>1. 1 \in 1 .. len /\ len \in 1 .. len
    BY <1>2
  <2> QED
    BY <1>3, <1>6, <1>7, <2>1, TokensApart
<1>9. Unquoted(trimLeft(words)) = text
  <2>1. 3 \in 1 .. Len(after) /\ len - 2 \in 3 .. Len(after) /\ len - 2 - 3 + 1 = sp + n + 2
    BY <1>2
  <2>2. /\ words \in Seq(T) /\ Len(words) = sp + n + 2
        /\ \A i \in 1 .. sp + n + 2 : words[i] = after[3 + i - 1]
    BY <1>7, <2>1, Slice
  <2>3. \A i \in 1 .. sp + n + 2 : words[i] = after[2 + i]
    <3>1. \A i \in 1 .. sp + n + 2 : 3 + i - 1 = 2 + i
      BY <1>1
    <3> QED
      BY <2>2, <3>1
  <2>4. QuotedAt(words, 0, text, sp)
    <3>1. /\ \A j \in 3 .. 2 + sp : after[j] = Space
          /\ after[2 + sp + 1] = Quote
          /\ \A j \in 1 .. n : after[2 + sp + 1 + j] = text[j]
          /\ after[2 + sp + n + 2] = Quote
      <4>1. 2 + 1 = 3
        OBVIOUS
      <4> QED
        BY <1>1, <1>3, <4>1 DEF QuotedAt
    <3>2. ASSUME NEW j \in 0 + 1 .. 0 + sp PROVE words[j] = Space
      <4>1. j \in 1 .. sp + n + 2 /\ 2 + j \in 3 .. 2 + sp
        BY <1>1
      <4> QED
        BY <2>3, <3>1, <4>1
    <3>3. ASSUME NEW j \in 1 .. n PROVE words[0 + sp + 1 + j] = text[j]
      <4>1. 0 + sp + 1 + j \in 1 .. sp + n + 2 /\ 2 + (0 + sp + 1 + j) = 2 + sp + 1 + j
        BY <1>1
      <4> QED
        BY <2>3, <3>1, <4>1
    <3>4. words[0 + sp + 1] = Quote /\ words[0 + sp + n + 2] = Quote
      <4>1. /\ 0 + sp + 1 \in 1 .. sp + n + 2 /\ 2 + (0 + sp + 1) = 2 + sp + 1
            /\ 0 + sp + n + 2 \in 1 .. sp + n + 2 /\ 2 + (0 + sp + n + 2) = 2 + sp + n + 2
        BY <1>1
      <4> QED
        BY <2>3, <3>1, <4>1
    <3> QED
      BY <1>1, <3>2, <3>3, <3>4 DEF QuotedAt
  <2> QED
    BY <1>1, <2>2, <2>4, TextUnquoted
<1>10. 2 < len - 1 /\ 2 - 1 = 1 /\ 2 + 1 = 3 /\ len - 1 + 1 = len /\ len - 1 - 1 = len - 2
  BY <1>2
<1> QED
  BY <1>2, <1>4, <1>5, <1>7, <1>8, <1>9, <1>10, TokensApart DEF at_parse_cusd

(* Three parts of a line, and where their elements stand.                  *)
InThree(line, p, t, e) == line = (p \o t) \o e

(* The elements of three parts of a line.                                  *)
LEMMA LineParts ==
  ASSUME NEW T, NEW p \in Seq(T), NEW t \in Seq(T), NEW e \in Seq(T),
         NEW line, InThree(line, p, t, e)
  PROVE  /\ line \in Seq(T) /\ Len(line) = Len(p) + Len(t) + Len(e)
         /\ \A i \in 1 .. Len(p) : line[i] = p[i]
         /\ \A i \in 1 .. Len(t) : line[Len(p) + i] = t[i]
         /\ \A i \in 1 .. Len(e) : line[Len(p) + Len(t) + i] = e[i]
<1>1. PICK m \in Nat, n \in Nat, k \in Nat : m = Len(p) /\ n = Len(t) /\ k = Len(e)
  OBVIOUS
<1>2. PICK pt : pt = p \o t
  OBVIOUS
<1>3. /\ pt \in Seq(T) /\ Len(pt) = m + n
      /\ \A i \in 1 .. m + n : pt[i] = IF i <= m THEN p[i] ELSE t[i - m]
  BY <1>1, <1>2, ConcatProperties
<1>4. /\ line \in Seq(T) /\ Len(line) = m + n + k
      /\ \A i \in 1 .. m + n + k : line[i] = IF i <= m + n THEN pt[i] ELSE e[i - (m + n)]
  <2>1. line = pt \o e
    BY <1>2 DEF InThree
  <2> QED
    BY <1>1, <1>3, <2>1, ConcatProperties
<1>5. ASSUME NEW i \in 1 .. m PROVE line[i] = p[i]
  <2>1. i \in 1 .. m + n /\ i \in 1 .. m + n + k /\ i <= m /\ i <= m + n
    BY <1>1
  <2> QED
    BY <1>3, <1>4, <2>1
<1>6. ASSUME NEW i \in 1 .. n PROVE line[m + i] = t[i]
  <2>1. m + i \in 1 .. m + n /\ m + i \in 1 .. m + n + k /\ ~(m + i <= m) /\ m + i <= m + n
        /\ m + i - m = i
    BY <1>1
  <2> QED
    BY <1>3, <1>4, <2>1
<1>7. ASSUME NEW i \in 1 .. k PROVE line[m + n + i] = e[i]
  <2>1. m + n + i \in 1 .. m + n + k /\ ~(m + n + i <= m + n) /\ m + n + i - (m + n) = i
    BY <1>1
  <2> QED
    BY <1>4, <2>1
<1> QED
  BY <1>1, <1>4, <1>5, <1>6, <1>7

(* Where its quotes stand.                                                 *)
OpensAt(p, open, quote) ==
  open = Len(p) /\ p[open] = quote /\ \A j \in 1 .. open - 1 : p[j] # quote
ClosesIn(text, e) ==
  (\A j \in 1 .. Len(text) : text[j] # Quote) /\ Len(e) = 3 /\ e[1] = Quote

(* The name of an operator ends where the second quote stands.             *)
LEMMA CopsRead ==
  ASSUME NEW T, NEW p \in Seq(T), NEW text \in Seq(T), NEW e \in Seq(T),
         NEW line, InThree(line, p, text, e), NEW open \in Nat \ {0}, OpensAt(p, open, Quote),
         ClosesIn(text, e)
  PROVE  at_parse_cops(line) = [ok |-> TRUE, name |-> text]
<1>1. PICK n \in Nat : n = Len(text)
  OBVIOUS
<1>2. PICK len \in Nat : len = Len(line) /\ len = open + n + 3
  <2>1. Len(line) = Len(p) + Len(text) + Len(e)
    BY LineParts
  <2>2. open = Len(p) /\ Len(e) = 3
    BY DEF OpensAt, ClosesIn
  <2> QED
    BY <1>1, <2>1, <2>2
<1>3. /\ line \in Seq(T)
      /\ \A i \in 1 .. open : line[i] = p[i]
      /\ \A i \in 1 .. n : line[open + i] = text[i]
      /\ \A i \in 1 .. 3 : line[open + n + i] = e[i]
  <2>1. /\ line \in Seq(T)
        /\ \A i \in 1 .. Len(p) : line[i] = p[i]
        /\ \A i \in 1 .. Len(text) : line[Len(p) + i] = text[i]
        /\ \A i \in 1 .. Len(e) : line[Len(p) + Len(text) + i] = e[i]
    BY LineParts
  <2>2. open = Len(p) /\ Len(e) = 3
    BY DEF OpensAt, ClosesIn
  <2> QED
    BY <1>1, <2>1, <2>2
<1>4. FirstOf(line, Quote) = open
  <2>1. open \in 1 .. len /\ open \in 1 .. open
    BY <1>1, <1>2
  <2>2. \A j \in 1 .. open - 1 : line[j] # Quote
    <3>1. \A j \in 1 .. open - 1 : j \in 1 .. open
      OBVIOUS
    <3> QED
      BY <1>3, <3>1 DEF OpensAt
  <2>3. line[open] = Quote
    BY <1>3, <2>1 DEF OpensAt
  <2>4. open \in 1 .. Len(line) /\ Len(line) \in Nat
    BY <1>2, <2>1
  <2> QED
    BY <2>2, <2>3, <2>4, FirstFound
<1>5. PICK begin \in Nat \ {0} : begin = open + 1
  OBVIOUS
<1>6. PICK after : after = SubSeq(line, begin, Len(line))
  OBVIOUS
<1>7. /\ after \in Seq(T) /\ Len(after) = n + 3
      /\ \A i \in 1 .. n + 3 : after[i] = line[open + i]
  <2>1. begin \in 1 .. len /\ len \in begin .. len /\ len - begin + 1 = n + 3
    BY <1>1, <1>2, <1>5
  <2>2. begin \in 1 .. Len(line) /\ len \in begin .. Len(line)
    BY <1>2, <2>1
  <2>3. SubSeq(line, begin, len) = after
    BY <1>2, <1>6
  <2>4. /\ after \in Seq(T) /\ Len(after) = n + 3
        /\ \A i \in 1 .. n + 3 : after[i] = line[begin + i - 1]
    <3>1. line \in Seq(T)
      BY <1>3
    <3>2. /\ after \in Seq(T) /\ Len(after) = len - begin + 1
          /\ \A i \in 1 .. len - begin + 1 : after[i] = line[begin + i - 1]
      BY <2>2, <2>3, <3>1, Slice
    <3> QED
      BY <2>1, <3>2
  <2>5. \A i \in 1 .. n + 3 : begin + i - 1 = open + i
    BY <1>1, <1>5
  <2> QED
    BY <2>4, <2>5
<1>8. \A i \in 1 .. n : after[i] = text[i] /\ text[i] # Quote
  <2>1. \A i \in 1 .. n : i \in 1 .. n + 3
    BY <1>1
  <2>2. \A i \in 1 .. n : text[i] # Quote
    BY <1>1 DEF ClosesIn
  <2> QED
    BY <1>3, <1>7, <2>1, <2>2
<1>9. PICK close \in Nat \ {0} : close = n + 1 /\ close - 1 = n
  <2>1. n + 1 \in Nat \ {0} /\ n + 1 - 1 = n
    BY <1>1
  <2> QED
    BY <2>1
<1>10. after[close] = Quote
  <2>1. close \in 1 .. n + 3 /\ 1 \in 1 .. 3 /\ open + close = open + n + 1
    BY <1>1, <1>9
  <2>2. e[1] = Quote
    BY DEF ClosesIn
  <2>3. after[close] = line[open + close]
    BY <1>7, <2>1
  <2>4. line[open + n + 1] = e[1]
    BY <1>3, <2>1
  <2> QED
    BY <2>1, <2>2, <2>3, <2>4
<1>11. FirstOf(after, Quote) = close
  <2>1. close \in 1 .. n + 3 /\ n + 3 \in Nat
    BY <1>1, <1>9
  <2>2. close \in 1 .. Len(after) /\ Len(after) \in Nat
    BY <1>7, <2>1
  <2>3. \A j \in 1 .. close - 1 : after[j] # Quote
    BY <1>1, <1>8, <1>9
  <2> QED
    BY <1>10, <2>2, <2>3, FirstFound
<1>12. SubSeq(after, 1, n) = text
  <2>1. CASE n = 0
    <3>1. SubSeq(after, 1, n) = <<>>
      BY <2>1, SubSeqEmpty
    <3> QED
      BY <1>1, <2>1, <3>1, EmptySeq
  <2>2. CASE n >= 1
    <3>1. PICK u : u = SubSeq(after, 1, n)
      OBVIOUS
    <3>2. 1 \in 1 .. n + 3 /\ n \in 1 .. n + 3 /\ n - 1 + 1 = n
      BY <1>1, <2>2
    <3>3. 1 \in 1 .. Len(after) /\ n \in 1 .. Len(after)
      BY <1>7, <3>2
    <3>4. u \in Seq(T) /\ Len(u) = n /\ \A i \in 1 .. n : u[i] = after[1 + i - 1]
      BY <1>7, <3>1, <3>2, <3>3, Slice
    <3>5. \A i \in 1 .. n : 1 + i - 1 = i
      BY <1>1
    <3>6. \A i \in 1 .. n : u[i] = text[i]
      BY <1>8, <3>4, <3>5
    <3>7. u = text
      BY <1>1, <3>4, <3>6, SeqEqual
    <3> QED
      BY <3>1, <3>7
  <2> QED
    BY <1>1, <2>1, <2>2
<1>13. open # 0 /\ close # 0
  OBVIOUS
<1>14. SubSeq(after, 1, close - 1) = text
  BY <1>9, <1>12
<1>15. after = SubSeq(line, FirstOf(line, Quote) + 1, Len(line))
  BY <1>4, <1>5, <1>6
<1> QED
  BY <1>4, <1>11, <1>13, <1>14, <1>15 DEF at_parse_cops
-----------------------------------------------------------------------------
(* The lines of the run.                                                   *)

Token == {"+CUSD:", "+COPS:", "0", "2", ",", "x", "15", Space, Quote}

(* Its tokens are these.                                                   *)
LEMMA TokenMembers ==
  /\ "+CUSD:" \in Token /\ "+COPS:" \in Token /\ "0" \in Token /\ "2" \in Token
  /\ "," \in Token /\ "x" \in Token /\ "15" \in Token /\ Space \in Token /\ Quote \in Token
BY DEF Token

(* One element more.                                                       *)
Longer(t, s, x) ==
  /\ t = Append(s, x) /\ s \o <<x>> = t
  /\ Len(t) = Len(s) + 1 /\ t[Len(s) + 1] = x /\ \A i \in 1 .. Len(s) : t[i] = s[i]

(* A sequence may always be made longer by one.                            *)
LEMMA OneMore ==
  ASSUME NEW T, NEW s \in Seq(T), NEW x \in T
  PROVE  \E t \in Seq(T) : Longer(t, s, x)
<1>1. PICK t : t = Append(s, x)
  OBVIOUS
<1>2. s \o <<x>> = Append(s, x)
  OBVIOUS
<1>3. /\ t \in Seq(T) /\ Len(t) = Len(s) + 1 /\ t[Len(s) + 1] = x
      /\ \A i \in 1 .. Len(s) : t[i] = s[i]
  BY <1>1, AppendProperties
<1> QED
  BY <1>1, <1>2, <1>3 DEF Longer

(* Two and five more.                                                      *)
LEMMA MoreElements ==
  ASSUME NEW T, NEW s \in Seq(T), NEW c \in T, NEW d \in T, NEW e \in T, NEW f \in T, NEW g \in T
  PROVE  /\ s \o <<c, d>> = Append(Append(s, c), d)
         /\ s \o <<c, d, e, f, g>> = Append(Append(Append(Append(Append(s, c), d), e), f), g)
<1>1. s \o <<c, d>> = Append(Append(s, c), d)
  OBVIOUS
<1>2. s \o <<c, d, e, f, g>> = Append(Append(Append(Append(Append(s, c), d), e), f), g)
  BY SMTT(60)
<1> QED
  BY <1>1, <1>2

(* What stands before the text in a line of +CUSD, and in one of +COPS.    *)
CusdFront(space, p, a, z, c, q) == <<a>> \o space \o <<z, c>> \o space \o <<q>> = p
CopsFront(space, p, a, z, c, q) == <<a>> \o space \o <<z, c, z, c, q>> = p

(* What stands before the text, without a space.                           *)
LEMMA CusdFrontNone ==
  ASSUME NEW T, NEW a \in T, NEW z \in T, NEW c \in T, NEW q \in T
  PROVE  \E p \in Seq(T) :
           /\ Len(p) = 4 /\ p[1] = a /\ p[2] = z /\ p[3] = c /\ p[4] = q
           /\ CusdFront(<<>>, p, a, z, c, q)
<1>1. PICK p1 \in Seq(T) : p1 = <<a>> /\ Len(p1) = 1 /\ p1[1] = a
  <2>1. <<a>> \in Seq(T) /\ Len(<<a>>) = 1 /\ <<a>>[1] = a
    OBVIOUS
  <2> QED
    BY <2>1
<1>2. PICK p2 \in Seq(T) : Longer(p2, p1, z)
  BY OneMore
<1>3. /\ p2 = Append(p1, z) /\ p1 \o <<z>> = p2 /\ Len(p2) = 2
      /\ p2[1] = a /\ p2[2] = z
  BY <1>1, <1>2 DEF Longer
<1>4. PICK p3 \in Seq(T) : Longer(p3, p2, c)
  BY OneMore
<1>5. /\ p3 = Append(p2, c) /\ p2 \o <<c>> = p3 /\ Len(p3) = 3
      /\ p3[1] = a /\ p3[2] = z /\ p3[3] = c
  BY <1>3, <1>4 DEF Longer
<1>6. PICK p4 \in Seq(T) : Longer(p4, p3, q)
  BY OneMore
<1>7. /\ p4 = Append(p3, q) /\ p3 \o <<q>> = p4 /\ Len(p4) = 4
      /\ p4[1] = a /\ p4[2] = z /\ p4[3] = c /\ p4[4] = q
  BY <1>5, <1>6 DEF Longer
<1>8. p1 \o <<>> = p1 /\ p3 \o <<>> = p3
  BY ConcatEmptySeq
<1>9. p1 \o <<z, c>> = p3
  BY <1>3, <1>5, MoreElements
<1> QED
  BY <1>1, <1>8, <1>9, <1>7 DEF CusdFront

SpacedFront(p, a, s, z, c, q) ==
  /\ Len(p) = 6 /\ p[1] = a /\ p[2] = s /\ p[3] = z /\ p[4] = c /\ p[5] = s /\ p[6] = q
  /\ CusdFront(<<s>>, p, a, z, c, q)

(* What stands before the text, with a space after each field.             *)
LEMMA CusdFrontSpace ==
  ASSUME NEW T, NEW a \in T, NEW s \in T, NEW z \in T, NEW c \in T, NEW q \in T
  PROVE  \E p \in Seq(T) : SpacedFront(p, a, s, z, c, q)
<1>1. PICK p1 \in Seq(T) : p1 = <<a>> /\ Len(p1) = 1 /\ p1[1] = a
  <2>1. <<a>> \in Seq(T) /\ Len(<<a>>) = 1 /\ <<a>>[1] = a
    OBVIOUS
  <2> QED
    BY <2>1
<1>2. PICK p2 \in Seq(T) : Longer(p2, p1, s)
  BY OneMore
<1>3. /\ p2 = Append(p1, s) /\ p1 \o <<s>> = p2 /\ Len(p2) = 2
      /\ p2[1] = a /\ p2[2] = s
  BY <1>1, <1>2 DEF Longer
<1>4. PICK p3 \in Seq(T) : Longer(p3, p2, z)
  BY OneMore
<1>5. /\ p3 = Append(p2, z) /\ p2 \o <<z>> = p3 /\ Len(p3) = 3
      /\ p3[1] = a /\ p3[2] = s /\ p3[3] = z
  BY <1>3, <1>4 DEF Longer
<1>6. PICK p4 \in Seq(T) : Longer(p4, p3, c)
  BY OneMore
<1>7. /\ p4 = Append(p3, c) /\ p3 \o <<c>> = p4 /\ Len(p4) = 4
      /\ p4[1] = a /\ p4[2] = s /\ p4[3] = z /\ p4[4] = c
  BY <1>5, <1>6 DEF Longer
<1>8. PICK p5 \in Seq(T) : Longer(p5, p4, s)
  BY OneMore
<1>9. /\ p5 = Append(p4, s) /\ p4 \o <<s>> = p5 /\ Len(p5) = 5
      /\ p5[1] = a /\ p5[2] = s /\ p5[3] = z /\ p5[4] = c /\ p5[5] = s
  BY <1>7, <1>8 DEF Longer
<1>10. PICK p6 \in Seq(T) : Longer(p6, p5, q)
  BY OneMore
<1>11. /\ p6 = Append(p5, q) /\ p5 \o <<q>> = p6 /\ Len(p6) = 6
      /\ p6[1] = a /\ p6[2] = s /\ p6[3] = z /\ p6[4] = c /\ p6[5] = s /\ p6[6] = q
  BY <1>9, <1>10 DEF Longer
<1>12. p2 \o <<z, c>> = p4
  BY <1>5, <1>7, MoreElements
<1> QED
  BY <1>1, <1>12, <1>3, <1>9, <1>11 DEF SpacedFront, CusdFront

(* Before the name of an operator no quote stands but the one that opens   *)
(* it.                                                                     *)
LEMMA CopsFrontNone ==
  ASSUME NEW T, NEW a \in T, NEW z \in T, NEW c \in T, NEW q \in T,
         a # q, z # q, c # q
  PROVE  \E p \in Seq(T) : OpensAt(p, 6, q) /\ CopsFront(<<>>, p, a, z, c, q)
<1>1. PICK p1 \in Seq(T) : p1 = <<a>> /\ Len(p1) = 1 /\ p1[1] = a
  <2>1. <<a>> \in Seq(T) /\ Len(<<a>>) = 1 /\ <<a>>[1] = a
    OBVIOUS
  <2> QED
    BY <2>1
<1>2. PICK p2 \in Seq(T) : Longer(p2, p1, z)
  BY OneMore
<1>3. /\ p2 = Append(p1, z) /\ p1 \o <<z>> = p2 /\ Len(p2) = 2
      /\ p2[1] = a /\ p2[2] = z
  BY <1>1, <1>2 DEF Longer
<1>4. PICK p3 \in Seq(T) : Longer(p3, p2, c)
  BY OneMore
<1>5. /\ p3 = Append(p2, c) /\ p2 \o <<c>> = p3 /\ Len(p3) = 3
      /\ p3[1] = a /\ p3[2] = z /\ p3[3] = c
  BY <1>3, <1>4 DEF Longer
<1>6. PICK p4 \in Seq(T) : Longer(p4, p3, z)
  BY OneMore
<1>7. /\ p4 = Append(p3, z) /\ p3 \o <<z>> = p4 /\ Len(p4) = 4
      /\ p4[1] = a /\ p4[2] = z /\ p4[3] = c /\ p4[4] = z
  BY <1>5, <1>6 DEF Longer
<1>8. PICK p5 \in Seq(T) : Longer(p5, p4, c)
  BY OneMore
<1>9. /\ p5 = Append(p4, c) /\ p4 \o <<c>> = p5 /\ Len(p5) = 5
      /\ p5[1] = a /\ p5[2] = z /\ p5[3] = c /\ p5[4] = z /\ p5[5] = c
  BY <1>7, <1>8 DEF Longer
<1>10. PICK p6 \in Seq(T) : Longer(p6, p5, q)
  BY OneMore
<1>11. /\ p6 = Append(p5, q) /\ p5 \o <<q>> = p6 /\ Len(p6) = 6
      /\ p6[1] = a /\ p6[2] = z /\ p6[3] = c /\ p6[4] = z /\ p6[5] = c /\ p6[6] = q
  BY <1>9, <1>10 DEF Longer
<1>12. p1 \o <<>> = p1
  BY ConcatEmptySeq
<1>13. p1 \o <<z, c, z, c, q>> = p6
  BY <1>3, <1>5, <1>7, <1>9, <1>11, MoreElements
<1>14. CopsFront(<<>>, p6, a, z, c, q)
  BY <1>1, <1>12, <1>13 DEF CopsFront
<1>15. \A j \in 1 .. 6 - 1 : j = 1 \/ j = 2 \/ j = 3 \/ j = 4 \/ j = 5
  OBVIOUS
<1>16. OpensAt(p6, 6, q)
  <2>1. Len(p6) = 6 /\ p6[6] = q
    BY <1>11
  <2>2. p6[1] # q /\ p6[2] # q /\ p6[3] # q /\ p6[4] # q /\ p6[5] # q
    BY <1>11
  <2>3. \A j \in 1 .. 6 - 1 : p6[j] # q
    BY <1>15, <2>2
  <2> QED
    BY <2>1, <2>3 DEF OpensAt
<1> QED
  BY <1>14, <1>16

(* The same with a space.                                                  *)
LEMMA CopsFrontSpace ==
  ASSUME NEW T, NEW a \in T, NEW s \in T, NEW z \in T, NEW c \in T, NEW q \in T,
         a # q, s # q, z # q, c # q
  PROVE  \E p \in Seq(T) : OpensAt(p, 7, q) /\ CopsFront(<<s>>, p, a, z, c, q)
<1>1. PICK p1 \in Seq(T) : p1 = <<a>> /\ Len(p1) = 1 /\ p1[1] = a
  <2>1. <<a>> \in Seq(T) /\ Len(<<a>>) = 1 /\ <<a>>[1] = a
    OBVIOUS
  <2> QED
    BY <2>1
<1>2. PICK p2 \in Seq(T) : Longer(p2, p1, s)
  BY OneMore
<1>3. /\ p2 = Append(p1, s) /\ p1 \o <<s>> = p2 /\ Len(p2) = 2
      /\ p2[1] = a /\ p2[2] = s
  BY <1>1, <1>2 DEF Longer
<1>4. PICK p3 \in Seq(T) : Longer(p3, p2, z)
  BY OneMore
<1>5. /\ p3 = Append(p2, z) /\ p2 \o <<z>> = p3 /\ Len(p3) = 3
      /\ p3[1] = a /\ p3[2] = s /\ p3[3] = z
  BY <1>3, <1>4 DEF Longer
<1>6. PICK p4 \in Seq(T) : Longer(p4, p3, c)
  BY OneMore
<1>7. /\ p4 = Append(p3, c) /\ p3 \o <<c>> = p4 /\ Len(p4) = 4
      /\ p4[1] = a /\ p4[2] = s /\ p4[3] = z /\ p4[4] = c
  BY <1>5, <1>6 DEF Longer
<1>8. PICK p5 \in Seq(T) : Longer(p5, p4, z)
  BY OneMore
<1>9. /\ p5 = Append(p4, z) /\ p4 \o <<z>> = p5 /\ Len(p5) = 5
      /\ p5[1] = a /\ p5[2] = s /\ p5[3] = z /\ p5[4] = c /\ p5[5] = z
  BY <1>7, <1>8 DEF Longer
<1>10. PICK p6 \in Seq(T) : Longer(p6, p5, c)
  BY OneMore
<1>11. /\ p6 = Append(p5, c) /\ p5 \o <<c>> = p6 /\ Len(p6) = 6
      /\ p6[1] = a /\ p6[2] = s /\ p6[3] = z /\ p6[4] = c /\ p6[5] = z /\ p6[6] = c
  BY <1>9, <1>10 DEF Longer
<1>12. PICK p7 \in Seq(T) : Longer(p7, p6, q)
  BY OneMore
<1>13. /\ p7 = Append(p6, q) /\ p6 \o <<q>> = p7 /\ Len(p7) = 7
      /\ p7[1] = a /\ p7[2] = s /\ p7[3] = z /\ p7[4] = c /\ p7[5] = z /\ p7[6] = c /\ p7[7] = q
  BY <1>11, <1>12 DEF Longer
<1>14. p2 \o <<z, c, z, c, q>> = p7
  BY <1>5, <1>7, <1>9, <1>11, <1>13, MoreElements
<1>15. CopsFront(<<s>>, p7, a, z, c, q)
  BY <1>1, <1>3, <1>14 DEF CopsFront
<1>16. \A j \in 1 .. 7 - 1 : j = 1 \/ j = 2 \/ j = 3 \/ j = 4 \/ j = 5 \/ j = 6
  OBVIOUS
<1>17. OpensAt(p7, 7, q)
  <2>1. Len(p7) = 7 /\ p7[7] = q
    BY <1>13
  <2>2. /\ p7[1] # q /\ p7[2] # q /\ p7[3] # q /\ p7[4] # q /\ p7[5] # q
        /\ p7[6] # q
    BY <1>13
  <2>3. \A j \in 1 .. 7 - 1 : p7[j] # q
    BY <1>16, <2>2
  <2> QED
    BY <2>1, <2>3 DEF OpensAt
<1> QED
  BY <1>15, <1>17

(* The three tokens at the end of both lines.                              *)
LEMMA LineEnd ==
  ASSUME NEW T, NEW a \in T, NEW b \in T, NEW c \in T
  PROVE  \E e \in Seq(T) : e = <<a, b, c>> /\ Len(e) = 3 /\ e[1] = a /\ e[2] = b /\ e[3] = c
<1>1. /\ <<a, b, c>> \in Seq(T) /\ Len(<<a, b, c>>) = 3
      /\ <<a, b, c>>[1] = a /\ <<a, b, c>>[2] = b /\ <<a, b, c>>[3] = c
  OBVIOUS
<1> QED
  BY <1>1

(* A line of +CUSD, whichever its tokens are.                              *)
CusdShape(line, text, sp, a, z, c, d) ==
  /\ Len(line) = 7 + 2 * sp + Len(text)
  /\ line[1] = a
  /\ sp = 1 => line[2] = Space
  /\ line[2 + sp] = z /\ line[3 + sp] = c
  /\ QuotedAt(line, 3 + sp, text, sp)
  /\ line[6 + 2 * sp + Len(text)] = c
  /\ line[7 + 2 * sp + Len(text)] = d

CusdMade(T, text, space, a, z, c, d) ==
  \E line \in Seq(T), sp \in 0 .. 1 :
    /\ line = <<a>> \o space \o <<z, c>> \o space \o <<Quote>> \o text \o <<Quote, c, d>>
    /\ CusdShape(line, text, sp, a, z, c, d)

(* A line put together so has that shape.                                  *)
LEMMA CusdShaped ==
  ASSUME NEW T, NEW text \in Seq(T), NEW space \in Spaces, Space \in T, Quote \in T,
         NEW a \in T, NEW z \in T, NEW c \in T, NEW d \in T
  PROVE  CusdMade(T, text, space, a, z, c, d)
<1>1. PICK n \in Nat : n = Len(text)
  OBVIOUS
<1>2. PICK e \in Seq(T) :
        e = <<Quote, c, d>> /\ Len(e) = 3 /\ e[1] = Quote /\ e[2] = c /\ e[3] = d
  BY LineEnd
<1>3. CASE space = <<>>
  <2>1. PICK p \in Seq(T) :
          /\ Len(p) = 4 /\ p[1] = a /\ p[2] = z /\ p[3] = c /\ p[4] = Quote
          /\ CusdFront(<<>>, p, a, z, c, Quote)
    BY CusdFrontNone, SMTT(60)
  <2>2. PICK line : InThree(line, p, text, e)
    BY DEF InThree
  <2>3. /\ line \in Seq(T) /\ Len(line) = Len(p) + Len(text) + Len(e)
        /\ \A i \in 1 .. Len(p) : line[i] = p[i]
        /\ \A i \in 1 .. Len(text) : line[Len(p) + i] = text[i]
        /\ \A i \in 1 .. Len(e) : line[Len(p) + Len(text) + i] = e[i]
    BY <2>2, LineParts
  <2>4. /\ Len(line) = 4 + n + 3
        /\ \A j \in 1 .. 4 : line[j] = p[j]
        /\ \A j \in 1 .. n : line[4 + j] = text[j]
        /\ \A j \in 1 .. 3 : line[4 + n + j] = e[j]
    BY <1>1, <1>2, <2>1, <2>3
  <2>5. /\ line[1] = a /\ line[2] = z /\ line[3] = c /\ line[4] = Quote
        /\ line[4 + n + 1] = Quote /\ line[4 + n + 2] = c /\ line[4 + n + 3] = d
    BY <1>2, <2>1, <2>4
  <2>6. PICK sp \in 0 .. 1 : sp = 0
    OBVIOUS
  <2>7. /\ 7 + 2 * sp + n = 4 + n + 3 /\ 2 + sp = 2 /\ 3 + sp = 3
        /\ 6 + 2 * sp + n = 4 + n + 2
        /\ 3 + sp + sp + 1 = 4 /\ 3 + sp + sp + n + 2 = 4 + n + 1
        /\ 3 + sp + 1 .. 3 + sp + sp = {} /\ sp # 1
    BY <1>1, <2>6
  <2>8. \A j \in 1 .. n : line[3 + sp + sp + 1 + j] = text[j]
    BY <2>4, <2>7
  <2>9. QuotedAt(line, 3 + sp, text, sp)
    BY <1>1, <2>5, <2>7, <2>8 DEF QuotedAt
  <2>10. CusdShape(line, text, sp, a, z, c, d)
    BY <1>1, <2>4, <2>5, <2>7, <2>9 DEF CusdShape
  <2>11. line = <<a>> \o space \o <<z, c>> \o space \o <<Quote>> \o text \o <<Quote, c, d>>
    BY <1>2, <1>3, <2>1, <2>2 DEF InThree, CusdFront
  <2> QED
    BY <2>3, <2>10, <2>11 DEF CusdMade
<1>4. CASE space = <<Space>>
  <2>1. PICK p \in Seq(T) :
          /\ Len(p) = 6 /\ p[1] = a /\ p[2] = Space /\ p[3] = z /\ p[4] = c /\ p[5] = Space
          /\ p[6] = Quote
          /\ CusdFront(<<Space>>, p, a, z, c, Quote)
    <3>1. PICK p \in Seq(T) : SpacedFront(p, a, Space, z, c, Quote)
      BY CusdFrontSpace
    <3> QED
      BY <3>1 DEF SpacedFront
  <2>2. PICK line : InThree(line, p, text, e)
    BY DEF InThree
  <2>3. /\ line \in Seq(T) /\ Len(line) = Len(p) + Len(text) + Len(e)
        /\ \A i \in 1 .. Len(p) : line[i] = p[i]
        /\ \A i \in 1 .. Len(text) : line[Len(p) + i] = text[i]
        /\ \A i \in 1 .. Len(e) : line[Len(p) + Len(text) + i] = e[i]
    BY <2>2, LineParts
  <2>4. /\ Len(line) = 6 + n + 3
        /\ \A j \in 1 .. 6 : line[j] = p[j]
        /\ \A j \in 1 .. n : line[6 + j] = text[j]
        /\ \A j \in 1 .. 3 : line[6 + n + j] = e[j]
    BY <1>1, <1>2, <2>1, <2>3
  <2>5. /\ line[1] = a /\ line[2] = Space /\ line[3] = z /\ line[4] = c
        /\ line[5] = Space /\ line[6] = Quote
        /\ line[6 + n + 1] = Quote /\ line[6 + n + 2] = c /\ line[6 + n + 3] = d
    BY <1>2, <2>1, <2>4
  <2>6. PICK sp \in 0 .. 1 : sp = 1
    OBVIOUS
  <2>7. /\ 7 + 2 * sp + n = 6 + n + 3 /\ 2 + sp = 3 /\ 3 + sp = 4
        /\ 6 + 2 * sp + n = 6 + n + 2
        /\ 3 + sp + sp + 1 = 6 /\ 3 + sp + sp + n + 2 = 6 + n + 1
        /\ \A j \in 3 + sp + 1 .. 3 + sp + sp : j = 5
    BY <1>1, <2>6
  <2>8. \A j \in 1 .. n : line[3 + sp + sp + 1 + j] = text[j]
    BY <2>4, <2>7
  <2>9. QuotedAt(line, 3 + sp, text, sp)
    BY <1>1, <2>5, <2>7, <2>8 DEF QuotedAt
  <2>10. CusdShape(line, text, sp, a, z, c, d)
    BY <1>1, <2>4, <2>5, <2>7, <2>9 DEF CusdShape
  <2>11. line = <<a>> \o space \o <<z, c>> \o space \o <<Quote>> \o text \o <<Quote, c, d>>
    BY <1>2, <1>4, <2>1, <2>2 DEF InThree, CusdFront
  <2> QED
    BY <2>3, <2>10, <2>11 DEF CusdMade
<1> QED
  BY <1>3, <1>4 DEF Spaces

(* A line of +CUSD of the run.                                             *)
LEMMA CusdLineIs ==
  ASSUME NEW i, NEW text \in Seq(Token), NEW space \in Spaces,
         i.text = text, i.space = space
  PROVE  \E line \in Seq(Token), sp \in 0 .. 1 : line = CusdLine(i) /\ CusdIs(line, text, sp)
<1>1. CusdMade(Token, text, space, "+CUSD:", "0", ",", "15")
  BY CusdShaped, TokenMembers
<1>2. PICK line \in Seq(Token), sp \in 0 .. 1 :
        /\ line = <<"+CUSD:">> \o space \o <<"0", ",">> \o space \o <<Quote>> \o text
                    \o <<Quote, ",", "15">>
        /\ CusdShape(line, text, sp, "+CUSD:", "0", ",", "15")
  BY <1>1 DEF CusdMade
<1>3. line = CusdLine(i)
  BY <1>2 DEF CusdLine
<1>4. CusdIs(line, text, sp)
  BY <1>2 DEF CusdShape, CusdIs
<1> QED
  BY <1>3, <1>4

(* A line of +COPS, whichever its tokens are, is read.                     *)
CopsMade(line, space, text, a, z, c, d) ==
  line = <<a>> \o space \o <<z, c, z, c, Quote>> \o text \o <<Quote, c, d>>

(* The name is read out of such a line.                                    *)
LEMMA CopsShaped ==
  ASSUME NEW T, NEW text \in Seq(T), NEW space \in Spaces, Space \in T, Quote \in T,
         NEW a \in T, NEW z \in T, NEW c \in T, NEW d \in T,
         a # Quote, z # Quote, c # Quote, ~Contains(text, Quote),
         NEW line, CopsMade(line, space, text, a, z, c, d)
  PROVE  at_parse_cops(line) = [ok |-> TRUE, name |-> text]
<1>1. PICK e \in Seq(T) : e = <<Quote, c, d>> /\ Len(e) = 3 /\ e[1] = Quote
  BY LineEnd, SMTT(60)
<1>2. ClosesIn(text, e)
  BY <1>1 DEF ClosesIn, Contains
<1>3. PICK p \in Seq(T), open \in Nat \ {0} :
        OpensAt(p, open, Quote) /\ CopsFront(space, p, a, z, c, Quote)
  <2>1. CASE space = <<>>
    <3>1. PICK p \in Seq(T) : OpensAt(p, 6, Quote) /\ CopsFront(<<>>, p, a, z, c, Quote)
      BY CopsFrontNone
    <3> QED
      BY <2>1, <3>1
  <2>2. CASE space = <<Space>>
    <3>1. PICK p \in Seq(T) : OpensAt(p, 7, Quote) /\ CopsFront(<<Space>>, p, a, z, c, Quote)
      BY CopsFrontSpace, TokensApart
    <3> QED
      BY <2>2, <3>1
  <2> QED
    BY <2>1, <2>2 DEF Spaces
<1>4. InThree(line, p, text, e)
  BY <1>1, <1>3 DEF InThree, CopsFront, CopsMade
<1> QED
  BY <1>2, <1>3, <1>4, CopsRead

(* What QuotedRead asks of a text and a space.                             *)
QuotedReads(i) ==
  /\ at_parse_cusd(CusdLine(i)) = [ok |-> TRUE, text |-> i.text, dcs |-> "15"]
  /\ ~Contains(i.text, Quote) => at_parse_cops(CopsLine(i)) = [ok |-> TRUE, name |-> i.text]

(* Every text of the run is read.                                          *)
LEMMA QuotedKept ==
  ASSUME NEW i, i \in UssdItems
  PROVE  QuotedReads(i)
<1>1. PICK text \in UssdTexts, space \in Spaces :
        i = [sort |-> "ussd", text |-> text, space |-> space]
  BY DEF UssdItems
<1>2. i.text = text /\ i.space = space
  BY <1>1
<1>3. text \in Seq(Token)
  <2>1. PICK k \in 0 .. MaxUssd : text \in [1 .. k -> {"x", ",", Quote, "15"}]
    BY DEF UssdTexts
  <2>2. MaxUssd \in Nat
    BY FormatsAssumption
  <2>3. k \in Nat
    <3>1. PICK m \in 0 .. MaxUssd : m = k
      BY <2>1
    <3> QED
      BY <2>2, <3>1
  <2>4. {"x", ",", Quote, "15"} \subseteq Token
    BY TokenMembers
  <2>5. PICK T : T = {"x", ",", Quote, "15"}
    OBVIOUS
  <2>6. text \in [1 .. k -> T] /\ T \subseteq Token
    BY <2>1, <2>4, <2>5
  <2> QED
    BY <2>3, <2>6
<1>4. at_parse_cusd(CusdLine(i)) = [ok |-> TRUE, text |-> text, dcs |-> "15"]
  <2>1. PICK line \in Seq(Token), sp \in 0 .. 1 : line = CusdLine(i) /\ CusdIs(line, text, sp)
    BY <1>2, <1>3, CusdLineIs
  <2>2. PICK after \in Seq(Token) : after = trimSpaces(SubSeq(line, 2, Len(line)))
    BY <1>3, <2>1, CusdAfter
  <2>3. AfterIs(after, text, sp)
    BY <1>3, <2>1, <2>2, CusdAfter
  <2>4. at_parse_cusd(line) = [ok |-> TRUE, text |-> text, dcs |-> "15"]
    BY <1>3, <2>2, <2>3, CusdRead
  <2> QED
    BY <2>1, <2>4
<1>5. ASSUME ~Contains(text, Quote)
      PROVE  at_parse_cops(CopsLine(i)) = [ok |-> TRUE, name |-> text]
  <2>1. "+COPS:" # Quote /\ "0" # Quote /\ "," # Quote
    BY TokensApart
  <2>2. PICK line : line = <<"+COPS:">> \o space \o <<"0", ",", "0", ",", Quote>> \o text
                             \o <<Quote, ",", "2">>
    OBVIOUS
  <2>3. CopsLine(i) = line
    BY <1>2, <2>2 DEF CopsLine
  <2>4. CopsMade(line, space, text, "+COPS:", "0", ",", "2")
    BY <2>2 DEF CopsMade
  <2>5. at_parse_cops(line) = [ok |-> TRUE, name |-> text]
    <3>1. PICK a \in Token, z \in Token, c \in Token, d \in Token :
            a = "+COPS:" /\ z = "0" /\ c = "," /\ d = "2"
      BY TokenMembers
    <3>2. a # Quote /\ z # Quote /\ c # Quote
      BY <2>1, <3>1
    <3>3. CopsMade(line, space, text, a, z, c, d)
      BY <2>4, <3>1
    <3>4. Space \in Token /\ Quote \in Token
      BY TokenMembers
    <3> QED
      BY <1>3, <1>5, <3>2, <3>3, <3>4, CopsShaped
  <2> QED
    BY <2>3, <2>5
<1> QED
  BY <1>2, <1>4, <1>5 DEF QuotedReads

(* None but these are lines that quote a text.                             *)
LEMMA UssdOfRun ==
  ASSUME NEW i, IsItem(i), i.sort = "ussd"
  PROVE  i \in UssdItems
<1>1. ~IsMessageLeft(i) /\ ~IsReportLeft(i)
  BY MessageKept, ReportKept
<1>2. i \notin CregItems
  <2> SUFFICES ASSUME i \in CregItems PROVE FALSE
    OBVIOUS
  <2>1. \E mode, status, cell, space :
          i = [sort |-> "creg", mode |-> mode, status |-> status, cell |-> cell, space |-> space]
    BY DEF CregItems
  <2> QED
    BY <2>1
<1>3. i \notin SubmitItems
  <2> SUFFICES ASSUME i \in SubmitItems PROVE FALSE
    OBVIOUS
  <2>1. \E number, national, smsc, alphabet, text :
          i = [sort |-> "submit", number |-> number, national |-> national, smsc |-> smsc,
               alphabet |-> alphabet, message |-> text]
    BY DEF SubmitItems
  <2> QED
    BY <2>1
<1> QED
  BY <1>1, <1>2, <1>3 DEF IsItem, None

(* A text in quotes is read whole, whatever is in it (at_parse_cusd), and  *)
(* so is the name of an operator (at_parse_cops).                          *)
THEOREM QuotedReadHolds == FormatsSpec => []QuotedRead
<1>1. FormatsInv => QuotedRead
  BY UssdOfRun, QuotedKept DEF FormatsInv, QuotedRead, QuotedReads
<1> QED
  BY <1>1, ItemsKept, PTL

-----------------------------------------------------------------------------
(* Lines of +CREG: the loop over a line, and where its fields begin.       *)

CregStates == [state : Nat, p : [1 .. 4 -> Nat]]

(* The loop is in a state, and has found the fields that begin there.      *)
Places(a, b, c, d) ==
  [f \in 1 .. 4 |-> IF f = 1 THEN a ELSE IF f = 2 THEN b ELSE IF f = 3 THEN c ELSE d]
At(state, a, b, c, d) == [state |-> state, p |-> Places(a, b, c, d)]

(* One turn of the loop keeps its types,                                   *)
LEMMA CregType ==
  ASSUME NEW line, NEW a \in CregStates, NEW i \in Nat
  PROVE  CregStep(line, a, i) \in CregStates
<1>1. PICK state \in Nat, p \in [1 .. 4 -> Nat] : a = [state |-> state, p |-> p]
  BY DEF CregStates
<1>2. a.state = state /\ a.p = p
  BY <1>1
<1>3. PICK begins \in BOOLEAN, ends \in BOOLEAN, colon \in BOOLEAN :
        /\ begins = (a.state % 2 = 1 /\ (a.state = 3 \/ line[i] # Space))
        /\ ends = (a.state \in 1 .. 6 /\ line[i] = ",")
        /\ colon = (a.state = 0 /\ line[i] = ":")
  OBVIOUS
<1>4. CregStep(line, a, i) =
        [state |-> a.state + (IF begins THEN 1 ELSE 0) + (IF ends \/ colon THEN 1 ELSE 0),
         p |-> IF begins THEN [a.p EXCEPT ![(a.state + 1) \div 2] = i] ELSE a.p]
  BY <1>3 DEF CregStep
<1>5. state + (IF begins THEN 1 ELSE 0) + (IF ends \/ colon THEN 1 ELSE 0) \in Nat
  OBVIOUS
<1>6. (IF begins THEN [p EXCEPT ![(state + 1) \div 2] = i] ELSE p) \in [1 .. 4 -> Nat]
  <2>1. PICK f : f = (state + 1) \div 2
    OBVIOUS
  <2>2. [p EXCEPT ![f] = i] \in [1 .. 4 -> Nat]
    OBVIOUS
  <2> QED
    BY <2>1, <2>2
<1> QED
  BY <1>2, <1>4, <1>5, <1>6 DEF CregStates

(* and the turns are taken one by one, from the first token.               *)
LEMMA CregFold ==
  ASSUME NEW line, NEW n \in Nat, DOMAIN line = 1 .. n
  PROVE  \E g : /\ g[0] = At(0, 0, 0, 0, 0)
                /\ \A k \in 0 .. n - 1 : g[k + 1] = CregStep(line, g[k], k + 1)
                /\ CregScan(line) = g[n]
<1> DEFINE begin == [state |-> 0, p |-> [f \in 1 .. 4 |-> 0]]
<1> DEFINE Eq(it) == it = [s \in SUBSET (1 .. n) |->
                             IF s = {} THEN begin
                             ELSE CregStep(line, it[s \ {Max(s)}], [i \in 1 .. n |-> i][Max(s)])]
<1> DEFINE chosen == CHOOSE it : Eq(it)
<1>1. begin = At(0, 0, 0, 0, 0) /\ begin \in CregStates
  BY DEF At, Places, CregStates
<1>3. CregScan(line) = chosen[1 .. n]
  <2>1. DOMAIN [i \in DOMAIN line |-> i] = 1 .. n
    OBVIOUS
  <2> QED
    BY <2>1 DEF CregScan, FoldLeftDomain, FoldLeft, MapThenFoldSet
<1> HIDE DEF begin
<1>4. \E it : Eq(it)
  <2>1. PICK h : h = [p \in (1 .. n) \X CregStates |-> CregStep(line, p[2], p[1])]
    OBVIOUS
  <2>2. h \in [(1 .. n) \X CregStates -> CregStates]
    BY <2>1, CregType
  <2>4. PICK it \in [SUBSET (1 .. n) -> CregStates] : FoldOf(it, n, begin, h)
    BY <1>1, <2>2, FoldDefined DEF HasFold
  <2>5. ASSUME NEW s \in SUBSET (1 .. n), s # {}
        PROVE  it[s] = CregStep(line, it[s \ {Max(s)}], [i \in 1 .. n |-> i][Max(s)])
    <3>1. Max(s) \in 1 .. n
      BY <2>5, MaxOf
    <3>2. it[s \ {Max(s)}] \in CregStates
      OBVIOUS
    <3>3. it[s] = h[<<Max(s), it[s \ {Max(s)}]>>]
      BY <2>4, <2>5 DEF FoldOf
    <3>4. <<Max(s), it[s \ {Max(s)}]>> \in (1 .. n) \X CregStates
      BY <3>1, <3>2
    <3> QED
      BY <2>1, <3>1, <3>3, <3>4
  <2>6. it[{}] = begin
    BY <2>4 DEF FoldOf
  <2>7. Eq(it)
    BY <2>5, <2>6
  <2> QED
    BY <2>7
<1>5. Eq(chosen)
  BY <1>4
<1> HIDE DEF chosen
<1>6. chosen[1 .. 0] = begin
  <2>1. 1 .. 0 = {} /\ {} \in SUBSET (1 .. n)
    OBVIOUS
  <2> QED
    BY <1>5, <2>1
<1>7. ASSUME NEW k \in 0 .. n - 1
      PROVE  chosen[1 .. k + 1] = CregStep(line, chosen[1 .. k], k + 1)
  <2>1. k \in Nat /\ k + 1 <= n
    OBVIOUS
  <2>3. 1 .. k + 1 \in SUBSET (1 .. n) /\ k + 1 \in 1 .. n
    BY <2>1
  <2>4. 1 .. k + 1 # {}
    <3>1. 1 \in 1 .. k + 1
      BY <2>1
    <3> QED
      BY <3>1
  <2>5. Max(1 .. k + 1) = k + 1 /\ (1 .. k + 1) \ {k + 1} = 1 .. k
    BY <2>1, MaxUpTo
  <2>6. chosen[1 .. k + 1]
          = CregStep(line, chosen[(1 .. k + 1) \ {Max(1 .. k + 1)}],
                     [i \in 1 .. n |-> i][Max(1 .. k + 1)])
    BY <1>5, <2>3, <2>4
  <2> QED
    BY <2>3, <2>5, <2>6
<1>8. PICK g : g = [k \in 0 .. n |-> chosen[1 .. k]]
  OBVIOUS
<1>9. g[0] = begin /\ g[n] = chosen[1 .. n]
  BY <1>6, <1>8
<1>10. \A k \in 0 .. n - 1 : g[k + 1] = CregStep(line, g[k], k + 1)
  BY <1>7, <1>8
<1> QED
  BY <1>1, <1>3, <1>9, <1>10

(* The same turn, for the provers: with names for comma and colon.         *)
Turn(x, t, i, comma, colon) ==
  LET begins == x.state % 2 = 1 /\ (x.state = 3 \/ t # Space)
      ends   == x.state \in 1 .. 6 /\ t = comma
      starts == x.state = 0 /\ t = colon
  IN  [state |-> x.state + (IF begins THEN 1 ELSE 0) + (IF ends \/ starts THEN 1 ELSE 0),
       p     |-> IF begins THEN [x.p EXCEPT ![(x.state + 1) \div 2] = i] ELSE x.p]

(* It is the turn of the loop.                                             *)
LEMMA TurnIs ==
  ASSUME NEW line, NEW x, NEW i
  PROVE  CregStep(line, x, i) = Turn(x, line[i], i, ",", ":")
BY DEF CregStep, Turn

(* A field that begins is put in its place.                                *)
Put(p, f, i) == [p EXCEPT ![f] = i]

(* Each of the four is put in its own place.                               *)
LEMMA PlacesSet ==
  ASSUME NEW a \in Nat, NEW b \in Nat, NEW c \in Nat, NEW d \in Nat, NEW i \in Nat
  PROVE  /\ Put(Places(a, b, c, d), 1, i) = Places(i, b, c, d)
         /\ Put(Places(a, b, c, d), 2, i) = Places(a, i, c, d)
         /\ Put(Places(a, b, c, d), 3, i) = Places(a, b, i, d)
         /\ Put(Places(a, b, c, d), 4, i) = Places(a, b, c, i)
<1>1. PICK p \in [1 .. 4 -> Nat] : p = Places(a, b, c, d)
  BY DEF Places
<1>2. p[1] = a /\ p[2] = b /\ p[3] = c /\ p[4] = d
  BY <1>1 DEF Places
<1>3. 1 .. 4 = {1, 2, 3, 4}
  OBVIOUS
<1>4. ASSUME NEW f \in 1 .. 4
      PROVE  Put(p, f, i) = Places(IF f = 1 THEN i ELSE a, IF f = 2 THEN i ELSE b,
                                   IF f = 3 THEN i ELSE c, IF f = 4 THEN i ELSE d)
  <2>1. PICK q : q = Put(p, f, i)
    OBVIOUS
  <2>2. q = [g \in 1 .. 4 |-> IF g = f THEN i ELSE p[g]]
    BY <2>1 DEF Put
  <2>3. ASSUME NEW g \in 1 .. 4
        PROVE  (IF g = f THEN i ELSE p[g])
                 = IF g = 1 THEN (IF f = 1 THEN i ELSE a)
                   ELSE IF g = 2 THEN (IF f = 2 THEN i ELSE b)
                   ELSE IF g = 3 THEN (IF f = 3 THEN i ELSE c) ELSE (IF f = 4 THEN i ELSE d)
    BY <1>2
  <2> QED
    BY <2>1, <2>2, <2>3 DEF Places
<1>5. Put(p, 1, i) = Places(i, b, c, d)
  BY <1>4
<1>6. Put(p, 2, i) = Places(a, i, c, d)
  BY <1>4
<1>7. Put(p, 3, i) = Places(a, b, i, d)
  BY <1>4
<1>8. Put(p, 4, i) = Places(a, b, c, i)
  BY <1>4
<1> QED
  BY <1>1, <1>5, <1>6, <1>7, <1>8

(* Where a field is due it begins, and the loop looks for its end.         *)
LEMMA FieldBegins ==
  ASSUME NEW s \in {1, 3, 5, 7}, NEW f \in 1 .. 4, s = 2 * f - 1, NEW p, NEW t, NEW i, NEW comma, NEW colon,
         t # comma, s = 3 \/ t # Space
  PROVE  Turn([state |-> s, p |-> p], t, i, comma, colon)
           = [state |-> s + 1, p |-> Put(p, f, i)]
<1>1. PICK x : x = [state |-> s, p |-> p]
  OBVIOUS
<1>2. x.state = s /\ x.p = p
  BY <1>1
<1>3. s % 2 = 1 /\ (s + 1) \div 2 = f /\ s # 0 /\ s + 1 + 0 = s + 1
  OBVIOUS
<1>4. Turn(x, t, i, comma, colon) =
        [state |-> x.state + (IF TRUE THEN 1 ELSE 0) + (IF FALSE THEN 1 ELSE 0),
         p |-> [x.p EXCEPT ![(x.state + 1) \div 2] = i]]
  BY <1>2, <1>3 DEF Turn
<1> QED
  BY <1>1, <1>2, <1>3, <1>4 DEF Put

(* What is neither a space nor a comma begins a field where one is due.    *)
Begins(t, i, comma, colon) ==
  \A a, b, c, d \in Nat :
    /\ Turn(At(1, a, b, c, d), t, i, comma, colon) = At(2, i, b, c, d)
    /\ Turn(At(3, a, b, c, d), t, i, comma, colon) = At(4, a, i, c, d)
    /\ Turn(At(5, a, b, c, d), t, i, comma, colon) = At(6, a, b, i, d)
    /\ Turn(At(7, a, b, c, d), t, i, comma, colon) = At(8, a, b, c, i)
    /\ Turn(At(4, a, b, c, d), t, i, comma, colon) = At(4, a, b, c, d)

(* So does every item.                                                     *)
LEMMA ItemTurn ==
  ASSUME NEW t, NEW i \in Nat, NEW comma, NEW colon, t # Space, t # comma
  PROVE  Begins(t, i, comma, colon)
<1> SUFFICES ASSUME NEW a \in Nat, NEW b \in Nat, NEW c \in Nat, NEW d \in Nat
             PROVE  /\ Turn(At(1, a, b, c, d), t, i, comma, colon) = At(2, i, b, c, d)
                    /\ Turn(At(3, a, b, c, d), t, i, comma, colon) = At(4, a, i, c, d)
                    /\ Turn(At(5, a, b, c, d), t, i, comma, colon) = At(6, a, b, i, d)
                    /\ Turn(At(7, a, b, c, d), t, i, comma, colon) = At(8, a, b, c, i)
                    /\ Turn(At(4, a, b, c, d), t, i, comma, colon) = At(4, a, b, c, d)
  BY DEF Begins
<1>1. Turn(At(1, a, b, c, d), t, i, comma, colon) = At(2, i, b, c, d)
  <2>1. Turn([state |-> 1, p |-> Places(a, b, c, d)], t, i, comma, colon)
          = [state |-> 1 + 1, p |-> Put(Places(a, b, c, d), 1, i)]
    BY FieldBegins
  <2> QED
    BY <2>1, PlacesSet DEF At
<1>2. Turn(At(3, a, b, c, d), t, i, comma, colon) = At(4, a, i, c, d)
  <2>1. Turn([state |-> 3, p |-> Places(a, b, c, d)], t, i, comma, colon)
          = [state |-> 3 + 1, p |-> Put(Places(a, b, c, d), 2, i)]
    BY FieldBegins
  <2> QED
    BY <2>1, PlacesSet, SMTT(60) DEF At
<1>3. Turn(At(5, a, b, c, d), t, i, comma, colon) = At(6, a, b, i, d)
  <2>1. Turn([state |-> 5, p |-> Places(a, b, c, d)], t, i, comma, colon)
          = [state |-> 5 + 1, p |-> Put(Places(a, b, c, d), 3, i)]
    BY FieldBegins
  <2> QED
    BY <2>1, PlacesSet DEF At
<1>4. Turn(At(7, a, b, c, d), t, i, comma, colon) = At(8, a, b, c, i)
  <2>1. Turn([state |-> 7, p |-> Places(a, b, c, d)], t, i, comma, colon)
          = [state |-> 7 + 1, p |-> Put(Places(a, b, c, d), 4, i)]
    BY FieldBegins
  <2> QED
    BY <2>1, PlacesSet DEF At
<1>5. Turn(At(4, a, b, c, d), t, i, comma, colon) = At(4, a, b, c, d)
  BY DEF Turn, At
<1> QED
  BY <1>1, <1>2, <1>3, <1>4, <1>5

(* A space begins none, but the second; a comma ends one.                  *)
Skips(i, comma, colon) ==
  \A a, b, c, d \in Nat :
    /\ Turn(At(1, a, b, c, d), Space, i, comma, colon) = At(1, a, b, c, d)
    /\ Turn(At(3, a, b, c, d), Space, i, comma, colon) = At(4, a, i, c, d)
    /\ Turn(At(5, a, b, c, d), Space, i, comma, colon) = At(5, a, b, c, d)
    /\ Turn(At(7, a, b, c, d), Space, i, comma, colon) = At(7, a, b, c, d)

(* So does every space.                                                    *)
LEMMA SpaceTurn ==
  ASSUME NEW i \in Nat, NEW comma, NEW colon, Space # comma
  PROVE  Skips(i, comma, colon)
<1> SUFFICES ASSUME NEW a \in Nat, NEW b \in Nat, NEW c \in Nat, NEW d \in Nat
             PROVE  /\ Turn(At(1, a, b, c, d), Space, i, comma, colon) = At(1, a, b, c, d)
                    /\ Turn(At(3, a, b, c, d), Space, i, comma, colon) = At(4, a, i, c, d)
                    /\ Turn(At(5, a, b, c, d), Space, i, comma, colon) = At(5, a, b, c, d)
                    /\ Turn(At(7, a, b, c, d), Space, i, comma, colon) = At(7, a, b, c, d)
  BY DEF Skips
<1>1. Turn(At(1, a, b, c, d), Space, i, comma, colon) = At(1, a, b, c, d)
  BY DEF Turn, At
<1>2. Turn(At(3, a, b, c, d), Space, i, comma, colon) = At(4, a, i, c, d)
  <2>1. Turn([state |-> 3, p |-> Places(a, b, c, d)], Space, i, comma, colon)
          = [state |-> 3 + 1, p |-> Put(Places(a, b, c, d), 2, i)]
    BY FieldBegins
  <2> QED
    BY <2>1, PlacesSet DEF At
<1>3. Turn(At(5, a, b, c, d), Space, i, comma, colon) = At(5, a, b, c, d)
  BY DEF Turn, At
<1>4. Turn(At(7, a, b, c, d), Space, i, comma, colon) = At(7, a, b, c, d)
  BY DEF Turn, At
<1> QED
  BY <1>1, <1>2, <1>3, <1>4

Ends(i, comma, colon) ==
  \A a, b, c, d \in Nat :
    /\ Turn(At(2, a, b, c, d), comma, i, comma, colon) = At(3, a, b, c, d)
    /\ Turn(At(4, a, b, c, d), comma, i, comma, colon) = At(5, a, b, c, d)
    /\ Turn(At(6, a, b, c, d), comma, i, comma, colon) = At(7, a, b, c, d)

(* So does every comma.                                                    *)
LEMMA CommaTurn ==
  ASSUME NEW i \in Nat, NEW comma, NEW colon
  PROVE  Ends(i, comma, colon)
<1> SUFFICES ASSUME NEW a \in Nat, NEW b \in Nat, NEW c \in Nat, NEW d \in Nat
             PROVE  /\ Turn(At(2, a, b, c, d), comma, i, comma, colon) = At(3, a, b, c, d)
                    /\ Turn(At(4, a, b, c, d), comma, i, comma, colon) = At(5, a, b, c, d)
                    /\ Turn(At(6, a, b, c, d), comma, i, comma, colon) = At(7, a, b, c, d)
  BY DEF Ends
<1>1. Turn(At(2, a, b, c, d), comma, i, comma, colon) = At(3, a, b, c, d)
  BY DEF Turn, At
<1>2. Turn(At(4, a, b, c, d), comma, i, comma, colon) = At(5, a, b, c, d)
  BY DEF Turn, At
<1>3. Turn(At(6, a, b, c, d), comma, i, comma, colon) = At(7, a, b, c, d)
  BY DEF Turn, At
<1> QED
  BY <1>1, <1>2, <1>3

(* The loop begins at the colon.                                           *)
LEMMA ColonTurn ==
  ASSUME NEW t, NEW i \in Nat, NEW comma, NEW colon
  PROVE  /\ t # colon =>
              Turn(At(0, 0, 0, 0, 0), t, i, comma, colon) = At(0, 0, 0, 0, 0)
         /\ Turn(At(0, 0, 0, 0, 0), colon, i, comma, colon) = At(1, 0, 0, 0, 0)
BY DEF Turn, At

(* The turns over a line.                                                  *)
Turns(g, line, n, comma, colon) ==
  \A k \in 0 .. n - 1 : g[k + 1] = Turn(g[k], line[k + 1], k + 1, comma, colon)

(* After an item that begins a field,                                      *)
LEMMA AfterItem ==
  ASSUME NEW g, NEW line, NEW n \in Nat, NEW comma, NEW colon, Turns(g, line, n, comma, colon),
         NEW k \in Nat, k < n, line[k + 1] # Space, line[k + 1] # comma,
         NEW a \in Nat, NEW b \in Nat, NEW c \in Nat, NEW d \in Nat
  PROVE  /\ g[k] = At(1, a, b, c, d) => g[k + 1] = At(2, k + 1, b, c, d)
         /\ g[k] = At(3, a, b, c, d) => g[k + 1] = At(4, a, k + 1, c, d)
         /\ g[k] = At(4, a, b, c, d) => g[k + 1] = At(4, a, b, c, d)
         /\ g[k] = At(5, a, b, c, d) => g[k + 1] = At(6, a, b, k + 1, d)
<1>1. g[k + 1] = Turn(g[k], line[k + 1], k + 1, comma, colon)
  BY DEF Turns
<1>2. Begins(line[k + 1], k + 1, comma, colon)
  BY ItemTurn
<1>3. /\ Turn(At(1, a, b, c, d), line[k + 1], k + 1, comma, colon) = At(2, k + 1, b, c, d)
      /\ Turn(At(3, a, b, c, d), line[k + 1], k + 1, comma, colon) = At(4, a, k + 1, c, d)
      /\ Turn(At(5, a, b, c, d), line[k + 1], k + 1, comma, colon) = At(6, a, b, k + 1, d)
      /\ Turn(At(7, a, b, c, d), line[k + 1], k + 1, comma, colon) = At(8, a, b, c, k + 1)
      /\ Turn(At(4, a, b, c, d), line[k + 1], k + 1, comma, colon) = At(4, a, b, c, d)
  BY <1>2, SMTT(60) DEF Begins
<1> QED
  BY <1>1, <1>3

(* after the last of them,                                                 *)
LEMMA AfterLast ==
  ASSUME NEW g, NEW line, NEW n \in Nat, NEW comma, NEW colon, Turns(g, line, n, comma, colon),
         NEW k \in Nat, k < n, line[k + 1] # Space, line[k + 1] # comma,
         NEW a \in Nat, NEW b \in Nat, NEW c \in Nat, g[k] = At(7, a, b, c, 0)
  PROVE  g[k + 1] = At(8, a, b, c, k + 1)
<1>1. g[k + 1] = Turn(g[k], line[k + 1], k + 1, comma, colon)
  BY DEF Turns
<1>2. Begins(line[k + 1], k + 1, comma, colon)
  BY ItemTurn
<1>3. Turn(At(7, a, b, c, 0), line[k + 1], k + 1, comma, colon) = At(8, a, b, c, k + 1)
  BY <1>2 DEF Begins
<1> QED
  BY <1>1, <1>3

(* after a comma that ends one,                                            *)
LEMMA AfterComma ==
  ASSUME NEW g, NEW line, NEW n \in Nat, NEW comma, NEW colon, Turns(g, line, n, comma, colon),
         NEW k \in Nat, k < n, line[k + 1] = comma,
         NEW a \in Nat, NEW b \in Nat, NEW c \in Nat, NEW d \in Nat
  PROVE  /\ g[k] = At(2, a, b, c, d) => g[k + 1] = At(3, a, b, c, d)
         /\ g[k] = At(4, a, b, c, d) => g[k + 1] = At(5, a, b, c, d)
         /\ g[k] = At(6, a, b, c, d) => g[k + 1] = At(7, a, b, c, d)
<1>1. g[k + 1] = Turn(g[k], comma, k + 1, comma, colon)
  BY DEF Turns
<1>2. Ends(k + 1, comma, colon)
  BY CommaTurn
<1> QED
  BY <1>1, <1>2, SMTT(60) DEF Ends

(* and after a space or none.                                              *)
LEMMA AfterSpaces ==
  ASSUME NEW g, NEW line, NEW n \in Nat, NEW comma, NEW colon, Turns(g, line, n, comma, colon),
         Space # comma, NEW sp \in 0 .. 1, NEW k \in Nat, k + sp <= n,
         sp = 1 => line[k + 1] = Space,
         NEW a \in Nat, NEW b \in Nat, NEW c \in Nat, NEW d \in Nat
  PROVE  /\ g[k] = At(1, a, b, c, d) => g[k + sp] = At(1, a, b, c, d)
         /\ g[k] = At(3, a, b, c, d) /\ sp = 1 => g[k + sp] = At(4, a, k + 1, c, d)
         /\ g[k] = At(5, a, b, c, d) => g[k + sp] = At(5, a, b, c, d)
         /\ g[k] = At(7, a, b, c, d) => g[k + sp] = At(7, a, b, c, d)
<1>1. CASE sp = 0
  BY <1>1
<1>2. CASE sp = 1
  <2>1. g[k + 1] = Turn(g[k], Space, k + 1, comma, colon)
    BY <1>2 DEF Turns
  <2>2. Skips(k + 1, comma, colon)
    BY SpaceTurn
  <2> QED
    BY <1>2, <2>1, <2>2, SMTT(60) DEF Skips
<1> QED
  BY <1>1, <1>2

(* A line of +CREG: sp spaces behind colon and commas, mo modes before the *)
(* status, which is at q; a cell behind it or not.                         *)
CregShape(line, sp, mo, q, mode, status, comma, colon) ==
  /\ q = 3 + sp + 2 * mo /\ q <= Len(line)
  /\ line[1] # colon /\ line[2] = colon /\ colon # comma
  /\ sp = 1 => line[3] = Space
  /\ mo = 1 => line[3 + sp] = mode /\ line[4 + sp] = comma
  /\ line[q] = status

CellShape(line, sp, q, lac, ci, comma) ==
  /\ Len(line) = q + 4 + 2 * sp
  /\ line[q + 1] = comma
  /\ sp = 1 => line[q + 2] = Space
  /\ line[q + 2 + sp] = lac /\ line[q + 3 + sp] = comma
  /\ sp = 1 => line[q + 4 + sp] = Space
  /\ line[q + 4 + 2 * sp] = ci

IsItemOf(t, comma) == t # Space /\ t # comma

(* Where the fields begin, up to the status.                               *)
LEMMA StatusPlace ==
  ASSUME NEW line, NEW n \in Nat, n = Len(line), NEW sp \in 0 .. 1, NEW mo \in 0 .. 1, NEW q \in Nat,
         NEW mode, NEW status, NEW comma, NEW colon, Space # comma,
         CregShape(line, sp, mo, q, mode, status, comma, colon),
         IsItemOf(mode, comma), IsItemOf(status, comma),
         NEW g, g[0] = At(0, 0, 0, 0, 0), Turns(g, line, n, comma, colon)
  PROVE  g[q] = IF mo = 0 THEN At(2, q, 0, 0, 0) ELSE At(4, q - 2, q, 0, 0)
<1>1. q = 3 + sp + 2 * mo /\ q <= n
  BY DEF CregShape
<1>2. line[1] # colon /\ line[2] = colon /\ (sp = 1 => line[3] = Space)
  BY DEF CregShape
<1>3. g[1] = At(0, 0, 0, 0, 0)
  <2>1. g[0 + 1] = Turn(g[0], line[0 + 1], 0 + 1, comma, colon)
    BY <1>1 DEF Turns
  <2> QED
    BY <1>2, <2>1, ColonTurn
<1>4. g[2] = At(1, 0, 0, 0, 0)
  <2>1. g[1 + 1] = Turn(g[1], line[1 + 1], 1 + 1, comma, colon)
    BY <1>1 DEF Turns
  <2> QED
    BY <1>2, <1>3, <2>1, ColonTurn
<1>5. g[2 + sp] = At(1, 0, 0, 0, 0)
  BY <1>1, <1>2, <1>4, AfterSpaces, SMTT(60)
<1>6. PICK f \in Nat : f = 3 + sp
  OBVIOUS
<1>7. CASE mo = 0
  <2>1. line[2 + sp + 1] # Space /\ line[2 + sp + 1] # comma /\ 2 + sp + 1 = q
    BY <1>1, <1>7 DEF CregShape, IsItemOf
  <2>2. g[2 + sp + 1] = At(2, 2 + sp + 1, 0, 0, 0)
    BY <1>1, <1>5, <2>1, AfterItem, SMTT(60)
  <2> QED
    BY <1>7, <2>1, <2>2
<1>8. CASE mo = 1
  <2>1. q = f + 2 /\ f < n /\ f + 1 < n
    BY <1>1, <1>6, <1>8
  <2>2. line[f] = mode /\ line[f + 1] = comma /\ line[f + 2] = status
    BY <1>6, <1>8, <2>1 DEF CregShape
  <2>3. g[f] = At(2, f, 0, 0, 0)
    <3>1. PICK k \in Nat : k = 2 + sp /\ k + 1 = f /\ k < n
      BY <1>1, <1>6
    <3>2. line[k + 1] # Space /\ line[k + 1] # comma
      BY <2>2, <3>1 DEF IsItemOf
    <3>3. g[k + 1] = At(2, k + 1, 0, 0, 0)
      BY <1>5, <3>1, <3>2, AfterItem, SMTT(60)
    <3> QED
      BY <3>1, <3>3
  <2>4. g[f + 1] = At(3, f, 0, 0, 0)
    BY <2>1, <2>2, <2>3, AfterComma, SMTT(60)
  <2>5. PICK k \in Nat : k = f + 1 /\ k + 1 = q /\ k < n
    BY <2>1
  <2>6. line[k + 1] # Space /\ line[k + 1] # comma
    BY <2>1, <2>2, <2>5 DEF IsItemOf
  <2>7. g[k + 1] = At(4, f, k + 1, 0, 0)
    BY <2>4, <2>5, <2>6, AfterItem, SMTT(60)
  <2>8. f = q - 2
    BY <2>1
  <2> QED
    BY <1>8, <2>5, <2>7, <2>8
<1> QED
  BY <1>7, <1>8

(* And behind it.                                                          *)
LEMMA CellPlace ==
  ASSUME NEW line, NEW n \in Nat, n = Len(line), NEW sp \in 0 .. 1, NEW q \in Nat,
         NEW lac, NEW ci, NEW comma, NEW colon, Space # comma,
         CellShape(line, sp, q, lac, ci, comma), IsItemOf(lac, comma), IsItemOf(ci, comma),
         NEW g, Turns(g, line, n, comma, colon)
  PROVE  /\ g[q] = At(2, q, 0, 0, 0) => g[n] = At(6, q, q + 2, n, 0)
         /\ \A p \in Nat : g[q] = At(4, p, q, 0, 0) => g[n] = At(8, p, q, q + 2 + sp, n)
<1>1. n = q + 4 + 2 * sp
  BY DEF CellShape
<1>2. /\ line[q + 1] = comma /\ line[q + 2 + sp] = lac /\ line[q + 3 + sp] = comma
      /\ line[n] = ci
      /\ sp = 1 => line[q + 2] = Space /\ line[q + 4 + sp] = Space
  BY <1>1 DEF CellShape
<1>3. PICK k1 \in Nat, k2 \in Nat, k3 \in Nat, k4 \in Nat, k5 \in Nat :
        k1 = q + 1 /\ k2 = k1 + sp /\ k3 = k2 + 1 /\ k4 = k3 + 1 /\ k5 = k4 + sp
  OBVIOUS
<1>4. /\ q < n /\ k1 + sp <= n /\ k2 < n /\ k3 < n /\ k4 + sp <= n /\ k5 < n
      /\ k5 + 1 = n /\ k3 = q + 2 + sp /\ k1 + 1 = q + 2 /\ k2 + 1 = q + 2 + sp
      /\ k3 + 1 = q + 3 + sp /\ k4 + 1 = q + 4 + sp
  BY <1>1, <1>3
<1>5. q < n /\ line[q + 1] = comma
  BY <1>2, <1>4
<1>6. k1 \in Nat /\ k1 + sp <= n /\ (sp = 1 => line[k1 + 1] = Space)
  BY <1>2, <1>4
<1>7. k2 \in Nat /\ k2 < n /\ line[k2 + 1] # Space /\ line[k2 + 1] # comma
  BY <1>2, <1>4 DEF IsItemOf
<1>8. k3 \in Nat /\ k3 < n /\ line[k3 + 1] = comma
  BY <1>2, <1>4
<1>9. k4 \in Nat /\ k4 + sp <= n /\ (sp = 1 => line[k4 + 1] = Space)
  BY <1>2, <1>4
<1>10. k5 \in Nat /\ k5 < n /\ line[k5 + 1] # Space /\ line[k5 + 1] # comma
  BY <1>2, <1>4 DEF IsItemOf
<1>11. ASSUME NEW a \in Nat, NEW b \in Nat, g[k3] = At(4, a, b, 0, 0)
       PROVE  g[n] = At(6, a, b, n, 0)
  <2>1. g[k3 + 1] = At(5, a, b, 0, 0)
    BY <1>8, <1>11, AfterComma, SMTT(60)
  <2>2. g[k4] = At(5, a, b, 0, 0)
    BY <1>3, <2>1
  <2>3. g[k4 + sp] = At(5, a, b, 0, 0)
    BY <1>9, <2>2, AfterSpaces, SMTT(60)
  <2>4. g[k5] = At(5, a, b, 0, 0)
    BY <1>3, <2>3
  <2>5. g[k5 + 1] = At(6, a, b, k5 + 1, 0)
    BY <1>10, <2>4, AfterItem, SMTT(60)
  <2> QED
    BY <1>4, <2>5
<1>12. ASSUME NEW a \in Nat, NEW b \in Nat, NEW c \in Nat, g[k5] = At(7, a, b, c, 0)
       PROVE  g[n] = At(8, a, b, c, n)
  <2>1. g[k5 + 1] = At(8, a, b, c, k5 + 1)
    BY <1>10, <1>12, AfterLast, SMTT(60)
  <2> QED
    BY <1>4, <2>1
<1>13. ASSUME g[q] = At(2, q, 0, 0, 0)
       PROVE  g[n] = At(6, q, q + 2, n, 0)
  <2>1. g[q + 1] = At(3, q, 0, 0, 0)
    BY <1>5, <1>13, AfterComma, SMTT(60)
  <2>2. g[k1] = At(3, q, 0, 0, 0)
    BY <1>3, <2>1
  <2>3. PICK b \in Nat : b = q + 2
    OBVIOUS
  <2>4. CASE sp = 0
    <3>1. k2 = k1 /\ k2 + 1 = b
      BY <1>3, <2>3, <2>4
    <3>2. g[k2] = At(3, q, 0, 0, 0)
      BY <2>2, <3>1
    <3>3. g[k2 + 1] = At(4, q, k2 + 1, 0, 0)
      BY <1>7, <3>2, AfterItem, SMTT(60)
    <3>4. g[k3] = At(4, q, b, 0, 0)
      BY <1>3, <3>1, <3>3
    <3> QED
      BY <1>11, <2>3, <3>4
  <2>5. CASE sp = 1
    <3>1. g[k1 + sp] = At(4, q, k1 + 1, 0, 0)
      BY <1>6, <2>2, <2>5, AfterSpaces, SMTT(60)
    <3>2. g[k2] = At(4, q, b, 0, 0)
      BY <1>3, <1>4, <2>3, <3>1
    <3>3. g[k2 + 1] = At(4, q, b, 0, 0)
      BY <1>7, <3>2, AfterItem, SMTT(60)
    <3>4. g[k3] = At(4, q, b, 0, 0)
      BY <1>3, <3>3
    <3> QED
      BY <1>11, <2>3, <3>4
  <2> QED
    BY <2>4, <2>5
<1>14. ASSUME NEW p \in Nat, g[q] = At(4, p, q, 0, 0)
       PROVE  g[n] = At(8, p, q, q + 2 + sp, n)
  <2>1. g[q + 1] = At(5, p, q, 0, 0)
    BY <1>5, <1>14, AfterComma, SMTT(60)
  <2>2. g[k1] = At(5, p, q, 0, 0)
    BY <1>3, <2>1
  <2>3. g[k1 + sp] = At(5, p, q, 0, 0)
    BY <1>6, <2>2, AfterSpaces, SMTT(60)
  <2>4. g[k2] = At(5, p, q, 0, 0)
    BY <1>3, <2>3
  <2>5. g[k2 + 1] = At(6, p, q, k2 + 1, 0)
    BY <1>7, <2>4, AfterItem, SMTT(60)
  <2>6. g[k3] = At(6, p, q, k3, 0)
    BY <1>3, <2>5
  <2>7. g[k3 + 1] = At(7, p, q, k3, 0)
    BY <1>8, <2>6, AfterComma, SMTT(60)
  <2>8. PICK c \in Nat : c = k3
    BY <1>8
  <2>9. g[k4] = At(7, p, q, c, 0)
    BY <1>3, <2>7, <2>8
  <2>10. g[k4 + sp] = At(7, p, q, c, 0)
    BY <1>9, <2>8, <2>9, AfterSpaces, SMTT(60)
  <2>11. g[k5] = At(7, p, q, c, 0)
    BY <1>3, <2>10
  <2>12. g[n] = At(8, p, q, c, n)
    BY <1>12, <2>8, <2>11
  <2> QED
    BY <1>4, <2>8, <2>12
<1> QED
  BY <1>13, <1>14

(* The string that begins at i, which ends before a comma or with the line. *)
StringTo(line, i, comma) ==
  LET rest == SubSeq(line, i, Len(line))
      end  == FirstOf(rest, comma)
  IN  IF end = 0 THEN rest ELSE SubSeq(rest, 1, end - 1)

(* It is the string of at_parse_creg.                                      *)
LEMMA StringIs ==
  ASSUME NEW line, NEW i
  PROVE  StringAt(line, i) = StringTo(line, i, ",")
BY DEF StringAt, StringTo

(* A part of a line, element by element.                                   *)
PartOf(s, line, i, m) ==
  Len(s) = m - i + 1 /\ \A j \in 1 .. m - i + 1 : s[j] = line[i + j - 1]

(* Such is the string when no comma is in the part and one is behind it.   *)
LEMMA StringFound ==
  ASSUME NEW T, NEW line \in Seq(T), NEW comma, NEW i \in 1 .. Len(line), NEW m \in i .. Len(line),
         \A j \in i .. m : line[j] # comma, m = Len(line) \/ line[m + 1] = comma
  PROVE  StringTo(line, i, comma) \in Seq(T) /\ PartOf(StringTo(line, i, comma), line, i, m)
<1>1. PICK n \in Nat : n = Len(line) /\ i \in 1 .. n /\ m \in i .. n
  OBVIOUS
<1>2. PICK rest \in Seq(T) : /\ rest = SubSeq(line, i, Len(line))
                             /\ Len(rest) = n - i + 1
                             /\ \A j \in 1 .. n - i + 1 : rest[j] = line[i + j - 1]
  <2>1. SubSeq(line, i, n) \in Seq(T) /\ Len(SubSeq(line, i, n)) = n - i + 1
        /\ \A j \in 1 .. n - i + 1 : SubSeq(line, i, n)[j] = line[i + j - 1]
    <3>1. i \in 1 .. Len(line) /\ n \in i .. Len(line)
      BY <1>1
    <3> QED
      BY <3>1, Slice
  <2> QED
    BY <1>1, <2>1
<1>3. PICK k \in Nat : k = m - i + 1 /\ k >= 1 /\ k <= n - i + 1
  BY <1>1
<1>4. \A j \in 1 .. k : rest[j] # comma
  <2>1. \A j \in 1 .. k : i + j - 1 \in i .. m /\ j \in 1 .. n - i + 1
    BY <1>1, <1>3
  <2> QED
    BY <1>2, <2>1
<1>5. CASE m = n
  <2>1. \A j \in 1 .. Len(rest) : rest[j] # comma
    BY <1>1, <1>2, <1>3, <1>4, <1>5
  <2>2. FirstOf(rest, comma) = 0
    BY <2>1 DEF FirstOf, SelectInSeq
  <2>3. StringTo(line, i, comma) = rest
    BY <1>2, <2>2 DEF StringTo
  <2> QED
    BY <1>2, <1>5, <2>3 DEF PartOf
<1>6. CASE m < n
  <2>1. rest[k + 1] = comma /\ k + 1 \in 1 .. Len(rest)
    <3>1. i + (k + 1) - 1 = m + 1 /\ k + 1 \in 1 .. n - i + 1
      BY <1>1, <1>3, <1>6
    <3> QED
      BY <1>1, <1>2, <1>6, <3>1
  <2>2. \A j \in 1 .. (k + 1) - 1 : rest[j] # comma
    BY <1>3, <1>4
  <2>3. FirstOf(rest, comma) = k + 1
    <3>1. Len(rest) \in Nat
      OBVIOUS
    <3> QED
      BY <2>1, <2>2, <3>1, FirstFound
  <2>4. StringTo(line, i, comma) = SubSeq(rest, 1, k)
    <3>1. k + 1 # 0 /\ k + 1 - 1 = k
      BY <1>3
    <3>2. rest = SubSeq(line, i, Len(line))
      BY <1>2
    <3>3. StringTo(line, i, comma)
            = IF FirstOf(rest, comma) = 0 THEN rest ELSE SubSeq(rest, 1, FirstOf(rest, comma) - 1)
      BY <3>2 DEF StringTo
    <3> QED
      BY <2>3, <3>1, <3>3
  <2>5. /\ SubSeq(rest, 1, k) \in Seq(T) /\ Len(SubSeq(rest, 1, k)) = k - 1 + 1
        /\ \A j \in 1 .. k - 1 + 1 : SubSeq(rest, 1, k)[j] = rest[1 + j - 1]
    <3>1. 1 \in 1 .. Len(rest) /\ k \in 1 .. Len(rest)
      BY <1>2, <1>3
    <3> QED
      BY <3>1, Slice
  <2>6. \A j \in 1 .. k : SubSeq(rest, 1, k)[j] = line[i + j - 1]
    <3>1. \A j \in 1 .. k : j \in 1 .. k - 1 + 1 /\ 1 + j - 1 = j /\ j \in 1 .. n - i + 1
      BY <1>3
    <3> QED
      BY <1>2, <2>5, <3>1
  <2>7. Len(SubSeq(rest, 1, k)) = k
    BY <2>5
  <2> QED
    BY <1>3, <2>4, <2>5, <2>6, <2>7 DEF PartOf
<1> QED
  BY <1>1, <1>5, <1>6

(* A string of one item, behind a space or none.                           *)
LEMMA ItemString ==
  ASSUME NEW T, NEW line \in Seq(T), NEW i \in 1 .. Len(line), NEW sp \in 0 .. 1,
         i + sp <= Len(line), NEW t \in T, t # Space, line[i + sp] = t,
         sp = 1 => line[i] = Space,
         NEW s \in Seq(T), PartOf(s, line, i, i + sp)
  PROVE  trimLeft(s) = <<t>> /\ trimSpaces(s) = <<t>>
<1>1. i \in Nat /\ Len(s) = sp + 1 /\ s[sp + 1] = t /\ (sp = 1 => s[1] = Space)
  <2>1. i + sp - i + 1 = sp + 1 /\ i + (sp + 1) - 1 = i + sp /\ i + 1 - 1 = i
        /\ sp + 1 \in 1 .. sp + 1 /\ 1 \in 1 .. sp + 1
    OBVIOUS
  <2> QED
    BY <2>1 DEF PartOf
<1>2. PICK n \in Nat : n = sp + 1 /\ n = Len(s) /\ n \in 1 .. Len(s) /\ Len(s) \in Nat
  BY <1>1
<1>3. \A j \in 1 .. n - 1 : s[j] = Space
  BY <1>1, <1>2
<1>4. s[n] # Space
  BY <1>1, <1>2
<1>5. trimLeft(s) = SubSeq(s, n, Len(s))
  BY <1>2, <1>3, <1>4, LeftTrimmed
<1>6. SubSeq(s, n, Len(s)) = <<t>>
  <2>1. SubSeq(s, n, n) \in Seq(T) /\ Len(SubSeq(s, n, n)) = n - n + 1
        /\ \A j \in 1 .. n - n + 1 : SubSeq(s, n, n)[j] = s[n + j - 1]
    <3>1. n \in 1 .. Len(s) /\ n \in n .. Len(s)
      BY <1>2
    <3> QED
      BY <3>1, Slice
  <2>2. n - n + 1 = 1 /\ 1 \in 1 .. 1 /\ n + 1 - 1 = n
    OBVIOUS
  <2>3. Len(SubSeq(s, n, n)) = 1 /\ SubSeq(s, n, n)[1] = s[n]
    BY <2>1, <2>2
  <2>4. s[n] = t
    BY <1>1, <1>2
  <2>5. PICK r \in Seq(T) : r = SubSeq(s, n, n)
    BY <2>1
  <2>6. Len(r) = 1 /\ r[1] = t
    BY <2>3, <2>4, <2>5
  <2>7. r = <<t>>
    BY <2>6
  <2> QED
    BY <1>2, <2>5, <2>7
<1>7. trimSpaces(s) = trimLeft(s)
  BY <1>2, <1>4, BothTrimmed
<1> QED
  BY <1>5, <1>6, <1>7

(* Which fields are given, by where they begin.                            *)
Given(x) == {f \in 1 .. 4 : x.p[f] # 0}

(* Its places are those named.                                             *)
LEMMA PlacesAre ==
  ASSUME NEW a, NEW b, NEW c, NEW d
  PROVE  /\ Places(a, b, c, d)[1] = a /\ Places(a, b, c, d)[2] = b
         /\ Places(a, b, c, d)[3] = c /\ Places(a, b, c, d)[4] = d
BY DEF Places

(* So are those of a state of the loop.                                    *)
LEMMA AtPlaces ==
  ASSUME NEW st, NEW a, NEW b, NEW c, NEW d
  PROVE  At(st, a, b, c, d).state = st /\ At(st, a, b, c, d).p = Places(a, b, c, d)
BY DEF At

(* The fields that were found are those whose place is not 0,              *)
LEMMA GivenAre ==
  ASSUME NEW st, NEW a \in Nat \ {0}, NEW b \in Nat \ {0}, NEW c \in Nat \ {0}
  PROVE  /\ Given(At(st, a, 0, 0, 0)) = {1}
         /\ Given(At(st, a, b, 0, 0)) = {1, 2}
         /\ Given(At(st, a, b, c, 0)) = {1, 2, 3}
<1> DEFINE G(p) == {f \in 1 .. 4 : p[f] # 0}
<1>1. ASSUME NEW x \in Nat, NEW y \in Nat, NEW z \in Nat
      PROVE  Given(At(st, a, x, y, z)) = G(Places(a, x, y, z))
  BY DEF Given, At
<1>2. ASSUME NEW p, p[1] # 0
      PROVE  /\ p[2] = 0 /\ p[3] = 0 /\ p[4] = 0 => G(p) = {1}
             /\ p[2] # 0 /\ p[3] = 0 /\ p[4] = 0 => G(p) = {1, 2}
             /\ p[2] # 0 /\ p[3] # 0 /\ p[4] = 0 => G(p) = {1, 2, 3}
  <2>1. 1 .. 4 = {1, 2, 3, 4}
    OBVIOUS
  <2>2. G(p) = {f \in {1, 2, 3, 4} : p[f] # 0}
    BY <2>1
  <2> QED
    BY <1>2, <2>2
<1> HIDE DEF G
<1>3. Given(At(st, a, 0, 0, 0)) = {1}
  <2>1. Given(At(st, a, 0, 0, 0)) = G(Places(a, 0, 0, 0))
    BY <1>1
  <2>2. /\ Places(a, 0, 0, 0)[1] # 0 /\ Places(a, 0, 0, 0)[2] = 0
        /\ Places(a, 0, 0, 0)[3] = 0 /\ Places(a, 0, 0, 0)[4] = 0
    BY PlacesAre
  <2> QED
    BY <1>2, <2>1, <2>2
<1>4. Given(At(st, a, b, 0, 0)) = {1, 2}
  <2>1. Given(At(st, a, b, 0, 0)) = G(Places(a, b, 0, 0))
    BY <1>1
  <2>2. /\ Places(a, b, 0, 0)[1] # 0 /\ Places(a, b, 0, 0)[2] # 0
        /\ Places(a, b, 0, 0)[3] = 0 /\ Places(a, b, 0, 0)[4] = 0
    BY PlacesAre
  <2> QED
    BY <1>2, <2>1, <2>2
<1>5. Given(At(st, a, b, c, 0)) = {1, 2, 3}
  <2>1. Given(At(st, a, b, c, 0)) = G(Places(a, b, c, 0))
    BY <1>1
  <2>2. /\ Places(a, b, c, 0)[1] # 0 /\ Places(a, b, c, 0)[2] # 0
        /\ Places(a, b, c, 0)[3] # 0 /\ Places(a, b, c, 0)[4] = 0
    BY PlacesAre
  <2> QED
    BY <1>2, <2>1, <2>2
<1> QED
  BY <1>3, <1>4, <1>5

(* in each of the forms of the line.                                       *)
LEMMA GivenAll ==
  ASSUME NEW st, NEW a \in Nat \ {0}, NEW b \in Nat \ {0}, NEW c \in Nat \ {0},
         NEW d \in Nat \ {0}
  PROVE  Given(At(st, a, b, c, d)) = {1, 2, 3, 4}
<1>1. PICK p : p = Places(a, b, c, d)
  OBVIOUS
<1>2. p[1] # 0 /\ p[2] # 0 /\ p[3] # 0 /\ p[4] # 0
  BY <1>1, PlacesAre
<1>3. 1 .. 4 = {1, 2, 3, 4}
  OBVIOUS
<1>4. Given(At(st, a, b, c, d)) = {f \in {1, 2, 3, 4} : p[f] # 0}
  BY <1>1, <1>3 DEF Given, At
<1> QED
  BY <1>2, <1>4

(* The status is told from the mode before it by the fields that are given. *)
CregAnswer(status, lac, ci) ==
  [ok |-> TRUE, status |-> status, registered |-> status \in {"1", "5"}, lac |-> lac, ci |-> ci]

(* The answer, from the scan of the line and the fields given.             *)
AnswerOf(line, scan, given) ==
  LET p(f)   == IF f \in given THEN StringAt(line, scan.p[f]) ELSE <<>>
      status == strtol(p(StatusField(given)))
      cell   == CASE given = {1, 2, 3}    -> <<p(2), p(3)>>
                  [] given = {1, 2, 3, 4} -> <<p(3), p(4)>>
                  [] OTHER                -> <<<<>>, <<>>>>
  IN  IF scan.state < 2 THEN NoCreg ELSE CregAnswer(status, cell[1], cell[2])

FieldsOf(line, a, b, c, d) ==
  /\ CregScan(line) = At(2, a, 0, 0, 0) =>
       at_parse_creg(line) = CregAnswer(strtol(StringAt(line, a)), <<>>, <<>>)
  /\ CregScan(line) = At(4, a, b, 0, 0) =>
       at_parse_creg(line) = CregAnswer(strtol(StringAt(line, b)), <<>>, <<>>)
  /\ CregScan(line) = At(6, a, b, c, 0) =>
       at_parse_creg(line)
         = CregAnswer(strtol(StringAt(line, a)), StringAt(line, b), StringAt(line, c))
  /\ CregScan(line) = At(8, a, b, c, d) =>
       at_parse_creg(line)
         = CregAnswer(strtol(StringAt(line, b)), StringAt(line, c), StringAt(line, d))

(* at_parse_creg takes the fields of each form for what they are.          *)
LEMMA FieldsRead ==
  ASSUME NEW line, NEW a \in Nat \ {0}, NEW b \in Nat \ {0}, NEW c \in Nat \ {0}, NEW d \in Nat \ {0}
  PROVE  FieldsOf(line, a, b, c, d)
<1>1. /\ 1 \in {1} /\ {1} \notin {{1, 2}, {1, 2, 3, 4}} /\ {1} # {1, 2, 3}
      /\ 2 \in {1, 2} /\ {1, 2} # {1, 2, 3} /\ {1, 2} # {1, 2, 3, 4} /\ 1 \in {1, 2, 3}
      /\ {1, 2, 3} \notin {{1, 2}, {1, 2, 3, 4}} /\ {1, 2, 3} # {1, 2, 3, 4}
  OBVIOUS
<1>2. PICK scan : scan = CregScan(line)
  OBVIOUS
<1>3. at_parse_creg(line) = AnswerOf(line, scan, Given(scan))
  BY <1>2 DEF at_parse_creg, AnswerOf, Given, CregAnswer
<1>4. /\ StatusField({1}) = 1 /\ StatusField({1, 2}) = 2 /\ StatusField({1, 2, 3}) = 1
      /\ StatusField({1, 2, 3, 4}) = 2
  BY <1>1 DEF StatusField
<1>5. ASSUME scan = At(2, a, 0, 0, 0)
      PROVE  at_parse_creg(line)
               = CregAnswer(strtol(StringAt(line, a)), <<>>, <<>>)
  <2>1. Given(scan) = {1}
    BY <1>5, GivenAre
  <2>2. scan.state = 2 /\ scan.p[1] = a
    BY <1>5, AtPlaces, PlacesAre
  <2>3. AnswerOf(line, scan, {1})
          = CregAnswer(strtol(StringAt(line, a)), <<>>, <<>>)
    BY <1>1, <1>4, <2>2 DEF AnswerOf
  <2> QED
    BY <1>3, <2>1, <2>3
<1>6. ASSUME scan = At(4, a, b, 0, 0)
      PROVE  at_parse_creg(line)
               = CregAnswer(strtol(StringAt(line, b)), <<>>, <<>>)
  <2>1. Given(scan) = {1, 2}
    BY <1>6, GivenAre
  <2>2. scan.state = 4 /\ scan.p[2] = b
    BY <1>6, AtPlaces, PlacesAre
  <2>3. AnswerOf(line, scan, {1, 2})
          = CregAnswer(strtol(StringAt(line, b)), <<>>, <<>>)
    BY <1>1, <1>4, <2>2 DEF AnswerOf
  <2> QED
    BY <1>3, <2>1, <2>3
<1>7. ASSUME scan = At(6, a, b, c, 0)
      PROVE  at_parse_creg(line)
               = CregAnswer(strtol(StringAt(line, a)), StringAt(line, b), StringAt(line, c))
  <2>1. Given(scan) = {1, 2, 3}
    BY <1>7, GivenAre
  <2>2. scan.state = 6 /\ scan.p[1] = a /\ scan.p[2] = b /\ scan.p[3] = c
    BY <1>7, AtPlaces, PlacesAre
  <2>3. AnswerOf(line, scan, {1, 2, 3})
          = CregAnswer(strtol(StringAt(line, a)), StringAt(line, b), StringAt(line, c))
    BY <1>1, <1>4, <2>2 DEF AnswerOf
  <2> QED
    BY <1>3, <2>1, <2>3
<1>8. ASSUME scan = At(8, a, b, c, d)
      PROVE  at_parse_creg(line)
               = CregAnswer(strtol(StringAt(line, b)), StringAt(line, c), StringAt(line, d))
  <2>1. Given(scan) = {1, 2, 3, 4}
    <3>1. Given(At(8, a, b, c, d)) = {1, 2, 3, 4}
      BY GivenAll
    <3> QED
      BY <1>8, <3>1
  <2>2. scan.state = 8 /\ scan.p[2] = b /\ scan.p[3] = c /\ scan.p[4] = d
    BY <1>8, AtPlaces, PlacesAre
  <2>3. AnswerOf(line, scan, {1, 2, 3, 4})
          = CregAnswer(strtol(StringAt(line, b)), StringAt(line, c), StringAt(line, d))
    BY <1>1, <1>4, <2>2 DEF AnswerOf
  <2> QED
    BY <1>3, <2>1, <2>3
<1> QED
  BY <1>2, <1>5, <1>6, <1>7, <1>8 DEF FieldsOf

(* A string of one number is that number.                                  *)
LEMMA NumberOf ==
  ASSUME NEW s, NEW t, trimSpaces(s) = <<t>>, t \in Numbers
  PROVE  strtol(s) = t
<1>1. PICK r : r = <<t>>
  OBVIOUS
<1>2. r # <<>> /\ r[1] = t
  BY <1>1
<1> QED
  BY <1>1, <1>2 DEF strtol

(* The item at m, with a space before it or not, up to a comma or the end. *)
LEMMA FieldRead ==
  ASSUME NEW T, NEW line \in Seq(T), NEW comma, NEW i \in 1 .. Len(line), NEW sp \in 0 .. 1,
         i + sp <= Len(line), NEW t, line[i + sp] = t, IsItemOf(t, comma), Space # comma,
         sp = 1 => line[i] = Space,
         i + sp = Len(line) \/ line[i + sp + 1] = comma
  PROVE  /\ trimLeft(StringTo(line, i, comma)) = <<t>>
         /\ trimSpaces(StringTo(line, i, comma)) = <<t>>
<1>1. PICK m \in Nat : m = i + sp /\ m \in i .. Len(line) /\ m \in 1 .. Len(line)
  OBVIOUS
<1>2. t # Space /\ t # comma
  BY DEF IsItemOf
<1>3. \A j \in i .. m : line[j] # comma
  <2>1. \A j \in i .. m : j = m \/ (j = i /\ sp = 1)
    BY <1>1
  <2> QED
    BY <1>1, <1>2, <2>1
<1>4. m = Len(line) \/ line[m + 1] = comma
  BY <1>1
<1>5. StringTo(line, i, comma) \in Seq(T) /\ PartOf(StringTo(line, i, comma), line, i, m)
  BY <1>1, <1>3, <1>4, StringFound
<1>6. PICK s \in Seq(T) : s = StringTo(line, i, comma) /\ PartOf(s, line, i, i + sp)
  BY <1>1, <1>5
<1>7. t \in T
  BY <1>1, ElementOfSeq
<1>8. trimLeft(s) = <<t>> /\ trimSpaces(s) = <<t>>
  BY <1>2, <1>6, <1>7, ItemString
<1> QED
  BY <1>6, <1>8

(* What CregRead asks of a line.                                           *)
CregReads(line, status, lac, ci) ==
  LET read == at_parse_creg(line)
  IN  /\ read.ok /\ read.status = status
      /\ read.registered = (status \in {"1", "5"})
      /\ <<trimLeft(read.lac), trimLeft(read.ci)>> = <<lac, ci>>

(* An answer of the right parts is read so.                                *)
LEMMA AnswerReads ==
  ASSUME NEW line, NEW s, NEW l, NEW c, NEW status, NEW lac, NEW ci,
         at_parse_creg(line) = CregAnswer(s, l, c), s = status,
         trimLeft(l) = lac, trimLeft(c) = ci
  PROVE  CregReads(line, status, lac, ci)
BY DEF CregReads, CregAnswer

(* Nothing is trimmed of nothing.                                          *)
LEMMA NothingTrimmed == trimLeft(<<>>) = <<>>
BY DEF trimLeft, SelectInSeq

(* The loop, with names for comma and colon.                               *)
LEMMA Scanned ==
  ASSUME NEW line, NEW n \in Nat, DOMAIN line = 1 .. n
  PROVE  \E g : /\ g[0] = At(0, 0, 0, 0, 0) /\ Turns(g, line, n, ",", ":")
                /\ CregScan(line) = g[n]
<1>1. PICK g : /\ g[0] = At(0, 0, 0, 0, 0)
               /\ \A k \in 0 .. n - 1 : g[k + 1] = CregStep(line, g[k], k + 1)
               /\ CregScan(line) = g[n]
  BY CregFold
<1>2. \A k \in 0 .. n - 1 : g[k + 1] = Turn(g[k], line[k + 1], k + 1, ",", ":")
  BY <1>1, TurnIs
<1>3. Turns(g, line, n, ",", ":")
  BY <1>2 DEF Turns
<1> QED
  BY <1>1, <1>3

(* What at_parse_creg does to a line, with names for comma and colon.      *)
TakenBy(line, comma, colon) ==
  /\ \E g : /\ g[0] = At(0, 0, 0, 0, 0) /\ Turns(g, line, Len(line), comma, colon)
            /\ CregScan(line) = g[Len(line)]
  /\ \A i : StringAt(line, i) = StringTo(line, i, comma)

(* So it does to every line.                                               *)
LEMMA LineTaken ==
  ASSUME NEW T, NEW line \in Seq(T)
  PROVE  TakenBy(line, ",", ":")
<1>1. Len(line) \in Nat /\ DOMAIN line = 1 .. Len(line)
  OBVIOUS
<1>2. \E g : /\ g[0] = At(0, 0, 0, 0, 0) /\ Turns(g, line, Len(line), ",", ":")
             /\ CregScan(line) = g[Len(line)]
  BY <1>1, Scanned
<1>3. \A i : StringAt(line, i) = StringTo(line, i, ",")
  BY StringIs
<1> QED
  BY <1>2, <1>3 DEF TakenBy

(* The status is read when nothing is behind it,                           *)
LEMMA StatusRead ==
  ASSUME NEW T, NEW line \in Seq(T), NEW sp \in 0 .. 1, NEW mo \in 0 .. 1, NEW q \in Nat,
         NEW mode, NEW status, NEW comma, NEW colon, Space # comma,
         TakenBy(line, comma, colon), CregShape(line, sp, mo, q, mode, status, comma, colon),
         IsItemOf(mode, comma), IsItemOf(status, comma), status \in Numbers, Len(line) = q
  PROVE  CregReads(line, status, <<>>, <<>>)
<1>1. PICK n \in Nat : n = Len(line)
  OBVIOUS
<1>2. PICK g : g[0] = At(0, 0, 0, 0, 0) /\ Turns(g, line, n, comma, colon) /\ CregScan(line) = g[n]
  BY <1>1 DEF TakenBy
<1>3. q = 3 + sp + 2 * mo /\ line[q] = status
  BY DEF CregShape
<1>4. g[q] = IF mo = 0 THEN At(2, q, 0, 0, 0) ELSE At(4, q - 2, q, 0, 0)
  BY <1>1, <1>2, StatusPlace
<1>5. PICK s : s = StringAt(line, q)
  OBVIOUS
<1>6. strtol(s) = status
  <2>1. s = StringTo(line, q, comma)
    BY <1>5 DEF TakenBy
  <2>2. q \in 1 .. Len(line) /\ q + 0 = q /\ 0 \in 0 .. 1
    BY <1>3
  <2>3. trimSpaces(StringTo(line, q, comma)) = <<status>>
    BY <1>3, <2>2, FieldRead
  <2> QED
    BY <2>1, <2>3, NumberOf
<1>7. at_parse_creg(line) = CregAnswer(strtol(s), <<>>, <<>>)
  <2>1. CASE mo = 0
    <3>1. CregScan(line) = At(2, q, 0, 0, 0) /\ q \in Nat \ {0} /\ 1 \in Nat \ {0}
      BY <1>1, <1>2, <1>3, <1>4, <2>1
    <3>2. FieldsOf(line, q, 1, 1, 1)
      BY <3>1, FieldsRead
    <3> QED
      BY <1>5, <3>1, <3>2 DEF FieldsOf
  <2>2. CASE mo = 1
    <3>1. PICK p \in Nat \ {0} : p = q - 2
      BY <1>3, <2>2
    <3>2. CregScan(line) = At(4, p, q, 0, 0) /\ q \in Nat \ {0} /\ 1 \in Nat \ {0}
      BY <1>1, <1>2, <1>3, <1>4, <2>2, <3>1
    <3>3. FieldsOf(line, p, q, 1, 1)
      BY <3>1, <3>2, FieldsRead
    <3> QED
      BY <1>5, <3>2, <3>3 DEF FieldsOf
  <2> QED
    BY <2>1, <2>2
<1> QED
  BY <1>6, <1>7, NothingTrimmed, AnswerReads

(* and so are status and cell.                                             *)
LEMMA CellRead ==
  ASSUME NEW T, NEW line \in Seq(T), NEW sp \in 0 .. 1, NEW mo \in 0 .. 1, NEW q \in Nat,
         NEW mode, NEW status, NEW lac, NEW ci, NEW comma, NEW colon, Space # comma,
         TakenBy(line, comma, colon), CregShape(line, sp, mo, q, mode, status, comma, colon),
         CellShape(line, sp, q, lac, ci, comma),
         IsItemOf(mode, comma), IsItemOf(status, comma), status \in Numbers,
         IsItemOf(lac, comma), IsItemOf(ci, comma)
  PROVE  CregReads(line, status, <<lac>>, <<ci>>)
<1>1. PICK n \in Nat : n = Len(line)
  OBVIOUS
<1>2. PICK g : g[0] = At(0, 0, 0, 0, 0) /\ Turns(g, line, n, comma, colon) /\ CregScan(line) = g[n]
  BY <1>1 DEF TakenBy
<1>3. q = 3 + sp + 2 * mo /\ line[q] = status
  BY DEF CregShape
<1>4. n = q + 4 + 2 * sp
  BY <1>1 DEF CellShape
<1>5. g[q] = IF mo = 0 THEN At(2, q, 0, 0, 0) ELSE At(4, q - 2, q, 0, 0)
  BY <1>1, <1>2, StatusPlace
<1>6. PICK s, c : s = StringAt(line, q) /\ c = StringAt(line, n)
  OBVIOUS
<1>7. strtol(s) = status
  <2>1. s = StringTo(line, q, comma)
    BY <1>6 DEF TakenBy
  <2>2. q \in 1 .. Len(line) /\ q + 0 = q /\ 0 \in 0 .. 1 /\ q <= Len(line)
    BY <1>1, <1>3, <1>4
  <2>3. line[q + 0 + 1] = comma
    BY <2>2 DEF CellShape
  <2>4. trimSpaces(StringTo(line, q, comma)) = <<status>>
    BY <1>3, <2>2, <2>3, FieldRead
  <2> QED
    BY <2>1, <2>4, NumberOf
<1>8. trimLeft(c) = <<ci>>
  <2>1. c = StringTo(line, n, comma)
    BY <1>6 DEF TakenBy
  <2>2. n \in 1 .. Len(line) /\ n + 0 = n /\ 0 \in 0 .. 1 /\ n = Len(line)
    BY <1>1, <1>4
  <2>3. line[n] = ci
    BY <1>4 DEF CellShape
  <2>4. trimLeft(StringTo(line, n, comma)) = <<ci>>
    BY <2>2, <2>3, FieldRead
  <2> QED
    BY <2>1, <2>4
<1>9. line[q + 2 + sp] = lac /\ line[q + 2 + sp + 1] = comma /\ (sp = 1 => line[q + 2] = Space)
  <2>1. q + 2 + sp + 1 = q + 3 + sp
    OBVIOUS
  <2> QED
    BY <2>1 DEF CellShape
<1>10. CASE mo = 0
  <2>1. PICK b \in Nat \ {0} : b = q + 2
    BY <1>3
  <2>2. CregScan(line) = At(6, q, b, n, 0)
    <3>1. g[q] = At(2, q, 0, 0, 0)
      BY <1>5, <1>10
    <3>2. g[n] = At(6, q, q + 2, n, 0)
      BY <1>1, <1>2, <3>1, CellPlace
    <3> QED
      BY <1>2, <2>1, <3>2
  <2>3. trimLeft(StringAt(line, b)) = <<lac>>
    <3>1. b \in 1 .. Len(line) /\ b + sp <= Len(line)
      BY <1>1, <1>4, <2>1
    <3>2. line[b + sp] = lac /\ line[b + sp + 1] = comma /\ (sp = 1 => line[b] = Space)
      BY <1>9, <2>1
    <3>3. trimLeft(StringTo(line, b, comma)) = <<lac>>
      BY <3>1, <3>2, FieldRead
    <3> QED
      BY <3>3 DEF TakenBy
  <2>4. at_parse_creg(line) = CregAnswer(strtol(s), StringAt(line, b), c)
    <3>1. q \in Nat \ {0} /\ n \in Nat \ {0} /\ 1 \in Nat \ {0}
      BY <1>3, <1>4
    <3>2. FieldsOf(line, q, b, n, 1)
      BY <2>1, <3>1, FieldsRead
    <3> QED
      BY <1>6, <2>2, <3>2 DEF FieldsOf
  <2> QED
    BY <1>7, <1>8, <2>3, <2>4, AnswerReads
<1>11. CASE mo = 1
  <2>1. PICK p \in Nat \ {0}, b \in Nat \ {0} : p = q - 2 /\ b = q + 2 + sp
    BY <1>3, <1>11
  <2>2. CregScan(line) = At(8, p, q, b, n)
    <3>1. g[q] = At(4, p, q, 0, 0)
      BY <1>5, <1>11, <2>1
    <3>2. p \in Nat
      OBVIOUS
    <3>3. g[n] = At(8, p, q, q + 2 + sp, n)
      BY <1>1, <1>2, <3>1, <3>2, CellPlace
    <3> QED
      BY <1>2, <2>1, <3>3
  <2>3. trimLeft(StringAt(line, b)) = <<lac>>
    <3>1. b \in 1 .. Len(line) /\ b + 0 = b /\ b <= Len(line) /\ 0 \in 0 .. 1
      BY <1>1, <1>4, <2>1
    <3>2. line[b + 0] = lac /\ line[b + 0 + 1] = comma
      BY <1>9, <2>1
    <3>3. trimLeft(StringTo(line, b, comma)) = <<lac>>
      BY <3>1, <3>2, FieldRead
    <3> QED
      BY <3>3 DEF TakenBy
  <2>4. at_parse_creg(line) = CregAnswer(strtol(s), StringAt(line, b), c)
    <3>1. q \in Nat \ {0} /\ n \in Nat \ {0}
      BY <1>3, <1>4
    <3>2. FieldsOf(line, p, q, b, n)
      BY <2>1, <3>1, FieldsRead
    <3> QED
      BY <1>6, <2>2, <3>2 DEF FieldsOf
  <2> QED
    BY <1>7, <1>8, <2>3, <2>4, AnswerReads
<1> QED
  BY <1>10, <1>11

(* Two parts of a line, and where their elements stand.                    *)
JoinedOf(s, u, v) ==
  /\ Len(s) = Len(u) + Len(v)
  /\ \A i \in 1 .. Len(u) : s[i] = u[i]
  /\ \A i \in 1 .. Len(v) : s[Len(u) + i] = v[i]

(* Joined they stand one behind the other.                                 *)
LEMMA Joining ==
  ASSUME NEW T, NEW u \in Seq(T), NEW v \in Seq(T)
  PROVE  u \o v \in Seq(T) /\ JoinedOf(u \o v, u, v)
BY ConcatProperties DEF JoinedOf

(* Short parts, by their elements.                                         *)
IsOne(s, x)     == Len(s) = 1 /\ s[1] = x
IsPair(s, x, y) == Len(s) = 2 /\ s[1] = x /\ s[2] = y

(* It has that one element.                                                *)
LEMMA One ==
  ASSUME NEW T, NEW x \in T
  PROVE  <<x>> \in Seq(T) /\ IsOne(<<x>>, x)
BY DEF IsOne

(* Likewise with two.                                                      *)
LEMMA Pair ==
  ASSUME NEW T, NEW x \in T, NEW y \in T
  PROVE  <<x, y>> \in Seq(T) /\ IsPair(<<x, y>>, x, y)
BY DEF IsPair

(* A space or none, and a mode with its comma or none.                     *)
IsSpaces(space, sp) == Len(space) = sp /\ (sp = 1 => space[1] = Space)
IsMode(pre, mo, mode, comma) ==
  Len(pre) = 2 * mo /\ (mo = 1 => pre[1] = mode /\ pre[2] = comma)

HeadShape(h, sp, mo, a, b, mode, status, comma) ==
  /\ Len(h) = 3 + sp + 2 * mo
  /\ h[1] = a /\ h[2] = b
  /\ sp = 1 => h[3] = Space
  /\ mo = 1 => h[3 + sp] = mode /\ h[4 + sp] = comma
  /\ h[3 + sp + 2 * mo] = status

(* What stands before the cell has that shape.                             *)
LEMMA HeadShaped ==
  ASSUME NEW T, NEW space \in Seq(T), NEW sp \in 0 .. 1, IsSpaces(space, sp),
         NEW pre \in Seq(T), NEW mo \in 0 .. 1, NEW mode, NEW comma, IsMode(pre, mo, mode, comma),
         NEW a \in T, NEW b \in T, NEW status \in T,
         NEW h, h = <<a, b>> \o space \o pre \o <<status>>
  PROVE  h \in Seq(T) /\ HeadShape(h, sp, mo, a, b, mode, status, comma)
<1>1. PICK p \in Seq(T) : p = <<a, b>> /\ IsPair(p, a, b)
  BY Pair
<1>2. PICK e \in Seq(T) : e = <<status>> /\ IsOne(e, status)
  BY One
<1>0. /\ Len(p) = 2 /\ p[1] = a /\ p[2] = b
      /\ Len(e) = 1 /\ e[1] = status
  BY <1>1, <1>2 DEF IsOne, IsPair
<1>3. PICK u \in Seq(T) : u = p \o space /\ JoinedOf(u, p, space)
  BY Joining
<1>4. PICK v \in Seq(T) : v = u \o pre /\ JoinedOf(v, u, pre)
  BY Joining
<1>5. PICK w \in Seq(T) : w = v \o e /\ JoinedOf(w, v, e)
  BY Joining
<1>6. w = h
  BY <1>1, <1>2, <1>3, <1>4, <1>5
<1>7. Len(u) = 2 + sp /\ u[1] = a /\ u[2] = b /\ (sp = 1 => u[3] = Space)
  <2>1. Len(space) = sp
    BY DEF IsSpaces
  <2>2. Len(u) = 2 + sp /\ u[1] = p[1] /\ u[2] = p[2]
    BY <1>0, <1>3, <2>1 DEF JoinedOf
  <2>3. ASSUME sp = 1 PROVE u[3] = Space
    <3>1. u[2 + 1] = space[1]
      BY <1>0, <1>3, <2>1, <2>3 DEF JoinedOf
    <3> QED
      BY <2>3, <3>1 DEF IsSpaces
  <2> QED
    BY <1>0, <2>2, <2>3
<1>8. /\ Len(v) = 2 + sp + 2 * mo /\ v[1] = a /\ v[2] = b /\ (sp = 1 => v[3] = Space)
      /\ mo = 1 => v[3 + sp] = mode /\ v[4 + sp] = comma
  <2>1. Len(pre) = 2 * mo
    BY DEF IsMode
  <2>2. Len(v) = 2 + sp + 2 * mo /\ \A i \in 1 .. 2 + sp : v[i] = u[i]
    BY <1>4, <1>7, <2>1 DEF JoinedOf
  <2>3. v[1] = u[1] /\ v[2] = u[2] /\ (sp = 1 => v[3] = u[3])
    BY <2>2
  <2>4. ASSUME mo = 1 PROVE v[3 + sp] = mode /\ v[4 + sp] = comma
    <3>1. v[2 + sp + 1] = pre[1] /\ v[2 + sp + 2] = pre[2]
      BY <1>4, <1>7, <2>1, <2>4 DEF JoinedOf
    <3>2. 2 + sp + 1 = 3 + sp /\ 2 + sp + 2 = 4 + sp
      OBVIOUS
    <3> QED
      BY <2>4, <3>1, <3>2 DEF IsMode
  <2> QED
    BY <1>7, <2>2, <2>3, <2>4
<1>9. HeadShape(w, sp, mo, a, b, mode, status, comma)
  <2>1. Len(w) = 3 + sp + 2 * mo /\ \A i \in 1 .. 2 + sp + 2 * mo : w[i] = v[i]
    BY <1>0, <1>5, <1>8 DEF JoinedOf
  <2>2. w[1] = v[1] /\ w[2] = v[2] /\ (sp = 1 => w[3] = v[3])
    BY <2>1
  <2>3. mo = 1 => w[3 + sp] = v[3 + sp] /\ w[4 + sp] = v[4 + sp]
    BY <2>1
  <2>4. w[3 + sp + 2 * mo] = status
    <3>1. w[2 + sp + 2 * mo + 1] = e[1]
      BY <1>0, <1>5, <1>8 DEF JoinedOf
    <3>2. 2 + sp + 2 * mo + 1 = 3 + sp + 2 * mo
      OBVIOUS
    <3> QED
      BY <1>0, <3>1, <3>2
  <2> QED
    BY <1>8, <2>1, <2>2, <2>3, <2>4 DEF HeadShape
<1> QED
  BY <1>6, <1>9

(* The cell behind the status.                                             *)
TailShape(y, sp, lac, ci, comma) ==
  /\ Len(y) = 4 + 2 * sp
  /\ y[1] = comma
  /\ sp = 1 => y[2] = Space
  /\ y[2 + sp] = lac /\ y[3 + sp] = comma
  /\ sp = 1 => y[4 + sp] = Space
  /\ y[4 + 2 * sp] = ci

(* So has the cell.                                                        *)
LEMMA TailShaped ==
  ASSUME NEW T, NEW space \in Seq(T), NEW sp \in 0 .. 1, IsSpaces(space, sp),
         NEW comma \in T, NEW lac \in T, NEW ci \in T,
         NEW y, y = <<comma>> \o space \o <<lac, comma>> \o space \o <<ci>>
  PROVE  y \in Seq(T) /\ TailShape(y, sp, lac, ci, comma)
<1>p. PICK p \in Seq(T) : p = <<comma>> /\ IsOne(p, comma)
  BY One
<1>m. PICK m \in Seq(T) : m = <<lac, comma>> /\ IsPair(m, lac, comma)
  BY Pair
<1>e. PICK e \in Seq(T) : e = <<ci>> /\ IsOne(e, ci)
  BY One
<1>1. /\ p = <<comma>> /\ Len(p) = 1 /\ p[1] = comma
      /\ m = <<lac, comma>> /\ Len(m) = 2 /\ m[1] = lac /\ m[2] = comma
      /\ e = <<ci>> /\ Len(e) = 1 /\ e[1] = ci
  BY <1>p, <1>m, <1>e DEF IsOne, IsPair
<1>2. PICK u \in Seq(T) : u = p \o space /\ JoinedOf(u, p, space)
  BY Joining
<1>3. PICK v \in Seq(T) : v = u \o m /\ JoinedOf(v, u, m)
  BY Joining
<1>4. PICK w \in Seq(T) : w = v \o space /\ JoinedOf(w, v, space)
  BY Joining
<1>5. PICK x \in Seq(T) : x = w \o e /\ JoinedOf(x, w, e)
  BY Joining
<1>6. x = y
  BY <1>1, <1>2, <1>3, <1>4, <1>5
<1>7. Len(space) = sp /\ (sp = 1 => space[1] = Space)
  BY DEF IsSpaces
<1>8. Len(u) = 1 + sp /\ u[1] = comma /\ (sp = 1 => u[2] = Space)
  <2>1. Len(u) = 1 + sp /\ u[1] = p[1]
    BY <1>1, <1>2, <1>7 DEF JoinedOf
  <2>2. ASSUME sp = 1 PROVE u[2] = Space
    <3>1. u[1 + 1] = space[1]
      BY <1>1, <1>2, <1>7, <2>2 DEF JoinedOf
    <3> QED
      BY <1>7, <2>2, <3>1
  <2> QED
    BY <1>1, <2>1, <2>2
<1>9. /\ Len(v) = 3 + sp /\ v[1] = comma /\ (sp = 1 => v[2] = Space)
      /\ v[2 + sp] = lac /\ v[3 + sp] = comma
  <2>1. Len(v) = 3 + sp /\ \A i \in 1 .. 1 + sp : v[i] = u[i]
    BY <1>1, <1>3, <1>8 DEF JoinedOf
  <2>2. v[1] = u[1] /\ (sp = 1 => v[2] = u[2])
    BY <2>1
  <2>3. v[1 + sp + 1] = m[1] /\ v[1 + sp + 2] = m[2]
    BY <1>1, <1>3, <1>8 DEF JoinedOf
  <2>4. 1 + sp + 1 = 2 + sp /\ 1 + sp + 2 = 3 + sp
    OBVIOUS
  <2> QED
    BY <1>1, <1>8, <2>1, <2>2, <2>3, <2>4
<1>10. /\ Len(w) = 3 + 2 * sp /\ w[1] = comma /\ (sp = 1 => w[2] = Space)
       /\ w[2 + sp] = lac /\ w[3 + sp] = comma /\ (sp = 1 => w[4 + sp] = Space)
  <2>1. Len(w) = 3 + 2 * sp /\ \A i \in 1 .. 3 + sp : w[i] = v[i]
    BY <1>4, <1>7, <1>9 DEF JoinedOf
  <2>0. 1 \in 1 .. 3 + sp /\ 2 \in 1 .. 3 + sp /\ 2 + sp \in 1 .. 3 + sp /\ 3 + sp \in 1 .. 3 + sp
    OBVIOUS
  <2>2. /\ w[1] = v[1] /\ (sp = 1 => w[2] = v[2])
        /\ w[2 + sp] = v[2 + sp] /\ w[3 + sp] = v[3 + sp]
    BY <2>0, <2>1
  <2>3. ASSUME sp = 1 PROVE w[4 + sp] = Space
    <3>1. w[3 + sp + 1] = space[1]
      BY <1>4, <1>7, <1>9, <2>3 DEF JoinedOf
    <3>2. 3 + sp + 1 = 4 + sp
      OBVIOUS
    <3> QED
      BY <1>7, <2>3, <3>1, <3>2
  <2> QED
    BY <1>9, <2>1, <2>2, <2>3
<1>11. TailShape(x, sp, lac, ci, comma)
  <2>1. Len(x) = 4 + 2 * sp /\ \A i \in 1 .. 3 + 2 * sp : x[i] = w[i]
    BY <1>1, <1>5, <1>10 DEF JoinedOf
  <2>2. /\ x[1] = w[1] /\ (sp = 1 => x[2] = w[2])
        /\ x[2 + sp] = w[2 + sp] /\ x[3 + sp] = w[3 + sp] /\ (sp = 1 => x[4 + sp] = w[4 + sp])
    BY <2>1
  <2>3. x[3 + 2 * sp + 1] = e[1]
    BY <1>1, <1>5, <1>10 DEF JoinedOf
  <2>4. 3 + 2 * sp + 1 = 4 + 2 * sp
    OBVIOUS
  <2> QED
    BY <1>1, <1>10, <2>1, <2>2, <2>3, <2>4 DEF TailShape
<1> QED
  BY <1>6, <1>11

(* A line with a cell, and one without.                                    *)
LEMMA LineShaped ==
  ASSUME NEW T, NEW h \in Seq(T), NEW y \in Seq(T), NEW sp \in 0 .. 1, NEW mo \in 0 .. 1,
         NEW a, NEW b, NEW mode, NEW status, NEW comma, NEW lac, NEW ci,
         HeadShape(h, sp, mo, a, b, mode, status, comma), a # b, b # comma,
         TailShape(y, sp, lac, ci, comma)
  PROVE  /\ h \o y \in Seq(T)
         /\ CregShape(h \o y, sp, mo, 3 + sp + 2 * mo, mode, status, comma, b)
         /\ CellShape(h \o y, sp, 3 + sp + 2 * mo, lac, ci, comma)
<1>1. PICK q \in Nat : q = 3 + sp + 2 * mo
  OBVIOUS
<1>2. PICK s \in Seq(T) : s = h \o y /\ JoinedOf(s, h, y)
  BY Joining
<1>3. Len(h) = q /\ Len(y) = 4 + 2 * sp
  BY <1>1 DEF HeadShape, TailShape
<1>4. Len(s) = q + 4 + 2 * sp
  BY <1>2, <1>3 DEF JoinedOf
<1>5. \A i \in 1 .. q : s[i] = h[i]
  BY <1>2, <1>3 DEF JoinedOf
<1>6. \A i \in 1 .. 4 + 2 * sp : s[q + i] = y[i]
  BY <1>2, <1>3 DEF JoinedOf
<1>7. CregShape(s, sp, mo, q, mode, status, comma, b)
  <2>0. 1 \in 1 .. q /\ 2 \in 1 .. q /\ 3 \in 1 .. q /\ q \in 1 .. q
    BY <1>1
  <2>1. s[1] = h[1] /\ s[2] = h[2] /\ s[q] = h[q] /\ (sp = 1 => s[3] = h[3])
    BY <1>5, <2>0
  <2>2. mo = 1 => s[3 + sp] = h[3 + sp] /\ s[4 + sp] = h[4 + sp]
    <3>1. mo = 1 => 3 + sp \in 1 .. q /\ 4 + sp \in 1 .. q
      BY <1>1
    <3> QED
      BY <1>5, <3>1
  <2>3. /\ h[1] = a /\ h[2] = b /\ (sp = 1 => h[3] = Space) /\ h[q] = status
        /\ mo = 1 => h[3 + sp] = mode /\ h[4 + sp] = comma
    BY <1>1 DEF HeadShape
  <2>4. q <= Len(s)
    BY <1>4
  <2> QED
    <3>1. s[2] = b /\ s[1] # b /\ s[q] = status /\ (sp = 1 => s[3] = Space)
      BY <2>1, <2>3
    <3>2. mo = 1 => s[3 + sp] = mode /\ s[4 + sp] = comma
      BY <2>2, <2>3
    <3> QED
      BY <1>1, <2>4, <3>1, <3>2 DEF CregShape
<1>8. CellShape(s, sp, q, lac, ci, comma)
  <2>0. PICK n \in Nat, l \in Nat, m \in Nat :
          /\ n = 4 + 2 * sp /\ l = 2 + sp /\ m = 3 + sp
          /\ 4 <= n /\ l \in 1 .. n /\ m \in 1 .. n
    OBVIOUS
  <2>a. 1 \in 1 .. n /\ 2 \in 1 .. n /\ n \in 1 .. n /\ 4 + sp \in 1 .. n
    BY <2>0
  <2>b. \A i \in 1 .. n : s[q + i] = y[i]
    BY <1>6, <2>0
  <2>c. s[q + 1] = y[1] /\ s[q + 2] = y[2] /\ s[q + n] = y[n] /\ s[q + (4 + sp)] = y[4 + sp]
    BY <2>a, <2>b
  <2>d. s[q + l] = y[l] /\ s[q + m] = y[m]
    BY <2>0, <2>b
  <2>1. /\ s[q + 1] = y[1] /\ (sp = 1 => s[q + 2] = y[2]) /\ s[q + (2 + sp)] = y[2 + sp]
        /\ s[q + (3 + sp)] = y[3 + sp] /\ (sp = 1 => s[q + (4 + sp)] = y[4 + sp])
        /\ s[q + (4 + 2 * sp)] = y[4 + 2 * sp]
    BY <2>0, <2>c, <2>d
  <2>2. /\ q + (2 + sp) = q + 2 + sp /\ q + (3 + sp) = q + 3 + sp /\ q + (4 + sp) = q + 4 + sp
        /\ q + (4 + 2 * sp) = q + 4 + 2 * sp
    OBVIOUS
  <2>3. /\ y[1] = comma /\ (sp = 1 => y[2] = Space) /\ y[2 + sp] = lac /\ y[3 + sp] = comma
        /\ (sp = 1 => y[4 + sp] = Space) /\ y[4 + 2 * sp] = ci
    BY DEF TailShape
  <2> QED
    BY <1>4, <2>1, <2>2, <2>3 DEF CellShape
<1> QED
  BY <1>1, <1>2, <1>7, <1>8

(* Without a cell the line is its head.                                    *)
LEMMA BareShaped ==
  ASSUME NEW T, NEW h \in Seq(T), NEW sp \in 0 .. 1, NEW mo \in 0 .. 1,
         NEW a, NEW b, NEW mode, NEW status, NEW comma,
         HeadShape(h, sp, mo, a, b, mode, status, comma), a # b, b # comma
  PROVE  /\ h \o <<>> = h
         /\ CregShape(h, sp, mo, 3 + sp + 2 * mo, mode, status, comma, b)
         /\ Len(h) = 3 + sp + 2 * mo
<1>1. h \o <<>> = h
  OBVIOUS
<1>2. 3 + sp + 2 * mo <= Len(h) /\ Len(h) = 3 + sp + 2 * mo
  BY DEF HeadShape
<1> QED
  BY <1>1, <1>2 DEF HeadShape, CregShape

(* The tokens of these lines, and the items among them.                    *)
CregItem  == {"0", "1", "2", "5", "A5", "C2"}
CregToken == CregItem \cup {"+CREG", ":", ",", Space}
CregName == "+CREG"
Colon == ":"
Comma == ","

(* Its tokens are told apart,                                              *)
LEMMA CregTokens ==
  /\ CregName \in CregToken /\ Colon \in CregToken /\ Comma \in CregToken /\ Space \in CregToken
  /\ CregName # Colon /\ Colon # Comma /\ Space # Comma
<1>1. "+CREG" # ":" /\ ":" # ","
  OBVIOUS
<1>2. Space # ","
  BY TokensAssumption
<1> QED
  BY <1>1, <1>2 DEF CregToken, CregName, Colon, Comma

(* and its items are none of the others.                                   *)
LEMMA CregItemOf ==
  ASSUME NEW t \in CregItem
  PROVE  t \in CregToken /\ IsItemOf(t, Comma)
<1>1. t # ","
  BY DEF CregItem
<1>2. Space \notin Numbers /\ Space # "A5" /\ Space # "C2"
  BY TokensAssumption, LinesAssumption
<1>3. t \in Numbers \/ t = "A5" \/ t = "C2"
  BY LinesAssumption DEF CregItem
<1> QED
  BY <1>1, <1>2, <1>3 DEF CregToken, IsItemOf, Comma

(* The items of the run are among them, and a status is a number.          *)
LEMMA CregItemsAre ==
  /\ {"2", "1", "A5", "5", "C2"} \subseteq CregItem
  /\ Statuses \subseteq CregItem /\ Statuses \subseteq Numbers
<1>1. Statuses \subseteq Numbers
  BY LinesAssumption DEF Statuses
<1>2. Statuses \subseteq CregItem
  BY DEF Statuses, CregItem
<1> QED
  BY <1>1, <1>2 DEF CregItem

(* What at_parse_creg does to a line of them.                              *)
LEMMA CregTaken ==
  ASSUME NEW line \in Seq(CregToken)
  PROVE  TakenBy(line, Comma, Colon)
BY LineTaken DEF Comma, Colon

(* A space or none.                                                        *)
LEMMA SpaceShaped ==
  ASSUME NEW T, Space \in T, NEW space \in Spaces
  PROVE  space \in Seq(T) /\ \E sp \in 0 .. 1 : IsSpaces(space, sp)
<1>1. CASE space = <<>>
  <2>1. space \in Seq(T) /\ IsSpaces(space, 0) /\ 0 \in 0 .. 1
    BY <1>1 DEF IsSpaces
  <2> QED
    BY <2>1
<1>2. CASE space = <<Space>>
  <2>1. space \in Seq(T) /\ IsSpaces(space, 1) /\ 1 \in 0 .. 1
    BY <1>2 DEF IsSpaces
  <2> QED
    BY <2>1
<1> QED
  BY <1>1, <1>2 DEF Spaces

(* A mode and its comma, or none.                                          *)
ModePart(mode, comma) == IF mode = <<>> THEN <<>> ELSE <<mode[1], comma>>

(* It has that shape.                                                      *)
LEMMA ModeShaped ==
  ASSUME NEW T, NEW comma \in T, NEW two \in T, NEW mode \in {<<>>, <<two>>}
  PROVE  /\ ModePart(mode, comma) \in Seq(T)
         /\ \E mo \in 0 .. 1 : IsMode(ModePart(mode, comma), mo, two, comma)
<1>1. CASE mode = <<>>
  <2>1. ModePart(mode, comma) = <<>>
    BY <1>1 DEF ModePart
  <2>2. IsMode(<<>>, 0, two, comma) /\ <<>> \in Seq(T)
    BY DEF IsMode
  <2> QED
    BY <2>1, <2>2
<1>2. CASE mode = <<two>>
  <2>1. PICK s : s = <<two>>
    OBVIOUS
  <2>2. s # <<>> /\ s[1] = two
    BY <2>1
  <2>3. ModePart(mode, comma) = <<two, comma>>
    BY <1>2, <2>1, <2>2 DEF ModePart
  <2>4. IsMode(<<two, comma>>, 1, two, comma) /\ <<two, comma>> \in Seq(T) /\ 1 \in 0 .. 1
    BY DEF IsMode
  <2> QED
    BY <2>3, <2>4
<1> QED
  BY <1>1, <1>2

(* What stands before the cell, the cell, and both.                        *)
HeadOf(name, colon, space, pre, status) == <<name, colon>> \o space \o pre \o <<status>>
CellOf(comma, space, lac, ci) == <<comma>> \o space \o <<lac, comma>> \o space \o <<ci>>

FormOf(name, colon, comma, space, mode, status, cell) ==
  HeadOf(name, colon, space, ModePart(mode, comma), status)
    \o (IF cell = <<>> THEN <<>> ELSE CellOf(comma, space, cell[1], cell[2]))

(* The line is made of them.                                               *)
LEMMA CregLineIs ==
  ASSUME NEW i
  PROVE  CregLine(i) = FormOf(CregName, Colon, Comma, i.space, i.mode, i.status, i.cell)
BY DEF CregLine, FormOf, HeadOf, CellOf, ModePart, CregName, Colon, Comma

(* The head is a sequence of tokens,                                       *)
LEMMA HeadTyped ==
  ASSUME NEW T, NEW name \in T, NEW colon \in T, NEW space \in Seq(T), NEW pre \in Seq(T),
         NEW status \in T
  PROVE  HeadOf(name, colon, space, pre, status) \in Seq(T)
BY DEF HeadOf

(* each in its place.                                                      *)
LEMMA HeadIs ==
  ASSUME NEW T, NEW name \in T, NEW colon \in T, NEW comma,
         NEW space \in Seq(T), NEW sp \in 0 .. 1, IsSpaces(space, sp),
         NEW pre \in Seq(T), NEW mo \in 0 .. 1, NEW mode, IsMode(pre, mo, mode, comma),
         NEW status \in T
  PROVE  HeadShape(HeadOf(name, colon, space, pre, status), sp, mo, name, colon, mode, status, comma)
<1>1. PICK line : line = HeadOf(name, colon, space, pre, status)
  OBVIOUS
<1>2. line = <<name, colon>> \o space \o pre \o <<status>>
  BY <1>1 DEF HeadOf
<1>3. HeadShape(line, sp, mo, name, colon, mode, status, comma)
  BY <1>2, HeadShaped, ZenonT(60)
<1> QED
  BY <1>1, <1>3

(* The line without a cell is read, its tokens named,                      *)
LEMMA BareRead ==
  ASSUME NEW T, NEW name \in T, NEW colon \in T, NEW comma \in T, name # colon, colon # comma,
         Space # comma, NEW space \in Seq(T), NEW sp \in 0 .. 1, IsSpaces(space, sp),
         NEW pre \in Seq(T), NEW mo \in 0 .. 1, NEW mode, IsMode(pre, mo, mode, comma),
         NEW status \in T, status \in Numbers, IsItemOf(mode, comma), IsItemOf(status, comma),
         NEW line, line = HeadOf(name, colon, space, pre, status),
         TakenBy(line, comma, colon)
  PROVE  CregReads(line, status, <<>>, <<>>)
<1>1. line \in Seq(T)
  BY HeadTyped
<1>2. HeadShape(line, sp, mo, name, colon, mode, status, comma)
  BY HeadIs
<1>3. PICK q \in Nat : q = 3 + sp + 2 * mo
  OBVIOUS
<1>4. CregShape(line, sp, mo, q, mode, status, comma, colon) /\ Len(line) = q
  BY <1>1, <1>2, <1>3, BareShaped, ZenonT(60)
<1> QED
  BY <1>1, <1>4, StatusRead

(* What is to be read of the cell: nothing, or both its parts.             *)
CellTexts(cell) == IF cell = <<>> THEN <<<<>>, <<>>>> ELSE <<<<cell[1]>>, <<cell[2]>>>>

(* A cell, or none.                                                        *)
IsCell(cell, T, comma) ==
  cell = <<>> \/ \E lac, ci \in T : cell = <<lac, ci>> /\ IsItemOf(lac, comma) /\ IsItemOf(ci, comma)

IsModeOf(mode, two) == mode \in {<<>>, <<two>>}
IsTaken(line, T, comma, colon) == line \in Seq(T) => TakenBy(line, comma, colon)
FormReads(line, status, cell) == CregReads(line, status, CellTexts(cell)[1], CellTexts(cell)[2])

(* In whatever form, the line is read,                                     *)
LEMMA FormRead ==
  ASSUME NEW T, Space \in T, NEW name \in T, NEW colon \in T, NEW comma \in T,
         name # colon, colon # comma, Space # comma,
         NEW two \in T, IsItemOf(two, comma), NEW mode, IsModeOf(mode, two),
         NEW status \in T, status \in Numbers, IsItemOf(status, comma), NEW space \in Spaces,
         NEW cell, IsCell(cell, T, comma),
         NEW line, line = FormOf(name, colon, comma, space, mode, status, cell),
         IsTaken(line, T, comma, colon)
  PROVE  FormReads(line, status, cell)
<1>1. space \in Seq(T) /\ \E sp \in 0 .. 1 : IsSpaces(space, sp)
  BY SpaceShaped
<1>2. PICK sp \in 0 .. 1 : IsSpaces(space, sp)
  BY <1>1
<1>3. PICK pre : pre = ModePart(mode, comma)
  OBVIOUS
<1>4. pre \in Seq(T) /\ \E mo \in 0 .. 1 : IsMode(pre, mo, two, comma)
  <2>1. mode \in {<<>>, <<two>>}
    BY DEF IsModeOf
  <2> QED
    BY <1>3, <2>1, ModeShaped
<1>5. PICK mo \in 0 .. 1 : IsMode(pre, mo, two, comma)
  BY <1>4
<1>6. PICK h : h = HeadOf(name, colon, space, pre, status)
  OBVIOUS
<1>7. CASE cell = <<>>
  <2>1. line = h \o <<>>
    BY <1>3, <1>6, <1>7 DEF FormOf
  <2>3. h \in Seq(T)
    BY <1>1, <1>4, <1>6, HeadTyped
  <2>4. line = h
    BY <2>1, <2>3
  <2>5. line = HeadOf(name, colon, space, pre, status)
    BY <1>6, <2>4
  <2>6. CregReads(line, status, <<>>, <<>>)
    <3>1. space \in Seq(T) /\ pre \in Seq(T)
      BY <1>1, <1>4
    <3>2. TakenBy(line, comma, colon)
      BY <2>3, <2>4 DEF IsTaken
    <3> QED
      BY <1>2, <1>5, <2>5, <3>1, <3>2, BareRead
  <2>7. CellTexts(cell)[1] = <<>> /\ CellTexts(cell)[2] = <<>>
    BY <1>7 DEF CellTexts
  <2> QED
    BY <2>6, <2>7 DEF FormReads
<1>8. CASE cell # <<>>
  <2>1. PICK lac \in T, ci \in T : cell = <<lac, ci>> /\ IsItemOf(lac, comma) /\ IsItemOf(ci, comma)
    BY <1>8 DEF IsCell
  <2>2. cell[1] = lac /\ cell[2] = ci
    BY <2>1
  <2>3. PICK y : y = CellOf(comma, space, lac, ci)
    OBVIOUS
  <2>4. line = h \o y
    BY <1>3, <1>6, <1>8, <2>2, <2>3 DEF FormOf
  <2>5. CregReads(line, status, <<lac>>, <<ci>>)
    <3>2. h \in Seq(T) /\ HeadShape(h, sp, mo, name, colon, two, status, comma)
      <4>1. space \in Seq(T) /\ pre \in Seq(T)
        BY <1>1, <1>4
      <4>2. h \in Seq(T)
        BY <1>6, <4>1, HeadTyped
      <4>3. HeadShape(h, sp, mo, name, colon, two, status, comma)
        BY <1>2, <1>5, <1>6, <4>1, HeadIs
      <4> QED
        BY <4>2, <4>3
    <3>3. y = <<comma>> \o space \o <<lac, comma>> \o space \o <<ci>>
      BY <2>3 DEF CellOf
    <3>4. y \in Seq(T) /\ TailShape(y, sp, lac, ci, comma)
      BY <1>1, <1>2, <2>1, <3>3, TailShaped
    <3>5. PICK q \in Nat : q = 3 + sp + 2 * mo
      OBVIOUS
    <3>6. /\ h \o y \in Seq(T)
          /\ CregShape(h \o y, sp, mo, 3 + sp + 2 * mo, two, status, comma, colon)
          /\ CellShape(h \o y, sp, 3 + sp + 2 * mo, lac, ci, comma)
      BY <1>2, <1>5, <3>2, <3>4, LineShaped
    <3>7. line \in Seq(T)
      BY <2>4, <3>6
    <3>8. CregShape(line, sp, mo, q, two, status, comma, colon) /\ CellShape(line, sp, q, lac, ci, comma)
      BY <2>4, <3>5, <3>6
    <3>9. TakenBy(line, comma, colon)
      BY <3>7 DEF IsTaken
    <3> QED
      BY <1>2, <1>5, <2>1, <3>7, <3>8, <3>9, CellRead
  <2>6. CellTexts(cell)[1] = <<lac>> /\ CellTexts(cell)[2] = <<ci>>
    BY <1>8, <2>2 DEF CellTexts
  <2> QED
    BY <2>5, <2>6 DEF FormReads
<1> QED
  BY <1>7, <1>8

(* as every line of the run has.                                           *)
LEMMA CregKept ==
  ASSUME NEW i, i \in CregItems
  PROVE  CregReads(CregLine(i), i.status, CellTexts(i.cell)[1], CellTexts(i.cell)[2])
<1>1. PICK mode \in {<<>>, <<"2">>}, status \in Statuses,
           cell \in {<<>>} \cup {<<lac, ci>> : lac \in {"1", "A5"}, ci \in {"5", "C2"}},
           space \in Spaces :
        i = [sort |-> "creg", mode |-> mode, status |-> status, cell |-> cell, space |-> space]
  BY DEF CregItems
<1>2. i.status = status /\ i.cell = cell
  BY <1>1
<1>3. "2" \in CregItem /\ status \in CregItem /\ status \in Numbers
  BY <1>1, CregItemsAre
<1>4. status \in CregToken /\ IsItemOf(status, Comma)
  BY <1>3, CregItemOf
<1>5. "2" \in CregToken /\ IsItemOf("2", Comma)
  BY <1>3, CregItemOf
<1>6. IsCell(cell, CregToken, Comma)
  <2>1. CASE cell = <<>>
    BY <2>1 DEF IsCell
  <2>2. CASE cell # <<>>
    <3>1. PICK lac \in {"1", "A5"}, ci \in {"5", "C2"} : cell = <<lac, ci>>
      BY <1>1, <2>2
    <3>2. lac \in CregItem /\ ci \in CregItem
      BY <3>1, CregItemsAre
    <3>3. lac \in CregToken /\ IsItemOf(lac, Comma)
      BY <3>2, CregItemOf
    <3>4. ci \in CregToken /\ IsItemOf(ci, Comma)
      BY <3>2, CregItemOf
    <3> QED
      BY <3>1, <3>3, <3>4 DEF IsCell
  <2> QED
    BY <2>1, <2>2
<1>7. PICK line : line = CregLine(i)
  OBVIOUS
<1>8. line = FormOf(CregName, Colon, Comma, space, mode, status, cell)
  <2>1. i.space = space /\ i.mode = mode
    BY <1>1
  <2> QED
    BY <1>2, <1>7, <2>1, CregLineIs
<1>9. IsTaken(line, CregToken, Comma, Colon)
  BY CregTaken DEF IsTaken
<1>10. FormReads(line, status, cell)
  <2>1. IsModeOf(mode, "2") /\ space \in Spaces
    BY <1>1 DEF IsModeOf
  <2> QED
    BY <1>3, <1>4, <1>5, <1>6, <1>8, <1>9, <2>1, CregTokens, FormRead
<1> QED
  BY <1>2, <1>7, <1>10 DEF FormReads

(* None but these are lines of +CREG.                                      *)
LEMMA CregOfRun ==
  ASSUME NEW i, IsItem(i), i.sort = "creg"
  PROVE  i \in CregItems
<1>1. ~IsMessageLeft(i) /\ ~IsReportLeft(i)
  BY MessageKept, ReportKept
<1>2. i \notin UssdItems
  <2> SUFFICES ASSUME i \in UssdItems PROVE FALSE
    OBVIOUS
  <2>1. \E text, space : i = [sort |-> "ussd", text |-> text, space |-> space]
    BY DEF UssdItems
  <2> QED
    BY <2>1
<1>3. i \notin SubmitItems
  <2> SUFFICES ASSUME i \in SubmitItems PROVE FALSE
    OBVIOUS
  <2>1. \E number, national, smsc, alphabet, text :
          i = [sort |-> "submit", number |-> number, national |-> national, smsc |-> smsc,
               alphabet |-> alphabet, message |-> text]
    BY DEF SubmitItems
  <2> QED
    BY <2>1
<1> QED
  BY <1>1, <1>2, <1>3 DEF IsItem, None

(* In each of the forms of +CREG the registration is read, and not the     *)
(* mode before it or the cell behind it (at_parse_creg).                   *)
THEOREM CregReadHolds == FormatsSpec => []CregRead
<1>1. FormatsInv => CregRead
  <2> SUFFICES ASSUME FormatsInv, item.sort = "creg" PROVE CregRead
    BY DEF CregRead
  <2>1. item \in CregItems
    BY CregOfRun DEF FormatsInv
  <2>2. CregReads(CregLine(item), item.status, CellTexts(item.cell)[1], CellTexts(item.cell)[2])
    BY <2>1, CregKept
  <2>3. <<CellTexts(item.cell)[1], CellTexts(item.cell)[2]>> = CellTexts(item.cell)
    BY DEF CellTexts
  <2> QED
    BY <2>2, <2>3 DEF CregRead, CregReads, CellTexts
<1> QED
  BY <1>1, ItemsKept, PTL

-----------------------------------------------------------------------------
(* The run adds what is read or written beside the user data, and leaves   *)
(* that to MCUserData, step by step or unchanged.                          *)
LEMMA UserDataKept == FormatsSpec => Spec
<1>1. <<>> \in Headers
  BY HeaderAssumption DEF Headers
<1>2. FormatsInit => Init
  BY <1>1 DEF FormatsInit, Init
<1>3. [UserDataStep \/ LoseEnd]_<<vars, item>> => [Next]_vars
  BY DEF UserDataStep, LoseEnd
<1> QED
  BY <1>2, <1>3, PTL DEF FormatsSpec, Spec

(* So all that is said of the coding of user data and of USSD holds in the *)
(* run as well (text2pdu, pdu2text, binary2pdu, char_to_hexstr_7bit).      *)
THEOREM CodingHolds ==
  FormatsSpec => [](RoundTrip /\ NeverGarbled /\ PackersAgree /\ UssdRoundTrip)
BY UserDataKept, RoundTripHolds, NeverGarbledHolds, PackersAgreeHolds, UssdRoundTripHolds, PTL
=============================================================================
