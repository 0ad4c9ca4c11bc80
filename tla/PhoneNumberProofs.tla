------------------------- MODULE PhoneNumberProofs -------------------------
(* Proofs about PhoneNumber, for national numbers of any length and any     *)
(* digits of other scripts.                                                 *)
EXTENDS PhoneNumber, SequenceTheorems, TLAPS

\* A number of the plan is a sequence of the digits 0 to 9 that is a mobile
\* number as it is.
LEMMA MobileNumbers ==
  ASSUME NEW n
  PROVE  n \in MobileNumber <=> n \in Seq(0..9) /\ IsMobile(n)
  <1>1. ASSUME n \in MobileNumber
        PROVE  n \in Seq(0..9) /\ IsMobile(n)
    <2>1. n \in [1..Length -> 0..9] /\ n[1] \in 6..9
      BY <1>1 DEF MobileNumber
    <2>2. n \in Seq(0..9)
      BY <2>1, LengthAssumption, IsASeq
    <2> QED BY <2>1, <2>2, LengthAssumption, LenProperties DEF IsMobile
  <1>2. ASSUME n \in Seq(0..9), IsMobile(n)
        PROVE  n \in MobileNumber
    BY <1>2, LenProperties DEF IsMobile, MobileNumber
  <1> QED BY <1>1, <1>2

\* So it is a sequence of digits in the sense of \d.
LEMMA MobileNumbersAreDigits ==
  ASSUME NEW n \in MobileNumber
  PROVE  n \in Seq(Digit) /\ IsMobile(n) /\ Len(n) = Length
  <1>1. n \in Seq(0..9) /\ IsMobile(n)
    BY MobileNumbers
  <1>2. Seq(0..9) \subseteq Seq(Digit)
    BY SeqMonotonic DEF Digit
  <1> QED BY <1>1, <1>2 DEF IsMobile

\* What passes the test on the digits has a key that is not the error.
LEMMA MobileHasKey ==
  ASSUME NEW n \in Seq(Digit), IsMobile(n)
  PROVE  Key(n) # NoNumber
  <1>1. n \in [1..Length -> Digit]
    BY LenProperties DEF IsMobile
  <1> QED BY <1>1, NoNumberAssumption

LEMMA CodeIsDigits == CountryCode \in Seq(Digit) /\ Len(CountryCode) = 2
  BY DEF CountryCode, Digit

\* Digits that begin with the country code are the code and the rest.
LEMMA CodeAndRest ==
  ASSUME NEW D, NEW d \in Seq(D), NEW k \in Nat, Len(d) = k + 2
  PROVE  LET rest == SubSeq(d, 3, Len(d)) IN
         /\ rest \in Seq(D) /\ Len(rest) = k
         /\ SubSeq(d, 1, 2) = CountryCode => d = CountryCode \o rest
  <1>1. d = SubSeq(d, 1, 2) \o SubSeq(d, 3, Len(d))
    <2>1. SubSeq(d, 1, 2) \o SubSeq(d, 2 + 1, Len(d)) = SubSeq(d, 1, Len(d))
      BY ConcatAdjacentSubSeq
    <2> QED BY <2>1, SubSeqFull
  <1>2. \A i \in 3..Len(d) : d[i] \in D
    BY ElementOfSeq
  <1>3. /\ SubSeq(d, 3, Len(d)) \in Seq(D)
        /\ Len(SubSeq(d, 3, Len(d))) = k
    BY <1>2, SubSeqProperties
  <1> QED BY <1>1, <1>3

\* Two digits put before a national number come off again.
LEMMA PrefixComesOff ==
  ASSUME NEW c \in Seq(Digit), Len(c) = 2,
         NEW n \in Seq(Digit), Len(n) = Length
  PROVE  /\ c \o n \in Seq(Digit) /\ Len(c \o n) = Length + 2
         /\ SubSeq(c \o n, 1, 2) = c /\ SubSeq(c \o n, 3, Length + 2) = n
  <1>1. c \o n \in Seq(Digit)
    BY ConcatProperties
  <1>2. Len(c \o n) = Length + 2
    <2>1. Len(c \o n) = Len(c) + Len(n)
      BY ConcatProperties
    <2> QED BY <2>1, LengthAssumption
  <1>3. SubSeq(c \o n, 1, 2) = c
    <2>1. 1 \in 1 .. Len(c) /\ 2 \in 1 .. Len(c)
      OBVIOUS
    <2>2. SubSeq(c \o n, 1, 2) = SubSeq(c, 1, 2)
      BY <2>1, SubSeqOfConcat1
    <2> QED BY <2>2, SubSeqFull
  <1>4. SubSeq(c \o n, 3, Length + 2) = n
    <2> DEFINE k == Length + 2
    <2>1. 3 \in Len(c)+1 .. Len(c)+Len(n) /\ k \in Len(c)+1 .. Len(c)+Len(n)
      BY LengthAssumption
    <2>2. SubSeq(c \o n, 3, k) = SubSeq(n, 3 - Len(c), k - Len(c))
      <3> HIDE DEF k
      <3> QED BY <2>1, SubSeqOfConcat2, Zenon
    <2>3. 3 - Len(c) = 1 /\ (Length + 2) - Len(c) = Len(n)
      BY LengthAssumption
    <2> QED BY <2>2, <2>3, SubSeqFull
  <1> QED BY <1>1, <1>2, <1>3, <1>4

\* The country code before a national number comes off again.
LEMMA CodeComesOff ==
  ASSUME NEW n \in Seq(Digit), Len(n) = Length
  PROVE  LET d == CountryCode \o n IN
         /\ d \in Seq(Digit) /\ Len(d) = Length + 2
         /\ SubSeq(d, 1, 2) = CountryCode /\ SubSeq(d, 3, Len(d)) = n
  <1> DEFINE d == CountryCode \o n
  <1>1. /\ d \in Seq(Digit) /\ Len(d) = Length + 2
        /\ SubSeq(d, 1, 2) = CountryCode /\ SubSeq(d, 3, Length + 2) = n
    BY CodeIsDigits, PrefixComesOff, Zenon
  <1> HIDE DEF d
  <1>2. SubSeq(d, 3, Len(d)) = n
    BY <1>1
  <1> QED BY <1>1, <1>2 DEF d

\* Different numbers have different keys.
LEMMA KeysDiffer ==
  ASSUME NEW m \in Seq(Digit), NEW n \in Seq(Digit), Key(m) = Key(n)
  PROVE  m = n
  <1> DEFINE C == Digit \cup {Plus}
  <1>1. m \in Seq(C) /\ n \in Seq(C)
    BY SeqMonotonic
  <1>2. <<Plus, 9, 1>> \in Seq(C)
    BY DEF Digit
  <1>3. <<Plus, 9, 1>> \o m = <<Plus, 9, 1>> \o n
    BY DEF Key
  <1> HIDE DEF C
  <1> QED BY <1>1, <1>2, <1>3, ConcatSimplifications

\* The gateway keeps a text under the key of a number exactly when its digits
\* are those of the number, with the country code or without it: the test on
\* the length tells a prefix 91 from a number that begins with 91.
THEOREM KeysAreNumbers ==
  ASSUME NEW d \in Seq(Digit), NEW n \in MobileNumber
  PROVE  IsMobile(National(d)) /\ National(d) = n
           <=> d \in {n, CountryCode \o n}
  <1>1. n \in Seq(Digit) /\ IsMobile(n) /\ Len(n) = Length
    BY MobileNumbersAreDigits
  <1>2. CASE Len(d) = Length + 2 /\ SubSeq(d, 1, 2) = CountryCode
    <2>1. National(d) = SubSeq(d, 3, Len(d)) /\ d = CountryCode \o National(d)
      BY <1>2, CodeAndRest, LengthAssumption DEF National
    <2>2. d # n
      BY <1>1, <1>2, LengthAssumption
    <2>3. d = CountryCode \o n => National(d) = n
      BY <1>1, <2>1, CodeComesOff
    <2> QED BY <1>1, <2>1, <2>2, <2>3
  <1>3. CASE ~(Len(d) = Length + 2 /\ SubSeq(d, 1, 2) = CountryCode)
    <2>1. National(d) = d
      BY <1>3 DEF National
    <2>2. d # CountryCode \o n
      BY <1>1, <1>3, CodeComesOff
    <2> QED BY <1>1, <2>1, <2>2
  <1> QED BY <1>2, <1>3

\* The digits of the national part are digits of the text.
LEMMA NationalIsDigits ==
  ASSUME NEW D, NEW d \in Seq(D)
  PROVE  National(d) \in Seq(D)
  <1>1. CASE Len(d) = Length + 2
    BY <1>1, CodeAndRest, LengthAssumption DEF National
  <1>2. CASE Len(d) # Length + 2
    BY <1>2 DEF National
  <1> QED BY <1>1, <1>2

\* A text that is refused spells no number at all, and one that spells none is
\* refused, unless it has digits of other scripts.
THEOREM RefusedSpellsNothing ==
  ASSUME NEW d \in Seq(Digit)
  PROVE  LET none == \A n \in MobileNumber : d \notin {n, CountryCode \o n} IN
         /\ ~IsMobile(National(d)) => none
         /\ none /\ d \in Seq(0..9) => ~IsMobile(National(d))
  <1>1. ASSUME d \in Seq(0..9), IsMobile(National(d))
        PROVE  National(d) \in MobileNumber
    <2>1. National(d) \in Seq(0..9)
      BY <1>1, NationalIsDigits
    <2> QED BY <1>1, <2>1, MobileNumbers
  <1> QED BY <1>1, KeysAreNumbers
=============================================================================
