---------------------------- MODULE PhoneNumber ----------------------------
(***************************************************************************)
(* The phone numbers of the gateway: what the validators of                *)
(* OTPRequestSchema and OTPVerifySchema make of the text a client sent.    *)
(* A text is a sequence of characters: the digits 0..9, the decimal digits *)
(* of other scripts, which \d matches too, and anything else.              *)
(***************************************************************************)
EXTENDS Integers, Sequences

CONSTANTS Length,    \* digits of a national number (10)
          Foreign,   \* decimal digits of other scripts
          Plus,      \* the character +
          NoNumber   \* the ValueError of _normalize_india_phone

ASSUME LengthAssumption == Length \in Nat \ {0}
ASSUME CharAssumption == Plus \notin 0..9 \cup Foreign

Digit == 0..9 \cup Foreign
IsDigit(c) == c \in Digit

\* re.sub(r"\D", "", value)
Digits(value) == SelectSeq(value, IsDigit)

CountryCode == <<9, 1>>

\* The digits without the country code, which only twelve digits have.
National(d) ==
    IF Len(d) = Length + 2 /\ SubSeq(d, 1, 2) = CountryCode
    THEN SubSeq(d, 3, Len(d)) ELSE d

\* re.match(r"^[6-9]\d{9}$", digits), for digits.
IsMobile(d) == Len(d) = Length /\ d[1] \in 6..9

\* The canonical form of a national number.
Key(n) == <<Plus, 9, 1>> \o n

\* Slip for KeyOf: the country code is recognised and not removed.
KeyWithCode(d) == IF IsMobile(National(d)) THEN Key(d) ELSE NoNumber

\* What the schema makes of the digits of a text.
KeyOf(d) == IF IsMobile(National(d)) THEN Key(National(d)) ELSE NoNumber

\* _normalize_india_phone
Normalize(value) == KeyOf(Digits(value))

(* The reference *)

\* The mobile numbers of the numbering plan.
MobileNumber == {n \in [1..Length -> 0..9] : n[1] \in 6..9}

ASSUME NoNumberAssumption ==
    \A n \in [1..Length -> Digit] : Key(n) # NoNumber

\* A text is a way to write a number when its digits are those of the number,
\* with the country code or without it.
Spells(value, n) == Digits(value) \in {n, CountryCode \o n}

\* A text without digits of other scripts.
Plain(value) == Digits(value) \in Seq(0..9)
=============================================================================
