------------------------------ MODULE Numbers ------------------------------
(***************************************************************************)
(* Numbers as text: what printf makes of one (ui2a, i2a and putchw,        *)
(* printf.c), and what strtol and strtoul make of a text (libc_stub.c).    *)
(* An execution prints a number and reads it again, or reads some text.    *)
(* Letters are lower case; numbers are of Word values and not of 2^32.     *)
(***************************************************************************)
EXTENDS Integers, Sequences, SequencesExt

CONSTANTS
    Word,       \* number of values of an int, or a long
    BfSize,     \* the array that the digits are put into
    Fields,     \* widths of fields
    Chars,      \* of texts
    Texts,      \* texts to read
    Bases       \* bases to read them in

\* What the constants are assumed to be.
NumbersAssumption ==
    /\ Word \in Nat /\ Word > 16 /\ Word % 2 = 0
    /\ BfSize \in Nat
    /\ Fields \subseteq Nat
    /\ Bases \subseteq {0} \cup 2 .. 16
    /\ Texts \subseteq Seq(Chars)

Digits == <<"0", "1", "2", "3", "4", "5", "6", "7", "8", "9",
            "a", "b", "c", "d", "e", "f">>

\* A text's character as a digit; no character is "".
DigitOf(c) == IF c \in ToSet(Digits) THEN SelectInSeq(Digits, LAMBDA x : x = c) - 1
              ELSE 99

VARIABLES
    pc,
    conv,       \* what is printed: conversion, number, width, zeros
    num, d, bf, \* ui2a's
    text,
    base, pos, neg, acc, any,   \* strtol's, any after overflow being -1
    result      \* and what it returns, with the end of the number

vars == <<pc, conv, num, d, bf, text, base, pos, neg, acc, any, result>>

printing == <<conv, num, d, bf>>
reading  == <<base, pos, neg, acc, any, result>>

NoResult == [value |-> 0, end |-> 0]

Conversions == [kind : {"u", "d", "x"}, num : 0 .. (Word - 1), w : Fields,
                z : BOOLEAN]

\* kind is "" for a text that was not printed, and then w is the base.
Init ==
    /\ \/ pc = "i2a" /\ conv \in Conversions /\ text = <<>>
       \/ /\ pc = "read"
          /\ conv \in [kind : {"strtol", "strtoul"}, num : {0}, w : Bases,
                       z : {FALSE}]
          /\ text \in Texts
    /\ num = conv.num
    /\ d = 1
    /\ bf = <<>>
    /\ base = 0 /\ pos = 0 /\ neg = FALSE /\ acc = 0 /\ any = 0
    /\ result = NoResult

-----------------------------------------------------------------------------
(* Printing.                                                               *)

Radix == IF conv.kind = "x" THEN 16 ELSE 10

\* The number is negated within its width.
I2a ==
    /\ pc = "i2a"
    /\ pc' = "grow"
    /\ IF conv.kind = "d" /\ num >= Word \div 2
       THEN num' = Word - num /\ bf' = <<"-">>
       ELSE UNCHANGED <<num, bf>>
    /\ UNCHANGED <<conv, d, text, reading>>

Enough == num \div d < Radix

GrowD ==
    /\ pc = "grow"
    /\ ~Enough
    /\ d' = (d * Radix) % Word
    /\ UNCHANGED <<pc, conv, num, bf, text, reading>>

Grown ==
    /\ pc = "grow"
    /\ Enough
    /\ pc' = "digits"
    /\ UNCHANGED <<printing, text, reading>>

\* A 0 that is left out, n digits having been put: a leading one that is
\* not the last.  Mutant: leading or not.
LeftOutInside(n, dgt) == dgt = 0 /\ d \div Radix # 0

LeftOut(n, dgt) == n = 0 /\ dgt = 0 /\ d \div Radix # 0

PutDigit ==
    /\ pc = "digits"
    /\ d # 0
    /\ LET dgt == num \div d
           n   == Len(SelectSeq(bf, LAMBDA c : c # "-"))
       IN  bf' = IF LeftOut(n, dgt) THEN bf ELSE Append(bf, Digits[dgt + 1])
    /\ num' = num % d
    /\ d' = d \div Radix
    /\ UNCHANGED <<pc, conv, text, reading>>

\* putchw.
Put ==
    /\ pc = "digits"
    /\ d = 0
    /\ LET fc == IF conv.z THEN "0" ELSE " "
           n  == IF conv.w > Len(bf) THEN conv.w - Len(bf) ELSE 0
       IN  text' = [i \in 1 .. n |-> fc] \o bf
    /\ pc' = "read"
    /\ UNCHANGED <<printing, reading>>

-----------------------------------------------------------------------------
(* Reading.                                                                *)

Signed == conv.kind \in {"d", "strtol"}

At(i) == IF i \in DOMAIN text THEN text[i] ELSE ""

\* The base asked for.
AskedBase == IF conv.kind \in {"strtol", "strtoul"} THEN conv.w ELSE Radix

\* Where white space, a sign and a prefix end, each if it is there.
AfterSpace ==
    CHOOSE i \in 1 .. (Len(text) + 1) :
        At(i) # " " /\ \A j \in 1 .. (i - 1) : At(j) = " "

AfterSign == IF At(AfterSpace) \in {"-", "+"} THEN AfterSpace + 1 ELSE AfterSpace

Prefix(bases, letter) ==
    AskedBase \in bases /\ At(AfterSign) = "0" /\ At(AfterSign + 1) = letter

Begin ==
    /\ pc = "read"
    /\ neg' = (At(AfterSpace) = "-")
    /\ \/ /\ Prefix({0, 16}, "x")
          /\ base' = 16 /\ pos' = AfterSign + 2
       \/ /\ Prefix({0, 2}, "b")
          /\ base' = 2 /\ pos' = AfterSign + 2
       \/ /\ ~Prefix({0, 16}, "x") /\ ~Prefix({0, 2}, "b")
          /\ base' = IF AskedBase # 0 THEN AskedBase
                     ELSE IF At(AfterSign) = "0" THEN 8 ELSE 10
          /\ pos' = AfterSign
    /\ pc' = "loop"
    /\ UNCHANGED <<printing, text, acc, any, result>>

\* The largest legal magnitude; as a quotient and remainder it is compared
\* with what has been read before the next digit comes to it.
Largest == IF ~Signed THEN Word - 1
           ELSE IF neg THEN Word \div 2 ELSE Word \div 2 - 1

\* Mutant: the last digit is not looked at.
TooBigLoose(c) == any < 0 \/ acc > Largest \div base

TooBig(c) ==
    \/ any < 0
    \/ acc > Largest \div base
    \/ acc = Largest \div base /\ c > Largest % base

Digit ==
    /\ pc = "loop"
    /\ LET c == DigitOf(At(pos)) IN
       /\ c < base
       /\ IF TooBig(c) THEN any' = -1 /\ UNCHANGED acc
          ELSE any' = 1 /\ acc' = (acc * base + c) % Word
    /\ pos' = pos + 1
    /\ UNCHANGED <<pc, printing, text, base, neg, result>>

AsSigned(x) == IF x >= Word \div 2 THEN x - Word ELSE x

End ==
    /\ pc = "loop"
    /\ DigitOf(At(pos)) >= base
    /\ LET value == IF any < 0 THEN Largest
                    ELSE IF neg THEN (Word - acc) % Word ELSE acc
       IN  result' = [value |-> IF Signed THEN AsSigned(value) ELSE value,
                      end |-> IF any # 0 THEN pos ELSE 1]
    /\ pc' = "done"
    /\ UNCHANGED <<printing, text, base, pos, neg, acc, any>>

Next ==
    \/ I2a \/ GrowD \/ Grown \/ PutDigit \/ Put
    \/ Begin \/ Digit \/ End

Spec == Init /\ [][Next]_vars

-----------------------------------------------------------------------------
(* Properties.                                                             *)

\* Whatever number is printed, strtol or strtoul makes that number of the
\* text, and of all of it; but zeros are put before a sign.  The digits fit
\* in ui2a's array with the sign and the terminator: for an int there is not
\* one byte to spare (printf.c:140).
PrintedReadsBack ==
    /\ Len(bf) + 1 <= BfSize
    /\ pc = "done" /\ conv.kind \in {"u", "d", "x"} =>
          LET signFirst == ~conv.z \/ Len(bf) >= conv.w \/ Head(bf) # "-"
          IN  signFirst =>
                result = [value |-> IF conv.kind = "d" THEN AsSigned(conv.num)
                                    ELSE conv.num,
                          end |-> Len(text) + 1]

\* A text's value is that of its digits, as far as a number goes; one that
\* is too big becomes the largest or the smallest, and no digit is left
\* behind (libc_stub.c:141-157).
Clamped ==
    pc = "done" /\ conv.kind \in {"strtol", "strtoul"} =>
        LET first  == IF Prefix({0, 16}, "x") \/ Prefix({0, 2}, "b")
                      THEN AfterSign + 2 ELSE AfterSign
            isNumber(j) == \A k \in first .. j : DigitOf(At(k)) < base
            last   == CHOOSE j \in (first - 1) .. Len(text) :
                         isNumber(j) /\ ~isNumber(j + 1)
            upto[j \in (first - 1) .. last] ==
                IF j = first - 1 THEN 0 ELSE upto[j - 1] * base + DigitOf(At(j))
            value  == upto[last]
            signed == IF neg THEN -value ELSE value
        IN  /\ result.end = IF last < first THEN 1 ELSE last + 1
            /\ result.value =
                 IF Signed
                 THEN IF signed < -(Word \div 2) THEN -(Word \div 2)
                      ELSE IF signed > Word \div 2 - 1 THEN Word \div 2 - 1
                      ELSE signed
                 ELSE IF value > Word - 1 THEN Word - 1 ELSE signed % Word
=============================================================================
