--------------------------- MODULE ConsoleNumber ---------------------------
(***************************************************************************)
(* How both consoles read a number (serial_number_read, also its 32-bit    *)
(* form, and math_power): the digits up to the first other character, then *)
(* their sum, the last digit first, in the width of the variables.  The    *)
(* buffer holds ten characters, the one that ends the number included.     *)
(***************************************************************************)
EXTENDS Integers, SequencesExt

CONSTANTS WordSize,   \* the values of number, 2^16 or 2^32
          LongSize,   \* the values of number_2, 2^32
          Digits,     \* digits that are typed
          DigitMax    \* most digits of a number (a bound)

(* number is not wider than number_2; the buffer is not overrun.           *)
ASSUME ConsoleNumberAssumption ==
  /\ WordSize \in Nat \ {0} /\ LongSize \in Nat \ {0}
  /\ LongSize % WordSize = 0
  /\ Digits \subseteq 0..9
  /\ DigitMax \in 0..9

VARIABLE typed

NumberTypeOK == typed \in Seq(Digits) /\ Len(typed) <= DigitMax

NumberInit == typed = <<>>

TypeDigit ==
  /\ Len(typed) < DigitMax
  /\ \E d \in Digits : typed' = Append(typed, d)

NumberSpec == NumberInit /\ [][TypeDigit]_typed

(* Mutant: one factor too many.                                            *)
Mutant_MathPower(base, exponential) ==
  IF exponential = 0 THEN 1
  ELSE LET number_2[i \in 0..exponential] ==
             IF i = 0 THEN base ELSE (number_2[i - 1] * base) % LongSize
       IN number_2[exponential]

MathPower(base, exponential) ==
  IF exponential = 0 THEN 1
  ELSE LET number_2[i \in 0..(exponential - 1)] ==
             IF i = 0 THEN base ELSE (number_2[i - 1] * base) % LongSize
       IN number_2[exponential - 1]

SerialNumber(c) ==
  LET number[n \in 0..Len(c)] ==
        IF n = 0 THEN 0
        ELSE (number[n - 1] + c[Len(c) - n + 1] * MathPower(10, n - 1)) % WordSize
  IN number[Len(c)]

(* What the digits say, read from the left.                                *)
Decimal(c) == FoldLeft(LAMBDA value, d : 10 * value + d, 0, c)

(* A number is read as its decimal value, in the width of the variable:    *)
(* exactly if it fits, and otherwise modulo that width.                    *)
NumberIsDecimal == SerialNumber(typed) = Decimal(typed) % WordSize
=============================================================================
