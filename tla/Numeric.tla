------------------------------ MODULE Numeric ------------------------------
(***************************************************************************)
(* The numeric policy of internal/domain/decimal.go: exact decimals, but   *)
(* every quotient rounded to DivisionDigits significant digits and every   *)
(* number of a response to OutputDigits.                                   *)
(***************************************************************************)
EXTENDS Formatting

CONSTANT
  DivisionDigits   \* significant digits of a quotient: 16 in the code

ASSUME DivisionDigitsAssumption == DivisionDigits \in Nat \ {0}

Divide(a, b) == RoundedQuotient(a, b, LastDigit(a \div b, DivisionDigits))
=============================================================================
