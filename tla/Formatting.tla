----------------------------- MODULE Formatting -----------------------------
(***************************************************************************)
(* Significant digits, and the numbers of a response, from                 *)
(* internal/domain/decimal.go: ties are rounded away from zero.            *)
(*                                                                         *)
(* A decimal is a natural number of some smallest unit; a digit below that *)
(* unit is rounded away, so an instance has to choose its unit small.      *)
(***************************************************************************)
EXTENDS Integers

CONSTANT
  OutputDigits     \* significant digits of a number in a response: 8 in the code

ASSUME OutputDigitsAssumption == OutputDigits \in Nat \ {0}

PowerOfTen[n \in Nat] == IF n = 0 THEN 1 ELSE 10 * PowerOfTen[n - 1]

(* The number of decimal digits of a natural.                              *)
Places(n) ==
  CHOOSE k \in 1 .. n + 1 : n < PowerOfTen[k] /\ (k = 1 \/ PowerOfTen[k - 1] <= n)

(* The value of the last of `digits' significant digits of a number that   *)
(* has n as its integral part.                                             *)
LastDigit(n, digits) == IF Places(n) <= digits THEN 1 ELSE PowerOfTen[Places(n) - digits]

(* a / b to the nearest multiple of step; DivRound and Round round a tie   *)
(* away from zero.                                                         *)
RoundedQuotient(a, b, step) == ((2 * a + b * step) \div (2 * b * step)) * step

FormatNumber(value) == RoundedQuotient(value, 1, LastDigit(value, OutputDigits))
=============================================================================
