------------------------- MODULE MCReversalExtrema -------------------------
(* Instances of ReversalExtrema for TLC.                                   *)
EXTENDS ReversalResponse

CONSTANT MaxPrice   \* prices are 1 .. MaxPrice

(* Division rounds half away from zero to a whole unit of price.           *)
RoundedQuotient(a, b) == (2 * a + b) \div (2 * b)

ATR == INSTANCE WilderATR WITH Divide <- RoundedQuotient
WilderSequence(s) == ATR!ATRSequenceOf(s, ATRPeriod)

AllCandles ==
  { c \in [high : 1 .. MaxPrice, low : 1 .. MaxPrice, close : 1 .. MaxPrice] :
      c.low <= c.close /\ c.close <= c.high }

=============================================================================
