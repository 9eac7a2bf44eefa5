------------------------------ MODULE Calendar ------------------------------
(***************************************************************************)
(* The candle calendar (internal/domain/calendar.go): how an instant is    *)
(* brought down to the start of its slot, how a slot boundary moves by     *)
(* whole slots, and which range a selection of candles denotes.            *)
(*                                                                         *)
(* Instants count seconds from the epoch.  An interval is what             *)
(* Interval.slot returns: the seconds of a slot and the instant the slots  *)
(* are anchored at, with zero seconds for the calendar month.              *)
(***************************************************************************)
EXTENDS Integers, Sequences, FiniteSets

CONSTANTS
  LastInstant,   \* maxTimestampSeconds
  MonthStarts    \* the instants at which the months since the epoch start

ASSUME CalendarAssumption ==
  /\ LastInstant \in Nat
  /\ MonthStarts \in Seq(0 .. LastInstant)
  /\ Len(MonthStarts) > 0
  /\ MonthStarts[1] = 0
  /\ \A j, k \in 1 .. Len(MonthStarts) : j < k => MonthStarts[j] < MonthStarts[k]

Intervals == [seconds : Nat, anchor : Nat]

(* Every error of this file is one: the caller learns of no instant.       *)
NoInstant == -1
NoRange   == [from |-> NoInstant, to |-> NoInstant]

ValidTime(t) == t \in 0 .. LastInstant

MonthOf(t) == Cardinality({k \in 1 .. Len(MonthStarts) : MonthStarts[k] <= t}) - 1

SlotStart(interval, t) ==
  IF interval.seconds = 0
    THEN MonthStarts[MonthOf(t) + 1]
    ELSE t - ((t - interval.anchor) % interval.seconds)

Floor(interval, t) ==
  IF ValidTime(t) /\ ValidTime(SlotStart(interval, t))
    THEN SlotStart(interval, t)
    ELSE NoInstant

Aligned(interval, t) == ValidTime(t) /\ Floor(interval, t) = t

ShiftMonths(boundary, months) ==
  LET month == MonthOf(boundary) + months
  IN  IF month \in 0 .. Len(MonthStarts) - 1 THEN MonthStarts[month + 1] ELSE NoInstant

ShiftSlotsBeforeEpoch(seconds, boundary, slots) ==   \* fault: no bound below
  IF slots <= (LastInstant - boundary) \div seconds
    THEN boundary + slots * seconds
    ELSE NoInstant

ShiftSlots(seconds, boundary, slots) ==
  IF slots \in -(boundary \div seconds) .. (LastInstant - boundary) \div seconds
    THEN boundary + slots * seconds
    ELSE NoInstant

Shift(interval, boundary, slots) ==
  IF ~Aligned(interval, boundary) THEN NoInstant
  ELSE IF interval.seconds = 0 THEN ShiftMonths(boundary, slots)
  ELSE ShiftSlots(interval.seconds, boundary, slots)

(* CandleSelection.Range, for a supported interval and a valid instrument. *)
RangeOf(interval, to, count) ==
  LET end   == Floor(interval, to)
      start == Shift(interval, end, -count)
  IN  IF count > 0 /\ end # NoInstant /\ start # NoInstant
        THEN [from |-> start, to |-> end]
        ELSE NoRange
=============================================================================
