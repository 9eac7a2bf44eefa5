------------------------------ MODULE Analysis ------------------------------
(***************************************************************************)
(* One analysis request, from the mapped Protobuf message to the status of *)
(* the call: the handlers of transport/grpc, the Get operations and        *)
(* prepare of application/analyzer.go, the Market Data adapter,            *)
(* parseSource, and NewCandleSeries.                                       *)
(*                                                                         *)
(* Requests share nothing but the connection, so one request is all of     *)
(* them.  What interferes with it is its context, which the caller or a    *)
(* deadline ends at any moment and which the code looks at only between    *)
(* steps, and Market Data, which may answer anything, or never.            *)
(*                                                                         *)
(* What is calculated from the series is left to the modules of the        *)
(* calculations; here a calculation looks at the context a last time.      *)
(***************************************************************************)
EXTENDS Calendar, Errors

CONSTANTS
  Requests,      \* the requests a caller may send
  Answers,       \* the series Market Data may answer with
  UpstreamCodes  \* the status codes a call of Market Data may fail with

(* Settings that are missing or cannot be parsed are "malformed"; those    *)
(* that can need a number of candles, out of reach if no number will do.   *)
Request == [settings : {"malformed", "parsed"}, needs : Nat, named : BOOLEAN,
            interval : Intervals, to : Int, count : Nat]

(* A candle's texts are decimals or not; its values are within bounds or   *)
(* not.  A series names the instrument and interval asked for or not.      *)
Candle == [parses : BOOLEAN, sound : BOOLEAN, open : Int, close : Int]
Answer == [matches : BOOLEAN, candles : Seq(Candle)]

ASSUME AnalysisAssumption ==
  /\ Requests \subseteq Request
  /\ Answers \subseteq Answer
  /\ {"OK", "unread"} \cap UpstreamCodes = {}

VARIABLES
  request,       \* what the caller sent
  ctx,           \* the request's context: "live", "canceled" or "expired"
  pc,            \* where the handler is
  evaluatedAt,   \* the clock, read once
  asked,         \* the range Market Data was asked for
  status,        \* of the read: "unread", "OK" or the code it failed with
  answer,        \* the series it returned
  index,         \* the candle a loop is at
  opening,       \* where the next candle has to open
  series,        \* the candles validated so far
  outcome        \* "none", "ok", or the kind of the error

vars == <<request, ctx, pc, evaluatedAt, asked, status, answer, index, opening, series, outcome>>

NoAnswer == [matches |-> FALSE, candles |-> <<>>]
Loaded == answer.candles

Init ==
  /\ request \in Requests
  /\ ctx = "live"
  /\ pc = "parse"
  /\ evaluatedAt = NoInstant
  /\ asked = NoRange
  /\ status = "unread"
  /\ answer = NoAnswer
  /\ index = 1
  /\ opening = NoInstant
  /\ series = <<>>
  /\ outcome = "none"

EndWith(kind) == pc' = "done" /\ outcome' = kind

Live(step) == pc = step /\ ctx = "live"
-----------------------------------------------------------------------------
(* The settings, before the clock is read.                                 *)
ParseSettings ==
  /\ pc = "parse"
  /\ IF request.settings = "parsed"
       THEN pc' = "prepare" /\ UNCHANGED outcome
       ELSE EndWith("invalid_parameter")
  /\ UNCHANGED <<request, ctx, evaluatedAt, asked, status, answer, index, opening, series>>

(* prepare, up to the read: the clock, the selection, the settings against *)
(* the count, and the range against the last closed candle.                *)
Planned == RangeOf(request.interval, request.to, request.count)

AcceptableOpen(now) ==   \* fault: the range's start, not its end, has to be closed
  /\ request.named
  /\ Planned # NoRange
  /\ request.needs <= request.count
  /\ Floor(request.interval, now) # NoInstant
  /\ Planned.from <= Floor(request.interval, now)

AcceptableUnmatched(now) ==   \* fault: settings are not validated against the count
  /\ request.named
  /\ Planned # NoRange
  /\ Floor(request.interval, now) # NoInstant
  /\ Planned.to <= Floor(request.interval, now)

Acceptable(now) ==
  /\ request.named
  /\ Planned # NoRange
  /\ request.needs <= request.count
  /\ Floor(request.interval, now) # NoInstant
  /\ Planned.to <= Floor(request.interval, now)

Prepare ==
  /\ pc = "prepare"
  /\ \E now \in 0 .. LastInstant :
       /\ evaluatedAt' = now
       /\ IF Acceptable(now)
            THEN pc' = "read" /\ asked' = Planned /\ UNCHANGED outcome
            ELSE EndWith("invalid_parameter") /\ UNCHANGED asked
  /\ UNCHANGED <<request, ctx, status, answer, index, opening, series>>
-----------------------------------------------------------------------------
(* The read: an answer, an error, or a context that ends first.  An answer *)
(* may still come when the context is done.                                *)
Receive ==
  /\ pc = "read"
  /\ answer' \in Answers
  /\ status' = "OK"
  /\ pc' = "source"
  /\ UNCHANGED <<request, ctx, evaluatedAt, asked, index, opening, series, outcome>>

UpstreamFails ==
  /\ pc = "read"
  /\ \E code \in UpstreamCodes : status' = code /\ EndWith(KindOf(code))
  /\ UNCHANGED <<request, ctx, evaluatedAt, asked, answer, index, opening, series>>

ContextError == IF ctx = "canceled" THEN "request_canceled" ELSE "request_timeout"

ReadInterruptedByCaller ==   \* fault: Market Data is called without the request's deadline
  /\ pc = "read"
  /\ ctx = "canceled"
  /\ EndWith(ContextError)
  /\ UNCHANGED <<request, ctx, evaluatedAt, asked, status, answer, index, opening, series>>

ReadInterrupted ==
  /\ pc = "read"
  /\ ctx # "live"
  /\ EndWith(ContextError)
  /\ UNCHANGED <<request, ctx, evaluatedAt, asked, status, answer, index, opening, series>>

(* parseSource: the context and the texts of each candle.                  *)
ParseCandle ==
  /\ Live("source")
  /\ index <= Len(Loaded)
  /\ IF Loaded[index].parses
       THEN index' = index + 1 /\ UNCHANGED <<pc, outcome>>
       ELSE EndWith("invalid_market_data") /\ UNCHANGED index
  /\ UNCHANGED <<request, ctx, evaluatedAt, asked, status, answer, opening, series>>

(* NewCandleSeries: identity, interval and count, then slot by slot.  The  *)
(* range needs no check: the adapter returns the one it was asked for.     *)
CheckSeriesShortOrFull ==   \* fault: a series with candles missing at its end passes
  /\ Live("source")
  /\ index > Len(Loaded)
  /\ IF answer.matches /\ Len(Loaded) <= request.count
       THEN pc' = "series" /\ index' = 1 /\ opening' = asked.from /\ UNCHANGED outcome
       ELSE EndWith("invalid_market_data") /\ UNCHANGED <<index, opening>>
  /\ UNCHANGED <<request, ctx, evaluatedAt, asked, status, answer, series>>

CheckSeries ==
  /\ Live("source")
  /\ index > Len(Loaded)
  /\ IF answer.matches /\ Len(Loaded) = request.count
       THEN pc' = "series" /\ index' = 1 /\ opening' = asked.from /\ UNCHANGED outcome
       ELSE EndWith("invalid_market_data") /\ UNCHANGED <<index, opening>>
  /\ UNCHANGED <<request, ctx, evaluatedAt, asked, status, answer, series>>

Closing == Shift(request.interval, opening, 1)

FitsOpenSlot(candle) ==   \* fault: a candle may close late
  candle.open = opening /\ candle.close >= Closing /\ candle.sound

FitsSlot(candle) == candle.open = opening /\ candle.close = Closing /\ candle.sound

ValidateCandle ==
  /\ Live("series")
  /\ index <= Len(Loaded)
  /\ IF Closing # NoInstant /\ FitsSlot(Loaded[index])
       THEN /\ series' = Append(series, Loaded[index])
            /\ opening' = Closing
            /\ index' = index + 1
            /\ UNCHANGED <<pc, outcome>>
       ELSE EndWith("invalid_market_data") /\ UNCHANGED <<index, opening, series>>
  /\ UNCHANGED <<request, ctx, evaluatedAt, asked, status, answer>>

CompleteSeries ==
  /\ Live("series")
  /\ index > Len(Loaded)
  /\ pc' = "calculate"
  /\ UNCHANGED <<request, ctx, evaluatedAt, asked, status, answer, index, opening, series, outcome>>

(* The last look at the context is the calculation's.                      *)
CalculateRegardless ==   \* fault: the context is not looked at
  /\ pc = "calculate"
  /\ pc' = "respond"
  /\ UNCHANGED <<request, ctx, evaluatedAt, asked, status, answer, index, opening, series, outcome>>

Calculate ==
  /\ Live("calculate")
  /\ pc' = "respond"
  /\ UNCHANGED <<request, ctx, evaluatedAt, asked, status, answer, index, opening, series, outcome>>

Interrupted ==
  /\ pc \in {"source", "series", "calculate"}
  /\ ctx # "live"
  /\ EndWith(ContextError)
  /\ UNCHANGED <<request, ctx, evaluatedAt, asked, status, answer, index, opening, series>>

(* checkSize: the whole response, or none of it.                           *)
Respond ==
  /\ pc = "respond"
  /\ \E kind \in {"ok", "response_too_large"} : EndWith(kind)
  /\ UNCHANGED <<request, ctx, evaluatedAt, asked, status, answer, index, opening, series>>
-----------------------------------------------------------------------------
Handler ==
  \/ ParseSettings \/ Prepare
  \/ ReadInterrupted
  \/ ParseCandle \/ CheckSeries \/ ValidateCandle \/ CompleteSeries
  \/ Calculate \/ Interrupted \/ Respond

(* The caller gives up; a deadline, the caller's or the service's, passes. *)
EndContext(how) ==
  /\ pc # "done"
  /\ ctx = "live"
  /\ ctx' = how
  /\ UNCHANGED <<request, pc, evaluatedAt, asked, status, answer, index, opening, series, outcome>>

Cancel == EndContext("canceled")
Expire == EndContext("expired")

Next == Handler \/ Receive \/ UpstreamFails \/ Cancel \/ Expire

Spec == Init /\ [][Next]_vars

(* The handler runs and its deadline passes; Market Data owes no answer.   *)
FairSpec == Spec /\ WF_vars(Handler) /\ WF_vars(Expire)
-----------------------------------------------------------------------------
TypeOK ==
  /\ request \in Requests
  /\ ctx \in {"live", "canceled", "expired"}
  /\ pc \in {"parse", "prepare", "read", "source", "series", "calculate", "respond", "done"}
  /\ evaluatedAt \in {NoInstant} \cup 0 .. LastInstant
  /\ asked \in [from : {NoInstant} \cup 0 .. LastInstant, to : {NoInstant} \cup 0 .. LastInstant]
  /\ status \in {"unread", "OK"} \cup UpstreamCodes
  /\ answer \in Answers \cup {NoAnswer}
  /\ index \in Nat \ {0}
  /\ opening \in {NoInstant} \cup 0 .. LastInstant
  /\ series \in Seq(Candle)
  /\ outcome \in {"none", "ok"} \cup ErrorKinds

(***************************************************************************)
(* The series that is analyzed is the one that was selected: planned       *)
(* backwards from its end in one shift, validated forwards slot by slot,   *)
(* it starts and ends with the range, without a gap.                       *)
(***************************************************************************)
SeriesCoversRange ==
  pc \in {"calculate", "respond"} \/ outcome = "ok" =>
    /\ Len(series) = request.count
    /\ series[1].open = asked.from
    /\ series[Len(series)].close = asked.to
    /\ \A k \in 1 .. Len(series) - 1 : series[k].close = series[k + 1].open

(* No candle that was still open at evaluated_at is analyzed.              *)
OnlyClosedCandles ==
  \A k \in 1 .. Len(series) : series[k].close <= evaluatedAt

(***************************************************************************)
(* Invalid caller fields fail before Market Data is called                 *)
(* (docs/architecture.md, "Failure boundaries"), and nothing else is       *)
(* called an invalid parameter: a well-formed request is refused only when *)
(* its range is not over at evaluated_at.                                  *)
(***************************************************************************)
WellFormed ==
  /\ request.settings = "parsed"
  /\ request.named
  /\ Planned # NoRange
  /\ request.needs <= request.count

InvalidFieldsReadNothing ==
  /\ asked # NoRange => WellFormed /\ Planned.to <= evaluatedAt /\ outcome # "invalid_parameter"
  /\ outcome = "invalid_parameter" /\ WellFormed => Planned.to > evaluatedAt

(***************************************************************************)
(* A data error is reported exactly for data that is not the series asked  *)
(* for; a context error only for a context that ended, here or, as Market  *)
(* Data tells it, there; and an invalid parameter as said above.  So an    *)
(* error names the one of the three that is to blame.                      *)
(***************************************************************************)
Faithful ==
  /\ answer.matches
  /\ Len(Loaded) = request.count
  /\ \A k \in 1 .. Len(Loaded) :
       /\ Loaded[k].parses
       /\ Loaded[k].sound
       /\ Loaded[k].open = Shift(request.interval, asked.from, k - 1)
       /\ Loaded[k].close = Shift(request.interval, asked.from, k)

AnswersAreJudged ==
  /\ outcome = "invalid_market_data" /\ status = "OK" => ~Faithful
  /\ outcome = "ok" => status = "OK" /\ Faithful
  /\ outcome = "request_canceled" => ctx = "canceled" \/ status = "Canceled"
  /\ outcome = "request_timeout" => ctx = "expired" \/ status = "DeadlineExceeded"

ErrorsAreAttributed == InvalidFieldsReadNothing /\ AnswersAreJudged

(***************************************************************************)
(* The status code of a failed call alone tells a caller what to do, by    *)
(* the table of docs/api.md, "Errors": the code Market Data failed with    *)
(* comes through both mappings unchanged unless it is one a caller can do  *)
(* nothing about, and only then, or when Market Data was not to blame, is  *)
(* another code given: InvalidArgument to whoever sent an invalid field,   *)
(* NotFound, FailedPrecondition and Unavailable to nobody.                 *)
(***************************************************************************)
Actionable ==
  {"InvalidArgument", "NotFound", "FailedPrecondition", "DataLoss", "Unavailable",
   "ResourceExhausted", "Canceled", "DeadlineExceeded", "Unimplemented"}

CodesComeThrough ==
  outcome \notin {"none", "ok"} =>
    LET code == CodeFor(outcome)
    IN  /\ status \in Actionable => code = status
        /\ status \notin Actionable \cup {"unread", "OK"} => code = "Internal"
        /\ code = "InvalidArgument" /\ status # "InvalidArgument" => asked = NoRange
        /\ code \in {"NotFound", "FailedPrecondition", "Unavailable", "Unimplemented"} =>
             status = code

(* A request whose context ends before its last look at it fails.          *)
EndedContextFails ==
  (ctx # "live" /\ pc \notin {"respond", "done"}) ~> (outcome \notin {"none", "ok"})

(* Every request ends, whatever Market Data does.                          *)
RequestEnds == <>(pc = "done")
=============================================================================
