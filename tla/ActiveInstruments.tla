-------------------------- MODULE ActiveInstruments --------------------------
(***************************************************************************)
(* FindActiveInstruments (application/active_instruments.go): a search     *)
(* over the catalog of an exchange's market, by 24-hour statistics and by  *)
(* NATR, that reads Market Data up to twice and once more for every        *)
(* instrument the statistics leave in.                                     *)
(*                                                                         *)
(* The clock is read once for the search and again by every GetNATR inside *)
(* it, and it need not advance in between: it is the system's.  The        *)
(* context may end at any moment; Market Data may answer anything, or      *)
(* never.  A GetNATR is its two ends here, the checks before its read and  *)
(* what it makes of the answer; Analysis has the rest.                     *)
(***************************************************************************)
EXTENDS Calendar, Sorting

CONSTANTS
  Requests,        \* the requests a caller may send
  Catalogs,        \* what ListInstruments may return
  Snapshots,       \* what ListMarketStats may return
  NATRs,           \* the NATR values candles may have
  Failures,        \* the error categories of a failed read or a bad answer
  Clock,           \* the instants the clock may show
  Day,             \* the interval "1d"
  DefaultPeriod,   \* defaultActiveNATRPeriod
  MaxPeriod        \* maxActiveNATRPeriod

Absent == -1   \* an optional field that is not there

(* "plain": every threshold present is a nonnegative decimal or integer.   *)
Threshold == Nat \cup {Absent}
Request == [named : BOOLEAN, plain : BOOLEAN, minVolume : Threshold, minTrades : Threshold,
            minNATR : Threshold, period : Threshold]

(* "own": of the exchange and market asked for, with a valid symbol.       *)
Row  == [symbol : Nat, own : BOOLEAN, trading : BOOLEAN]
Stat == [symbol : Nat, own : BOOLEAN, volume : Nat, trades : Nat \cup {Absent}]

ASSUME ActiveAssumption ==
  /\ Requests \subseteq Request
  /\ Catalogs \subseteq Seq(Row)
  /\ Snapshots \subseteq Seq(Stat)
  /\ NATRs \subseteq Nat
  /\ {"none", "ok"} \cap Failures = {}
  /\ Clock \subseteq 0 .. LastInstant
  /\ Day \in Intervals /\ Day.seconds > 0
  /\ DefaultPeriod \in 1 .. MaxPeriod

VARIABLES
  request, ctx, pc,
  evaluatedAt,   \* the clock at the start of the search
  catalog,       \* the rows of the catalog
  stats,         \* the rows of the statistics
  row,           \* the row the loop is at
  reads,         \* the candle reads so far, each of a symbol and a window
  natr,          \* the NATR each read gave, by symbol
  matched,       \* the symbols of the matching rows, in catalog order
  result,        \* the symbols returned
  outcome        \* "none", "ok", or the category of the error

inputs == <<request, catalog, stats>>
vars == <<inputs, ctx, pc, evaluatedAt, row, reads, natr, matched, result, outcome>>

NoNATR == [s \in {} |-> 0]

Init ==
  /\ request \in Requests
  /\ ctx = "live"
  /\ pc = "validate"
  /\ evaluatedAt = NoInstant
  /\ catalog = <<>> /\ stats = <<>>
  /\ row = 1
  /\ reads = <<>> /\ natr = NoNATR
  /\ matched = <<>> /\ result = <<>>
  /\ outcome = "none"

EndWith(kind) == pc' = "done" /\ outcome' = kind
Stay == UNCHANGED <<pc, outcome>>

(* Every step of the handler but the last looks at the context.            *)
Live(step) == pc = step /\ ctx = "live"
-----------------------------------------------------------------------------
NeedsStats == request.minVolume # Absent \/ request.minTrades # Absent
NeedsNATR  == request.minNATR # Absent
Period     == IF request.period = Absent THEN DefaultPeriod ELSE request.period

ValidFilters ==
  /\ request.named /\ request.plain
  /\ request.period # Absent => request.period \in 1 .. MaxPeriod /\ NeedsNATR

Validate ==
  /\ pc = "validate"
  /\ IF ValidFilters
       THEN evaluatedAt' \in Clock /\ pc' = "catalog" /\ UNCHANGED outcome
       ELSE EndWith("invalid_parameter") /\ UNCHANGED evaluatedAt
  /\ UNCHANGED <<inputs, ctx, row, reads, natr, matched, result>>

CatalogArrives ==
  /\ Live("catalog")
  /\ catalog' \in Catalogs
  /\ pc' = IF NeedsStats THEN "stats" ELSE "rows"
  /\ UNCHANGED <<request, stats, ctx, evaluatedAt, row, reads, natr, matched, result, outcome>>

(* Every row of the statistics is validated, whatever the catalog holds.   *)
Unique(rows) == \A j, k \in 1 .. Len(rows) : rows[j].symbol = rows[k].symbol => j = k

SoundStats(rows) == Unique(rows) /\ \A k \in 1 .. Len(rows) : rows[k].own

StatsArrive ==
  /\ Live("stats")
  /\ stats' \in Snapshots
  /\ IF SoundStats(stats')
       THEN pc' = "rows" /\ UNCHANGED outcome
       ELSE EndWith("invalid_market_data")
  /\ UNCHANGED <<request, catalog, ctx, evaluatedAt, row, reads, natr, matched, result>>
-----------------------------------------------------------------------------
(* The loop over the catalog.                                              *)
Current == catalog[row]

MeetsTradesOrNone(stat) ==   \* fault: a missing count is taken for a zero
  request.minTrades = Absent \/ (IF stat.trades = Absent THEN 0 ELSE stat.trades) >= request.minTrades

MeetsTrades(stat) ==
  request.minTrades = Absent \/ (stat.trades # Absent /\ stat.trades >= request.minTrades)

MeetsVolume(stat) == request.minVolume = Absent \/ stat.volume >= request.minVolume

PassesStats(symbol) ==
  NeedsStats =>
    \E k \in 1 .. Len(stats) :
      stats[k].symbol = symbol /\ MeetsVolume(stats[k]) /\ MeetsTrades(stats[k])

SoundRow ==
  /\ Current.own
  /\ \A k \in 1 .. row - 1 : catalog[k].symbol # Current.symbol

RejectRow ==
  /\ Live("rows")
  /\ row <= Len(catalog)
  /\ ~SoundRow
  /\ EndWith("invalid_market_data")
  /\ UNCHANGED <<inputs, ctx, evaluatedAt, row, reads, natr, matched, result>>

SkipRow ==
  /\ Live("rows")
  /\ row <= Len(catalog)
  /\ SoundRow
  /\ ~(Current.trading /\ PassesStats(Current.symbol))
  /\ row' = row + 1
  /\ Stay
  /\ UNCHANGED <<inputs, ctx, evaluatedAt, reads, natr, matched, result>>

TakeRow ==
  /\ Live("rows")
  /\ row <= Len(catalog)
  /\ SoundRow
  /\ Current.trading /\ PassesStats(Current.symbol)
  /\ ~NeedsNATR
  /\ row' = row + 1
  /\ matched' = Append(matched, Current.symbol)
  /\ Stay
  /\ UNCHANGED <<inputs, ctx, evaluatedAt, reads, natr, result>>

(* GetNATR, up to its read: the range ends at the search's instant, and is *)
(* held against the clock as it is now.                                    *)
WindowNow(now) == RangeOf(Day, now, Period + 1)   \* fault: each row has a range of its own

Window(now) == RangeOf(Day, evaluatedAt, Period + 1)

AskNATROfAll ==   \* fault: candles are read before the statistics are looked at
  /\ Live("rows")
  /\ row <= Len(catalog)
  /\ SoundRow
  /\ Current.trading
  /\ NeedsNATR
  /\ \E now \in Clock :
       IF Window(now) # NoRange /\ Window(now).to <= Floor(Day, now)
         THEN /\ reads' = Append(reads, [symbol |-> Current.symbol, window |-> Window(now)])
              /\ pc' = "natr" /\ UNCHANGED outcome
         ELSE EndWith("invalid_parameter") /\ UNCHANGED reads
  /\ UNCHANGED <<inputs, ctx, evaluatedAt, row, natr, matched, result>>

AskNATR ==
  /\ Live("rows")
  /\ row <= Len(catalog)
  /\ SoundRow
  /\ Current.trading /\ PassesStats(Current.symbol)
  /\ NeedsNATR
  /\ \E now \in Clock :
       IF Window(now) # NoRange /\ Window(now).to <= Floor(Day, now)
         THEN /\ reads' = Append(reads, [symbol |-> Current.symbol, window |-> Window(now)])
              /\ pc' = "natr" /\ UNCHANGED outcome
         ELSE EndWith("invalid_parameter") /\ UNCHANGED reads
  /\ UNCHANGED <<inputs, ctx, evaluatedAt, row, natr, matched, result>>

NATRArrives ==
  /\ Live("natr")
  /\ \E value \in NATRs :
       /\ natr' = [s \in DOMAIN natr \cup {Current.symbol} |->
                     IF s = Current.symbol THEN value ELSE natr[s]]
       /\ matched' = IF value >= request.minNATR THEN Append(matched, Current.symbol) ELSE matched
  /\ row' = row + 1
  /\ pc' = "rows"
  /\ UNCHANGED <<inputs, ctx, evaluatedAt, reads, result, outcome>>

(* The rows are sorted by symbol, and the response fits or does not.       *)
Finish ==
  /\ pc = "rows"
  /\ row > Len(catalog)
  /\ \/ result' \in Ascending(matched) /\ EndWith("ok")
     \/ UNCHANGED result /\ EndWith("response_too_large")
  /\ UNCHANGED <<inputs, ctx, evaluatedAt, row, reads, natr, matched>>
-----------------------------------------------------------------------------
ReadFails ==
  /\ pc \in {"catalog", "stats", "natr"}
  /\ \E kind \in Failures : EndWith(kind)
  /\ UNCHANGED <<inputs, ctx, evaluatedAt, row, reads, natr, matched, result>>

InterruptedInLoop ==   \* fault: GetNATR is given a context without the search's deadline
  /\ ctx # "live"
  /\ pc \in {"catalog", "stats"} \/ (pc = "rows" /\ row <= Len(catalog))
  /\ EndWith(IF ctx = "canceled" THEN "request_canceled" ELSE "request_timeout")
  /\ UNCHANGED <<inputs, ctx, evaluatedAt, row, reads, natr, matched, result>>

Interrupted ==
  /\ ctx # "live"
  /\ pc \in {"catalog", "stats", "natr"} \/ (pc = "rows" /\ row <= Len(catalog))
  /\ EndWith(IF ctx = "canceled" THEN "request_canceled" ELSE "request_timeout")
  /\ UNCHANGED <<inputs, ctx, evaluatedAt, row, reads, natr, matched, result>>

Handler ==
  \/ Validate \/ RejectRow \/ SkipRow \/ TakeRow \/ AskNATR \/ Finish \/ Interrupted

EndContext(how) ==
  /\ pc # "done"
  /\ ctx = "live"
  /\ ctx' = how
  /\ UNCHANGED <<inputs, pc, evaluatedAt, row, reads, natr, matched, result, outcome>>

Cancel == EndContext("canceled")
Expire == EndContext("expired")

Next ==
  \/ Handler \/ CatalogArrives \/ StatsArrive \/ NATRArrives \/ ReadFails
  \/ Cancel \/ Expire

Spec == Init /\ [][Next]_vars

(* The handler runs and its deadline passes; Market Data owes no answer.   *)
FairSpec == Spec /\ WF_vars(Handler) /\ WF_vars(Expire)
-----------------------------------------------------------------------------
TypeOK ==
  /\ request \in Requests
  /\ ctx \in {"live", "canceled", "expired"}
  /\ pc \in {"validate", "catalog", "stats", "rows", "natr", "done"}
  /\ evaluatedAt \in {NoInstant} \cup Clock
  /\ catalog \in Catalogs \cup {<<>>}
  /\ stats \in Snapshots \cup {<<>>}
  /\ row \in 1 .. Len(catalog) + 1
  /\ \A k \in 1 .. Len(reads) :
       reads[k].symbol \in Nat /\ ValidTime(reads[k].window.from) /\ ValidTime(reads[k].window.to)
  /\ \A s \in DOMAIN natr : natr[s] \in NATRs
  /\ matched \in Seq(Nat) /\ result \in Seq(Nat)
  /\ outcome \in {"none", "ok", "invalid_parameter", "invalid_market_data", "request_canceled",
                  "request_timeout", "response_too_large"} \cup Failures

(***************************************************************************)
(* A search that succeeds returns the trading instruments that meet every  *)
(* threshold, each once and sorted by symbol, and nothing else; a present  *)
(* zero threshold still requires the data (docs/api.md, "Find active       *)
(* instruments").  Any unsound row of either snapshot fails it.            *)
(***************************************************************************)
Symbols(rows) == {rows[k].symbol : k \in 1 .. Len(rows)}

StatOf(symbol) == CHOOSE stat \in {stats[k] : k \in 1 .. Len(stats)} : stat.symbol = symbol

Qualifies(line) ==
  /\ line.trading
  /\ NeedsStats =>
       /\ line.symbol \in Symbols(stats)
       /\ StatOf(line.symbol).volume >= request.minVolume
       /\ StatOf(line.symbol).trades >= request.minTrades
  /\ NeedsNATR => line.symbol \in DOMAIN natr /\ natr[line.symbol] >= request.minNATR

ResultIsExact ==
  outcome = "ok" =>
    /\ {result[k] : k \in 1 .. Len(result)} =
         {line.symbol : line \in {l \in {catalog[k] : k \in 1 .. Len(catalog)} : Qualifies(l)}}
    /\ \A k \in 1 .. Len(result) - 1 : result[k] < result[k + 1]
    /\ Unique(catalog) /\ Unique(stats)
    /\ \A k \in 1 .. Len(catalog) : catalog[k].own

(***************************************************************************)
(* Every instrument is measured over the same candles, those closed when   *)
(* the search began, however long it takes and whatever the clock does.    *)
(***************************************************************************)
SameWindow ==
  \A k \in 1 .. Len(reads) :
    /\ reads[k].window.to <= evaluatedAt
    /\ reads[k].window = reads[1].window

(***************************************************************************)
(* Candles are read once for a trading instrument that passes the          *)
(* statistics, and never for another row (docs/api.md, "Find active        *)
(* instruments").                                                          *)
(***************************************************************************)
ReadsAreNeeded ==
  /\ Unique(reads)
  /\ \A k \in 1 .. Len(reads) :
       LET symbol == reads[k].symbol
       IN  /\ \E line \in {catalog[j] : j \in 1 .. Len(catalog)} :
                line.symbol = symbol /\ line.trading /\ line.own
           /\ NeedsStats =>
                /\ symbol \in Symbols(stats)
                /\ StatOf(symbol).volume >= request.minVolume
                /\ StatOf(symbol).trades >= request.minTrades

(* Every search ends, whatever Market Data does.                           *)
SearchEnds == <>(pc = "done")

(***************************************************************************)
(* docs/architecture.md, "Failure boundaries": "Invalid caller fields fail *)
(* before Market Data is called", so an invalid parameter is reported only *)
(* of a request that is invalid.                                           *)
(***************************************************************************)
InvalidFieldsReadNothing == outcome = "invalid_parameter" => ~ValidFilters
=============================================================================
