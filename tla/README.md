# Formal specification of Market Analyzer

TLA+ modules for the Market Analyzer service: what its process promises at
startup and shutdown, what one request does, what the calculations and their
responses say, and what its metrics and the load test report of it.
TLC checks the modules on small instances; TLAPS proves the safety properties
that the passing runs check for every instance, all but one
(section 5 says which and why). The source is the reference for every definition;
`PROJECT.json` names the lines each definition stands for.

    tlc -config Service.cfg Service             # one file .cfg per run
    tlapm ServiceProofs.tla                     # the proofs of a module

## 1. The system

A stateless Go service. A gRPC client asks for an ATR, an NATR, extrema, a
trend, price zones or the instruments active on a market; the service reads
candles once from Market Data, another gRPC service, validates them and
calculates. Nothing is stored, cached or retried.

| Component | State | Operations | Interacts by |
| --- | --- | --- | --- |
| `cmd/market-analyzer`, `internal/service` | listeners, connection, admission flag, error channel, the goroutines of two servers, shutdown deadline | `New`, `Start`, `Shutdown`, `Admission.Open/Close`, interceptor | goroutines, channels, a flag behind a mutex; calls and HTTP requests run beside it |
| `internal/application/analyzer.go`, `internal/transport/grpc/server.go` | per request: deadline, `evaluated_at`, planned range | `GetATR` .. `GetLevels` through `prepare`, response size check | one `ReadCandles` call; the context ends it at any moment |
| `internal/application/active_instruments.go` | per request: catalog, statistics, position, matches | `FindActiveInstruments` | two snapshot reads and one `GetNATR` per surviving row |
| `internal/infrastructure/marketdata` | none | `ReadCandles`, `ReadInstruments`, `ReadMarketStats`, error mapping | remote calls that may fail, answer anything, or not answer |
| `internal/domain/calendar.go`, `series.go` | none | `Floor`, `Shift`, `Range`, `NewCandleSeries` | pure |
| `internal/domain/extrema.go` | candidates, direction, points of one pass | `DetectExtrema`, three methods | pure, looks at its context |
| `internal/domain/atr.go`, `trend.go`, `levels.go`, `decimal.go` | loop accumulators | `CalculateATR`, `CalculateNATR`, `CalculateTrend`, `CalculateLevels`, `Divide`, `FormatNumber` | pure, look at their context |
| `internal/transport/grpc/request.go`, `response.go`, `error.go` | none | map messages, error kinds and status codes | pure |
| `internal/observability`, `internal/transport/httpops` | counters and a gauge; none | record, render; health, ready, metrics | a mutex and an atomic gauge, shared by all calls and pages |
| `internal/releasevalidation`, `cmd/market-analyzer-load` | jobs, results, two pages, a report | `RunLoad`, `ParseMetrics`, `DifferenceMetrics`, the release checks | goroutines over a channel; a client of the service |

What is hard here:

- *Shutdown.* Main, two serving and two stopping goroutines, the timer and the
  handlers meet in no fixed order; a select has two ready branches; the
  connection must outlive its users.
- *Time.* A range is accepted against a clock read once (analysis) or again and
  again (search). The wall clock may step back.
- *An upstream that answers anything.* The range is planned backwards in one
  shift and validated forwards slot by slot, in three kinds of calendar.
- *Cancellation.* The context is looked at between steps and ends at any.
- *Metrics beside the calls.* A call leaves the gauge and enters the counters in
  two steps, a page reads the counters and the gauge in two steps, and the load
  test compares two pages with the answers its workers received.
- *Texts taken again.* A response takes its prices from the candles again, not
  from the points that were decided on.
- *One-pass algorithms.* The ATR, the reversal search, the trend summaries, the grouping
  into zones and the acceptance of touches keep just enough of the past; their
  contract speaks of all of it.

What makes each component correct is stated by the properties of section 4.
All hazards, each at its line, are in `PROJECT.json`.

## 2. Modules

| Module | Models | Kind |
| --- | --- | --- |
| `ServiceContract` | what the process promises about admission and shutdown | abstract specification |
| `Service` | `service/app.go`, `service/admission.go`, `main.go` | component, implements `ServiceContract` |
| `ServiceProofs` | | theorems about `Service` |
| `Calendar` | `domain/calendar.go` | functions |
| `Analysis`, `MCAnalysis` | `analyzer.go`, `source.go`, `series.go`, `grpc/server.go`, `reader.go` | component, uses `Calendar` |
| `AnalysisProofs` | | theorems about `Calendar` and `Analysis` |
| `ActiveInstruments`, `MCActiveInstruments` | `active_instruments.go`, and `prepare` as it sees it | component, uses `Calendar`, `Sorting` |
| `ActiveInstrumentsProofs` | | theorems about `ActiveInstruments` |
| `Sorting` | `sort.Slice` of the Go library, the outcome of `sortIndices` of `levels.go` | functions |
| `ReversalExtrema`, `MCReversalExtrema` | the reversal methods of `extrema.go` | component, uses `WilderATR` in its instances |
| `ReversalExtremaProofs` | | theorems about `ReversalExtrema` and `ReversalResponse`, uses `ExtremaProofs` |
| `WilderATR` | `calculateATRSequence` of `atr.go` | functions |
| `Numeric`, `Formatting` | `decimal.go` | functions |
| `LocalExtrema` | `localExtrema` of `extrema.go` | functions |
| `Extrema` | `detectExtrema` of `extrema.go`: all three methods, the reuse of an ATR sequence | functions, uses `LocalExtrema`, `WilderATR` |
| `ExtremaProofs` | | theorems about the functions of `Extrema`, `LocalExtrema` and `WilderATR` |
| `Trend`, `MCTrend` | `trend.go` | component, extends `Extrema` |
| `TrendProofs` | | theorems about `Trend`, extends `ExtremaProofs` |
| `Zones`, `MCZones` | `levels.go` | component, uses `Extrema`, `Numeric`, `Sorting` |
| `ZonesProofs` | | theorems about `Numeric`, `Zones` and `LevelsResponse`, uses `ExtremaProofs` |
| `Errors` | `mapOperationError` of `reader.go`, `error.go` | functions, used by `Analysis` |
| `Response` | `response.go`, the checks of `releasevalidation/runner.go` | functions, uses `Formatting` |
| `LevelsResponse`, `ReversalResponse` | `GetLevels`, and `GetExtrema` by reversal, with their responses | `Zones` and `ReversalExtrema` composed with `Response` |
| `Metrics` | `observability/metrics.go`, `observability/grpc.go` | component |
| `LoadTest` | `releasevalidation/load.go`, `releasevalidation/metrics.go`, `market-analyzer-load/main.go` | component, composed with `Metrics`, uses `Sorting` |
| `LoadTestProofs` | | theorems about `Metrics` and `LoadTest` |

Definitions marked `fault` are plausible bugs of the definition that follows
them. No specification uses them: each property is known to fail when one of
them takes the place of the definition (`mutants` in `PROJECT.json`).

### State and actions against the code

**Service.** `main` is the program counter of the main goroutine, with one step
per operation on shared state: the steps of `New`, three of which acquire a resource
(`Acquire`), their failures (`FailToStart`), each of which returns through the
closure that the code names there, and the closures `failAll`, `failBoth` and
`fail`, which close one resource and call the next (`Release`), until `main` exits
(`GiveUp`); `Start` (`SpawnServers`, `OpenAdmission`),
the select of `main` (`TakeSignal`, `TakeError`), and `Shutdown`
(`CloseAdmission`, `SpawnStoppers`, the select `GRPCDrainedInTime` or
`StopGRPC`, then `AwaitGRPC`, `AwaitHTTP`, `Disconnect`, whose closing of the
connection may itself be the error that `Shutdown` returns). `grpcServe`,
`httpServe`, `graceful` and `httpStop` are the goroutines of `Start` and
`Shutdown`. `call[c]` is a handler goroutine: `Arrive` starts it, `Admit` is
the interceptor's look at the flag, `Finish` its return. `errs` counts what is
in the channel of capacity two. The libraries are modelled by what `App` relies
on: `GracefulStop` waits for connections and handlers, `Stop` cancels
the handlers and waits for them, `http.Server.Shutdown` waits for requests or
for its context. `Serve` may find the server already stopped.

**Analysis.** `pc` is the position in the handler: `ParseSettings`, `Prepare`
(one reading of the clock, all validation, the range), `Receive` or
`UpstreamFails` or `ReadInterrupted` (the read), `ParseCandle`, `CheckSeries`,
`ValidateCandle`, `CompleteSeries`, `Calculate`, `Respond`. `Interrupted` is
each `ctx.Err()` of these loops. A failed read has a status code, which
`Errors!KindOf` and `Errors!CodeFor` take to the caller. Requests share no state but the connection, so
one request stands for all.

**ActiveInstruments.** `Validate`, `CatalogArrives`, `StatsArrive`, then per row
`RejectRow`, `SkipRow`, `TakeRow`, or `AskNATR` and `NATRArrives`; `Finish`
sorts: any order that `sort.Slice` may give, of which symbols without duplicates
have one. `AskNATR` reads the clock again, as `GetNATR` does.

**ReversalExtrema.** One action per way out of the loop body: `KeepSearching`,
`ConfirmHigh`, `ConfirmLow`, with the candidates updated first, as the code
does; `Cancel` and `Complete` end the pass.

**Trend, Zones.** `Detect` is the detection of extrema (and of the ATR and the
complete price range); then one action per point (`ReadPoint`) or per group
(`Group`), and `Classify` or `Finish`. `Sort` is the merge sort as one step:
the order it sorts by leaves no two points equal, so its result is unique
(`InOrder`; that each point has a place of its own in it is the lemma
`SortIsComplete`).

**Extrema, Response.** `DetectExtrema` is the same detection as a function, which
a trend and zones need of whole series and of their prefixes;
`ResponseShowsDecision` holds its reversal pass against the machine of
`ReversalExtrema`. `MapPoint`, `MapZone` and `MapCandles` are the mappings of
`response.go`; `ValidResult` and its parts are `validateResult` and its parts.

**Metrics.** `server[c]` is a call's position in the interceptor and its handler:
`Start` is `RequestStarted`; `ObserveRead` and `ObserveFailedRead` are the
measured reader; `ObserveCalculation` is what the analyzer reports; `Refuse`,
`Fail` and `Succeed` return from the handler; `Finish` is `RequestFinished` in
its two steps, gauge and counters. `Copy` and `Show` are `Registry.ServeHTTP`.

**LoadTest.** `stage` is the position of the command's `run`, and `Run` its
steps: `FetchBefore`, `RejectOptions` or `StartWorkers`, `Summarize` behind the
WaitGroup, `FetchAfter`, `Write`. `worker[w]` is a goroutine of `RunLoad`: `Take`
receives from the channel, `Receive` judges an answer, `GiveUp` is the timeout
or a broken connection; both append to `results`, which `ByIndex` sorts. `Write` may fail
before or after it has created the file, which then holds a part of the report. `Serve` is a step of
`Metrics`: of a load call, of another client's call or of a page.

### Abstractions

- Prices, volumes and thresholds are naturals in one small unit; `Divide`
  rounds, by whole units or (in `Numeric`) to significant digits, with ties away
  from zero as `DivRound` does. `ReversalExtrema` takes `Divide` and the ATR
  sequence as parameters, so what is proved holds for every rounding.
- Percentages and multipliers are integers.
- Instants are naturals up to `LastInstant`, standing for the bounds of a
  timestamp; months have given starts.
- A text that parses or not, a value within bounds or not, is a Boolean.
- `Divide` and `FormatNumber` can fail when a scale leaves 32 bits. The parser
  accepts at most 1024 characters of a decimal, which cannot get there; the
  errors are left out.
- A signal before `signal.NotifyContext`, or a second one, kills the process
  outright; neither is modelled. The gRPC server has one client connection.
- The text of a price is its value and a spelling, so that checks on texts see
  whether a text was copied or written anew.
- Metrics count in units: a response is one byte, a range one candle, labels are
  OK and not OK, times are left out. Counters do not wrap.
- The service rests (`Serve`) while a complete page is on its way to the load
  test and in the stages without a call or a page: what it does then it can as
  well do in the next stage. `MaxReads` bounds the reads of a search; the calls
  of `Sound` are admitted, valid and given fitting candles, which leaves the
  failures to one call.

## 3. Runs

| Run | Instance | States | Result |
| --- | --- | --- | --- |
| `service` | two calls, one operations request | 37,023 | holds |
| `service_forced_stop` | the same | | violated, finding 1 |
| `analysis` | 290 requests over ten instants, 171 answers, 16 status codes, every clock | 674,274 | holds |
| `active` | up to two rows and two statistics, two days | 1.1 million | holds |
| `active_clock` | the same, a clock that steps back over midnight | | violated, finding 2 |
| `reversal_percent` | all series of 2 to 4 candles, prices 1 to 4 | 1.5 million | holds |
| `reversal_atr` | all series of 3 to 5 candles, prices 1 to 3 | 975,000 | holds |
| `trend` | all series of seven closes of 1 to 4, of six of five candles, all three methods | 1.7 million | holds |
| `zones` | all series of seven closes of 1 to 4, of six of four candles, all three methods; finer prices for the ATR | 1.8 million | holds |
| `zones_rounding` | prices of four digits, quotients of three, responses of two | | violated, finding 3 |
| `load` | two load calls by two workers, one search of another client, both pages | 2.3 million | holds |
| `load_nil_response` | one load call | | violated, finding 4 |

Why the bounds are enough. *Service*: the code treats calls alike; two give one
that is at work while another arrives, and HTTP requests only matter by whether
one is in flight. *Analysis*: ranges of up to three slots in intervals of two
and three seconds and in uneven months reach the epoch, the anchor, both ends of
the timestamps and a leap in the length of a month; answers
have none to three candles over ten slots, fitting or not, one of them unsound
or unreadable, or are a series of something else. *Active*: uniqueness, order
and the shared window need two rows. *Reversal*: a percentage reversal of two
points needs three candles, a third point a fourth; with an ATR of period one
five candles give two points and an open candidate. A period of one has no
smoothing; what longer periods are is asked of *zones*. *Trend*: seven closes give
three points of one kind, the least that can break a rising structure in the
middle; candles with a high and a low can be both kinds at once. *Zones*: five
points of one group, enough for greedy acceptance to differ from acceptance
against the neighbour, and chains of prices that overstep the anchor's reach;
ATR reversals have the period of the zones, a shorter or a longer one. Finer
prices, multiples of 60 units under periods of one to four, give a mean alone and
with up to three smoothings, whose divisions are rounded, but by far less than a
wrong weight would put them off. *Load*:
two workers are the least that can return their results out of order; of the
two load calls one always succeeds if it is answered and the other may fail in
every way, while a third call of another client moves the counters and the
gauge between and under both pages. The ranks of percentiles are held against
their definition for all sequences of one to four latencies, and proved for
sequences of any length.

Deadlock is not checked where the system stops: a process exits, a request ends.

## 4. Properties

Service: `ConnectionOutlivesCalls`, `SuccessLosesNothing`,
`ExitReleasesResources` (each closure of a failed start finds its resource open
and together they close what was acquired; after a shutdown no server accepts any
more, a listener can be open only if the goroutine of its `Serve` never ran, and
the connection is closed), the refinement `KeepsContract` (an accepted call is
answered unless the deadline cuts it off, nothing is accepted while draining,
the service closes after its last call), and the liveness properties
`StopRequestsEndProcess` and `FailedServerTurnsUnready`.

Analysis: `SeriesCoversRange`, `OnlyClosedCandles`, `ErrorsAreAttributed` (an invalid
field is refused before anything is read, an answer is blamed exactly if it is not
the series asked for, a context only if it ended), `CodesComeThrough` (a failure of Market Data reaches the
caller with the status code it had, through two mappings written apart; one
without a kind of its own as `Internal`); liveness `EndedContextFails`,
`RequestEnds`.

Active instruments: `ResultIsExact`, `SameWindow`, `ReadsAreNeeded`; liveness
`SearchEnds`.

Reversal extrema: `EvidenceExplainsReversal`, `PointsAlternate`,
`SwingsReachThreshold`, `PointsAreWindowExtremes`, `ConfirmedAtFirstReversal`,
`OpenCandidateNotReversed`, `ResponseShowsDecision` (the response shows the
prices that decided and passes the release checks).

Trend and local extrema: `VerdictFollowsStructure` (the loop's summaries decide
what the points themselves justify), `PointsAreFinal` (later candles withdraw no
point, by any of the three methods; `docs/calculations/extrema.md:119`).

Zones: `ZonesAreAnchored`, `TouchCountIsMaximal`, `ResponsePassesChecks` (what a
response says of points, zones and touches can be read off its own candles, and
reusing an ATR sequence changes no point), `ATRsWeighTrueRanges` (every ATR that a
width or a threshold is a multiple of is the weighted sum of all true ranges before
it, the first `period` of them with one weight, up to what its divisions were rounded
by).

Metrics and load test: `PagesAddUp` (a page never shows a call twice),
`ReportIsExact` (each call once, in order, with what happened to it),
`DeltaCoversAnswers` (the difference of two pages leaves no answered call out);
liveness `LoadEnds`; and `OnlyResponsesAreSized`, which fails.

Every component also has a type invariant.

### Fairness

*Service*: goroutines that can run do, the shutdown timer fires, a handler
returns. The last is what `RequestEnds` and `SearchEnds` show of the handlers:
each has a deadline of its own. Nothing is assumed of clients, so an HTTP
client may keep its request open for ever, and no signal or failure has to come.
*Analysis, ActiveInstruments*: the handler's own steps are taken and its
deadline passes (`context.WithTimeout`). Market Data owes no answer.
*LoadTest*: the main goroutine and each worker take their steps, for every call
and page request has a timeout. Nothing is assumed of the service and the
network.

### Findings

1. *An operations request survives a forced stop.* `http.Server.Shutdown`
   returns at the deadline and leaves its connections open; nothing calls
   `Close`. `docs/operations.md:60` says that servers are forced to stop.
2. *A clock that steps back over midnight fails a valid search as invalid.*
   `GetNATR` holds the search's range against a new reading of the clock.
   `docs/architecture.md:100` says that invalid fields fail before Market Data
   is called; this failure comes after, and no field is invalid.
3. *A representative price outside its zone.* It is rounded twice, its bounds
   once. Prices of 17 or more digits are accepted, and for some the result is
   what `internal/releasevalidation/runner.go:443` rejects. With prices of at
   most 16 digits, counted in the smallest unit of any of them, it cannot happen
   (`RepresentativeStaysWithin`).
4. *A failed call is counted as a response of no bytes.* The interceptor tells a
   response from none by `message != nil`, which holds for the typed nil of a
   failed handler. `docs/operations.md:42` has `/metrics` expose response sizes;
   the failed calls lower the average that the load report gives.

## 5. Proofs

**ReversalExtremaProofs**, for every set of candles, series length, price
source, method, rounding and ATR sequence within `SettingsAssumption`,
`CandleAssumption` and `ArithmeticAssumption` (prices are positive and ordered,
thresholds and ATR values are naturals). The properties are not inductive: that
neighbouring points are a threshold apart needs to know that the candidate
that was just confirmed is still at its price when the next one is searched. The
inductive invariant adds what the code keeps implicitly: the direction is the
opposite of the last point's kind; each candidate is the latest extreme of its
window; no candle after an open candidate has retraced its threshold once the
direction is known; every point's window starts at the confirmation of the one
before. `IInvHolds` proves it, one step per action, and the seven theorems on
the properties follow. `ResponsesShowDecisions` adds to the invariant where the
pass of `Extrema` stands: after each candle, its candidates, direction and
points are those of the machine (`PassInv`). So a scan that completes returns
`ReversalPoints` of its series, and with the evidence that was proved before,
each price of the response, taken from the candles again, is the one the machine
decided by.

**ServiceProofs**, for every set of calls and operations requests, with no
assumption. The invariant says, for every position of main, which goroutines
may have started, whether admission is open and that all handlers are gone when
`graceful` is done; it is also what makes the channel of two errors wide enough
(`CoreInv`). It also says which resources are open (`ListenerInv`): in `New`, and in each
closure, exactly those of the steps before the one that failed and not closed yet; once the
servers were started, no listener whose `Serve` has returned. So
`ExitIsClean` is an argument about two chains, the steps of `New` and the closures,
that have to mirror each other, and about `Serve` goroutines that may run, fail or
come too late at any point of the shutdown. `Refinement` shows that every step of `Service` is a
step of `ServiceContract` or leaves its variables unchanged, by cases on the
actions.

**AnalysisProofs** begins with the calendar, under `CalendarAssumption` (the last
instant is a natural, months start at zero, in strict order). For fixed, anchored and calendar
intervals alike, shifts add up (`ShiftsAdd`) and slots follow each other
strictly. So a range that was planned backwards from its end in one shift has
both ends on boundaries, and the forward walk that validates a series meets its
end after exactly the planned number of slots (`RangeIsWalkable`).

Its second half is about one request, for every calendar, clock, request, answer
and status code within `AnalysisAssumption` (requests and answers are well-typed records; "OK"
and "unread" are no codes of a failed read). The properties speak of a series at
its end; the invariant says what is known half-way: the candles before the index
have been judged and are slots 1 to index - 1 of the range (`SeriesInv`), where
the opening of the next one is (`Boundary`), what a held answer has been checked
for (`ParsedInv`), and, for each outcome, the ways to it (`FailureInv`). That
every candle had closed then follows from `RangeIsWalkable`: the last close is
the end of the range, which was accepted against the clock, and slots ascend.

**ActiveInstrumentsProofs**, within `ActiveAssumption` (well-typed inputs; the
failures of a read are not called "ok"; the day that statistics span is an
interval of positive length, as `1d` is). The invariant says that both snapshots
were checked before a row is looked at (`SnapshotInv`), that rows before the
position are decided and in `matched` exactly if they qualify (`MatchedInv`),
and that reads belong to rows up to the position, one each, all over one window
(`ReadsInv`). Sorting gives one result because the symbols of a catalog that was
accepted are distinct.

**LoadTestProofs**, for every set of calls, searches and workers
and every number of load calls within `LoadAssumption` (there is at least one
call and one worker, and the load makes no searches, as `validationCases` has it).
`MetricsInv` counts: the gauge is the number of calls between `Start` and the
first step of `Finish`, the request counter that of the calls beyond the second,
every range read is calculated at most once, and a copied page stays behind
the registry. Its lemmas, one per action of `Metrics`, are what the load test's
proof cites for `Serve`. On top, each index is with one worker or in one result
(`OnceInv`), a result says what happened to its call (`ResultsInv`), and the
counters have grown since the first page by at least what the results account
for (`DeltaInv`): every answered call is in the counters before its answer is
out, which an injection from results to calls turns into `DeltaCoversAnswers`.
`ReportTellsTheTruth` includes that `Percentile` of any non-empty list of
latencies is the least one with the required share at or below it. A success also means
that both pages were fetched and the report is complete in its file.

**ExtremaProofs**, for every series of candles (numbered from zero, prices
positive and ordered), all settings that `Validate` accepts and all three methods.
A recursive function is what its equations say (`PassUnfolds`, `SequenceUnfolds`,
`FlattenUnfolds`), which needs induction over the candles, here as a fact about
the set of the candles up to which a solution exists (`Induction`, from the
well-foundedness of the naturals). A step of the loop appends what it confirms
and changes nothing that came before (`IterationKeeps`), a series cut short has
the same ATR values and the same pass up to its end (`SequenceIsFinal`,
`PassIsFinal`), and the points of a growing list that are confirmed in time are a
beginning of it (`Beginnings`); together they give `DetectionIsFinal`.
`DetectionIsSound` is what trends, zones and responses rely on: a point is that of
its candle, is confirmed at a candle of the series and carries the evidence of its
method; the points come in order of time, no two of them alike.

**TrendProofs**, within `TrendAssumption` (series and settings as above, the
tolerance is a natural). `PointsStayFinal` is `DetectionIsFinal` for the points of
the classification. For the verdict, `Summarized` says what a summary knows of the
points read so far (how many, the latest, the extremes, whether each pair rises or falls by more
than the tolerance); it suffices to compare a new point with the latest one,
because the tolerance is not negative. `VerdictsAreRight` follows, with the
exclusions that the order of the six rules hides: a flat range or level points
cannot climb or sink.

**ZonesProofs**, for every set of requests within `RequestAssumption` (series and
settings as `NewCandleSeries` and `LevelSettings.Validate` accept them) and every
number of digits. It has three layers.

- *Numbers.* `Divide` and `FormatNumber` round to as many digits as the number
  has, so a larger number may keep fewer. `FormattingKeepsOrder`: rounding keeps
  the order all the same, because a power of ten is a multiple of every smaller
  step, and no rounding passes it. A midpoint of prices that a quotient keeps
  whole stays between them (`MidpointStaysBetween`).
- *Touches.* `GreedyIsMaximal`: the loop of `zoneFromGroup` accepts as many
  candles as any choice that keeps the spacing. Each candle of another choice is
  covered by the last accepted candle that is not after it, no two by the same
  one; this injection bounds the size of the choice.
- *Groups.* `IInv` says of the groups made so far (`Grouped`): the group at hand
  begins at an anchor, the lowest price not within the width of the anchor
  before; an earlier group reaches no point of a later one; each anchor with
  enough touches has its zone, each zone is such an anchor with all points in its
  reach (`GoodZone`), and zones ascend. The contract speaks of anchors, a recursive
  notion over the prices (`AnchorsUnfold`), the code of positions in a sorted list;
  `GroupEnds` and `PricesInOrder` relate the two. `ZonesAnchored` and
  `TouchCountMaximal` follow, the second also of a calculation that is still under
  way or was canceled.

`ResponsesPass` and `RepresentativeStaysWithin` have a hypothesis, `PricesFit`: no
price has more digits than a quotient keeps. The code does not ask for that, so it
is no assumption of the module. It holds of the instance of `zones`; the instance of
`zones_rounding` lacks it, and there finding 3 shows that the conclusion fails.

Only checked by TLC:

- `ATRsWeighTrueRanges`: a weighted sum over all candles, with its powers, needs
  induction over the data. The proofs about thresholds and zones use the equations
  of `ATRSequenceOf`, which `SequenceUnfolds` proves;
- all liveness (`StopRequestsEndProcess`, `FailedServerTurnsUnready`,
  `EndedContextFails`, `RequestEnds`, `SearchEnds`, `LoadEnds`): fairness and
  ENABLED are out of the prover's reach;
- what the violated runs of section 3 refute: a counterexample needs no proof.

The provers cannot take an operator as a parameter. So `Accepted` and the ATR are
recursive functions, not folds, and the two orders that `Zones` sorts by have names
(`PointsInOrder`, `CandlesInOrder`).

## 6. Not modelled

- The messages of `GetATR`, `GetNATR` and `GetTrend`, metadata and echoed settings:
  copied field by field. The parsing of request values and of configuration, the
  format of symbols and exchanges: text handling, whose outcomes are inputs.
- The normalisation of an ATR by the close, a single division.
- A restart of the service between the two pages of a load test, after which the
  differences are negative: the tool has no way to notice, and no document says
  what its report means then.
- The validate command, which makes the calls of the load test once each, one
  after the other; `fillBuildVersions`; the healthcheck command, one HTTP GET.
- Logs, generated message code, build files and containers.

`PROJECT.json` gives the reason for each component.

## 7. Plan

Done, in this order: reversal extrema and ATR; the process and its contract; the
calendar, one analysis, the search; local extrema, trend and zones; error codes;
metrics and the load test; responses and release checks; trends and zones over
all three methods. Proofs: reversal extrema, the process, the calendar, one
analysis, the search, metrics and the load test, trends and the finality of
points by every method; numbers, zones and their touches; the responses of
`GetExtrema` and `GetLevels`.

Left: the normalisation of an ATR by the close as a function of `Numeric`, and the
metadata of responses. Both are small, and what could go wrong in them a test can
reach.
