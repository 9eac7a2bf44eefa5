---------------------- MODULE ActiveInstrumentsProofs ----------------------
(***************************************************************************)
(* The safety of the search for active instruments, for every catalog and  *)
(* statistics Market Data may return, of any length, and every clock.      *)
(***************************************************************************)
EXTENDS ActiveInstruments, FiniteSetTheorems, TLAPS

SearchWindow == RangeOf(Day, evaluatedAt, Period + 1)

Looping == pc \in {"rows", "natr"}

OutcomeInv == outcome # "none" <=> pc = "done"

(* The snapshots are there, and sound, before the loop uses them.          *)
SnapshotInv ==
  /\ pc \in {"validate", "catalog"} => catalog = <<>>
  /\ pc \in {"validate", "catalog", "stats"} =>
       stats = <<>> /\ row = 1 /\ reads = <<>> /\ matched = <<>>
  /\ pc \in {"catalog", "stats"} \/ Looping \/ reads # <<>> => evaluatedAt \in Clock
  /\ Looping \/ reads # <<>> \/ outcome = "ok" => SoundStats(stats)

(* The rows before the current one have been judged.                       *)
RowsInv ==
  /\ \A k \in 1 .. row - 1 : catalog[k].own
  /\ \A j, k \in 1 .. row - 1 : catalog[j].symbol = catalog[k].symbol => j = k
  /\ \A k \in 1 .. row - 1 :
       NeedsNATR /\ catalog[k].trading /\ PassesStats(catalog[k].symbol) =>
         catalog[k].symbol \in DOMAIN natr
  /\ pc = "natr" =>
       /\ row <= Len(catalog) /\ SoundRow
       /\ Current.trading /\ PassesStats(Current.symbol) /\ NeedsNATR

(* The matched symbols are those of the judged rows that qualify.          *)
MatchedInv ==
  /\ \A j, k \in 1 .. Len(matched) : matched[j] = matched[k] => j = k
  /\ \A k \in 1 .. Len(matched) :
       \E j \in 1 .. row - 1 : Qualifies(catalog[j]) /\ matched[k] = catalog[j].symbol
  /\ \A j \in 1 .. row - 1 :
       Qualifies(catalog[j]) => \E k \in 1 .. Len(matched) : matched[k] = catalog[j].symbol

(* Every read is of a row that has been reached, over the search's window. *)
ReadsInv ==
  /\ reads \in Seq([symbol : Nat, window : {SearchWindow}])
  /\ reads # <<>> => SearchWindow # NoRange
  /\ Unique(reads)
  /\ \A k \in 1 .. Len(reads) : \E j \in 1 .. row :
       /\ j <= Len(catalog) /\ (pc = "rows" => j < row)
       /\ catalog[j].symbol = reads[k].symbol
       /\ catalog[j].own /\ catalog[j].trading /\ PassesStats(catalog[j].symbol)

IInv ==
  /\ TypeOK
  /\ OutcomeInv
  /\ SnapshotInv
  /\ RowsInv
  /\ MatchedInv
  /\ ReadsInv
  /\ ResultIsExact
-----------------------------------------------------------------------------
(* What the variables hold, as far as the steps below need it.             *)
LEMMA InputsAreTyped ==
  ASSUME TypeOK
  PROVE  /\ request \in Request
         /\ catalog \in Seq(Row) /\ Len(catalog) \in Nat
         /\ stats \in Seq(Stat) /\ Len(stats) \in Nat
         /\ row \in Nat \ {0} /\ row <= Len(catalog) + 1
         /\ matched \in Seq(Nat) /\ Len(matched) \in Nat
<1>1. request \in Request /\ catalog \in Seq(Row) /\ stats \in Seq(Stat)
  <2>1. <<>> \in Seq(Row) /\ <<>> \in Seq(Stat)
    OBVIOUS
  <2> QED
    BY <2>1, ActiveAssumption DEF TypeOK
<1>2. Len(catalog) \in Nat /\ row \in 1 .. Len(catalog) + 1 /\ matched \in Seq(Nat)
  BY <1>1 DEF TypeOK
<1> QED
  BY <1>1, <1>2

LEMMA CurrentIsRow ==
  ASSUME TypeOK, row <= Len(catalog)
  PROVE  row \in 1 .. Len(catalog) /\ Current \in Row /\ Current.symbol \in Nat
<1>1. catalog \in Seq(Row) /\ row \in 1 .. Len(catalog)
  BY InputsAreTyped
<1>2. Current \in Row
  BY <1>1 DEF Current
<1> QED
  BY <1>1, <1>2 DEF Row

(* A symbol passes the statistics if and only if its statistics meet both  *)
(* thresholds: an absent threshold lies below every value, and an absent   *)
(* count below every threshold.                                            *)
LEMMA PassingSymbols ==
  ASSUME TypeOK, SoundStats(stats), NEW symbol
  PROVE  PassesStats(symbol) <=>
           (NeedsStats =>
              /\ symbol \in Symbols(stats)
              /\ StatOf(symbol).volume >= request.minVolume
              /\ StatOf(symbol).trades >= request.minTrades)
<1>1. ASSUME NEW k \in 1 .. Len(stats), stats[k].symbol = symbol
      PROVE  /\ StatOf(symbol) = stats[k]
             /\ stats[k].volume >= request.minVolume <=> MeetsVolume(stats[k])
             /\ stats[k].trades >= request.minTrades <=> MeetsTrades(stats[k])
  <2>1. StatOf(symbol) = stats[k]
    <3> DEFINE rows == {stats[j] : j \in 1 .. Len(stats)}
    <3>1. stats[k] \in rows
      OBVIOUS
    <3>2. \A stat \in rows : stat.symbol = symbol => stat = stats[k]
      BY <1>1 DEF SoundStats, Unique
    <3>3. StatOf(symbol) = CHOOSE stat \in rows : stat.symbol = symbol
      BY DEF StatOf
    <3> HIDE DEF rows
    <3> QED
      BY <1>1, <3>1, <3>2, <3>3
  <2>2. stats[k] \in Stat /\ request \in Request
    BY InputsAreTyped
  <2>3. /\ stats[k].volume \in Nat /\ stats[k].trades \in Nat \cup {Absent}
        /\ request.minVolume \in Nat \cup {Absent} /\ request.minTrades \in Nat \cup {Absent}
    BY <2>2 DEF Stat, Request, Threshold
  <2> QED
    BY <2>1, <2>3 DEF MeetsVolume, MeetsTrades, Absent
<1>2. symbol \in Symbols(stats) <=> \E k \in 1 .. Len(stats) : stats[k].symbol = symbol
  BY DEF Symbols
<1> QED
  BY <1>1, <1>2 DEF PassesStats

(* Whether a row qualifies, in the terms of the loop.                      *)
LEMMA QualifyingRows ==
  ASSUME TypeOK, SoundStats(stats), NEW line
  PROVE  Qualifies(line) <=>
           /\ line.trading /\ PassesStats(line.symbol)
           /\ NeedsNATR => line.symbol \in DOMAIN natr /\ natr[line.symbol] >= request.minNATR
BY PassingSymbols DEF Qualifies

(* A quotient bounds the multiples that fit.                               *)
LEMMA MultiplesThatFit ==
  ASSUME NEW d \in Nat \ {0}, NEW a \in Nat, NEW n \in Int, n <= a \div d
  PROVE  n * d <= a
<1> DEFINE q == a \div d
<1>1. q \in Int /\ q * d <= a
  OBVIOUS
<1> HIDE DEF q
<1>2. n <= q
  BY DEF q
<1>3. n * d <= q * d
  BY <1>1, <1>2
<1> QED
  BY <1>1, <1>3

(* The window of a search, if there is one, closed when the search began.  *)
LEMMA WindowIsClosed ==
  ASSUME TypeOK, SearchWindow # NoRange
  PROVE  /\ ValidTime(SearchWindow.from) /\ ValidTime(SearchWindow.to)
         /\ SearchWindow.to <= evaluatedAt
<1> DEFINE d     == Day.seconds
           end   == Floor(Day, evaluatedAt)
           start == Shift(Day, end, -(Period + 1))
<1>1. d \in Nat \ {0} /\ Day.anchor \in Nat /\ Period + 1 \in Nat /\ LastInstant \in Nat
  <2>1. request.period \in Nat \cup {Absent} /\ DefaultPeriod \in Nat
    BY InputsAreTyped, ActiveAssumption DEF Request, Threshold
  <2> QED
    BY <2>1, ActiveAssumption, CalendarAssumption DEF Period, Intervals
<1>2. SearchWindow = [from |-> start, to |-> end] /\ end # NoInstant /\ start # NoInstant
  BY DEF SearchWindow, RangeOf
<1>3. ValidTime(evaluatedAt) /\ ValidTime(end) /\ end = SlotStart(Day, evaluatedAt)
  BY <1>2 DEF Floor
<1>4. end = evaluatedAt - ((evaluatedAt - Day.anchor) % d)
  BY <1>1, <1>3 DEF SlotStart
<1>5. end <= evaluatedAt
  <2>1. evaluatedAt \in Int /\ (evaluatedAt - Day.anchor) % d \in Nat
    BY <1>1, <1>3 DEF ValidTime
  <2> HIDE DEF end
  <2> QED
    BY <1>4, <2>1
<1> HIDE DEF end
<1>6. ValidTime(start)
  <2> DEFINE n == -(Period + 1)
  <2>1. /\ n \in -(end \div d) .. (LastInstant - end) \div d
        /\ start = end + n * d
    BY <1>1, <1>2 DEF Shift, ShiftSlots
  <2>2. end \in Nat /\ LastInstant - end \in Nat
    BY <1>1, <1>3 DEF ValidTime
  <2>3. end \div d \in Int /\ (LastInstant - end) \div d \in Int
    BY <1>1, <2>2
  <2>4. n \in Int /\ -n \in Int /\ -n <= end \div d /\ n <= (LastInstant - end) \div d
    BY <1>1, <2>1, <2>3
  <2> HIDE DEF n, start, d
  <2>5. n * d <= LastInstant - end /\ (-n) * d <= end
    BY <1>1, <2>2, <2>4, MultiplesThatFit
  <2>6. n * d \in Int /\ (-n) * d = -(n * d)
    BY <1>1, <2>4
  <2>7. end + n * d \in 0 .. LastInstant
    BY <1>1, <2>2, <2>5, <2>6
  <2> QED
    BY <2>1, <2>7 DEF ValidTime
<1> QED
  BY <1>2, <1>3, <1>5, <1>6
-----------------------------------------------------------------------------
(* What the verdicts on the rows depend on.                                *)
LEMMA SameVerdicts ==
  ASSUME request' = request, stats' = stats
  PROVE  /\ NeedsStats' = NeedsStats /\ NeedsNATR' = NeedsNATR /\ Period' = Period
         /\ SoundStats(stats)' = SoundStats(stats) /\ Unique(stats)' = Unique(stats)
         /\ \A symbol : PassesStats(symbol)' = PassesStats(symbol)
<1>1. NeedsStats' = NeedsStats /\ NeedsNATR' = NeedsNATR /\ Period' = Period
  BY DEF NeedsStats, NeedsNATR, Period
<1>2. SoundStats(stats)' = SoundStats(stats) /\ Unique(stats)' = Unique(stats)
  BY DEF SoundStats, Unique
<1>3. ASSUME NEW symbol PROVE PassesStats(symbol)' = PassesStats(symbol)
  BY <1>1 DEF PassesStats, MeetsVolume, MeetsTrades
<1> QED
  BY <1>1, <1>2, <1>3

LEMMA SameQualities ==
  ASSUME request' = request, stats' = stats, natr' = natr
  PROVE  \A line : Qualifies(line)' = Qualifies(line)
<1> SUFFICES ASSUME NEW line PROVE Qualifies(line)' = Qualifies(line)
  OBVIOUS
<1>1. NeedsStats' = NeedsStats /\ NeedsNATR' = NeedsNATR
  BY SameVerdicts
<1>2. StatOf(line.symbol)' = StatOf(line.symbol) /\ Symbols(stats)' = Symbols(stats)
  BY DEF StatOf, Symbols
<1> QED
  BY <1>1, <1>2 DEF Qualifies

LEMMA SameReads ==
  ASSUME ReadsInv, UNCHANGED <<request, catalog, stats, evaluatedAt, row, reads>>,
         pc' = "rows" => pc = "rows"
  PROVE  ReadsInv'
<1>1. SearchWindow' = SearchWindow /\ \A symbol : PassesStats(symbol)' = PassesStats(symbol)
  BY SameVerdicts DEF SearchWindow
<1>2. Unique(reads)'
  BY DEF ReadsInv, Unique
<1> QED
  BY <1>1, <1>2 DEF ReadsInv
-----------------------------------------------------------------------------
LEMMA InitHolds == Init => IInv
<1> SUFFICES ASSUME Init PROVE IInv
  OBVIOUS
<1> USE DEF Init
<1>1. Len(catalog) = 0 /\ Len(reads) = 0 /\ Len(matched) = 0 /\ Len(result) = 0
  OBVIOUS
<1>2. TypeOK
  BY <1>1 DEF TypeOK, NoNATR
<1>3. OutcomeInv /\ SnapshotInv /\ RowsInv /\ MatchedInv /\ ResultIsExact
  BY <1>1 DEF OutcomeInv, SnapshotInv, RowsInv, MatchedInv, ResultIsExact, Looping
<1>4. ReadsInv
  BY <1>1 DEF ReadsInv, Unique
<1> QED
  BY <1>2, <1>3, <1>4 DEF IInv
-----------------------------------------------------------------------------
(* A search that fails keeps what it had and returns none of it.           *)
LEMMA FailingPreserves ==
  ASSUME IInv, pc # "done", NEW kind, EndWith(kind),
         kind \in {"invalid_parameter", "invalid_market_data", "request_canceled",
                   "request_timeout", "response_too_large"} \cup Failures,
         UNCHANGED <<inputs, ctx, evaluatedAt, row, reads, natr, matched, result>>
  PROVE  IInv'
<1> USE DEF inputs
<1>1. pc' = "done" /\ outcome' = kind /\ kind \notin {"none", "ok"}
  BY ActiveAssumption DEF EndWith
<1>2. TypeOK'
  BY <1>1 DEF IInv, TypeOK
<1>3. OutcomeInv' /\ ResultIsExact'
  BY <1>1 DEF OutcomeInv, ResultIsExact
<1>4. SnapshotInv'
  BY <1>1, SameVerdicts DEF IInv, SnapshotInv, Looping
<1>5. RowsInv'
  BY <1>1, SameVerdicts DEF IInv, RowsInv
<1>6. MatchedInv'
  BY <1>1, SameQualities DEF IInv, MatchedInv
<1>7. ReadsInv'
  BY <1>1, SameReads DEF IInv
<1> QED
  BY <1>2, <1>3, <1>4, <1>5, <1>6, <1>7 DEF IInv

LEMMA StutterPreserves ==
  ASSUME IInv,
         UNCHANGED <<inputs, pc, evaluatedAt, row, reads, natr, matched, result, outcome>>,
         ctx' \in {"live", "canceled", "expired"}
  PROVE  IInv'
<1> USE DEF inputs
<1>1. TypeOK' /\ OutcomeInv'
  BY DEF IInv, TypeOK, OutcomeInv
<1>2. SnapshotInv'
  BY SameVerdicts DEF IInv, SnapshotInv, Looping
<1>3. RowsInv' /\ MatchedInv'
  BY SameVerdicts, SameQualities DEF IInv, RowsInv, MatchedInv, SoundRow, Current
<1>4. ReadsInv'
  BY SameReads DEF IInv
<1>5. ResultIsExact'
  <2>1. Unique(catalog)' = Unique(catalog) /\ Unique(stats)' = Unique(stats)
    BY DEF Unique
  <2>2. catalog' = catalog /\ result' = result /\ outcome' = outcome
    OBVIOUS
  <2>3. \A line : Qualifies(line)' = Qualifies(line)
    BY SameQualities
  <2> DEFINE listed == {l \in {catalog[k] : k \in 1 .. Len(catalog)} : Qualifies(l)}
  <2>4. listed' = listed
    BY ONLY <2>2, <2>3
  <2>5. outcome = "ok" => /\ {result[k] : k \in 1 .. Len(result)} = {line.symbol : line \in listed}
                          /\ \A k \in 1 .. Len(result) - 1 : result[k] < result[k + 1]
                          /\ Unique(catalog) /\ Unique(stats)
                          /\ \A k \in 1 .. Len(catalog) : catalog[k].own
    BY DEF IInv, ResultIsExact
  <2>6. outcome' = "ok" => /\ {result'[k] : k \in 1 .. Len(result')} = {line.symbol : line \in listed'}
                           /\ \A k \in 1 .. Len(result') - 1 : result'[k] < result'[k + 1]
                           /\ Unique(catalog)' /\ Unique(stats)'
                           /\ \A k \in 1 .. Len(catalog') : catalog'[k].own
    <3> HIDE DEF listed
    <3> QED
      BY ONLY <2>1, <2>2, <2>4, <2>5
  <2> QED
    BY ONLY <2>6 DEF ResultIsExact
<1> QED
  BY <1>1, <1>2, <1>3, <1>4, <1>5 DEF IInv

LEMMA NothingJudged ==
  ASSUME row' = 1, reads' = <<>>, matched' = <<>>, pc' # "natr"
  PROVE  RowsInv' /\ MatchedInv' /\ ReadsInv'
<1>1. Len(reads') = 0 /\ Len(matched') = 0
  OBVIOUS
<1>2. RowsInv' /\ MatchedInv'
  BY <1>1 DEF RowsInv, MatchedInv
<1>3. ReadsInv'
  BY <1>1 DEF ReadsInv, Unique
<1> QED
  BY <1>2, <1>3

LEMMA ValidatePreserves == IInv /\ Validate => IInv'
<1> SUFFICES ASSUME IInv, Validate PROVE IInv'
  OBVIOUS
<1>1. /\ pc = "validate" /\ outcome = "none"
      /\ catalog = <<>> /\ stats = <<>> /\ row = 1 /\ reads = <<>> /\ matched = <<>>
      /\ UNCHANGED <<request, catalog, stats, ctx, row, reads, natr, matched, result>>
  BY DEF Validate, inputs, IInv, SnapshotInv, OutcomeInv
<1>2. CASE ValidFilters
  <2>1. evaluatedAt' \in Clock /\ pc' = "catalog" /\ outcome' = "none"
    BY <1>1, <1>2 DEF Validate
  <2>2. Len(reads') = 0
    BY <1>1
  <2>3. TypeOK' /\ OutcomeInv' /\ SnapshotInv' /\ ResultIsExact'
    BY <1>1, <2>1, <2>2 DEF IInv, TypeOK, OutcomeInv, SnapshotInv, ResultIsExact, Looping
  <2>4. RowsInv' /\ MatchedInv' /\ ReadsInv'
    BY <1>1, <2>1, NothingJudged
  <2> QED
    BY <2>3, <2>4 DEF IInv
<1>3. CASE ~ValidFilters
  <2>1. EndWith("invalid_parameter") /\ UNCHANGED evaluatedAt
    BY <1>3 DEF Validate
  <2> QED
    BY <1>1, <2>1, FailingPreserves DEF inputs
<1> QED
  BY <1>2, <1>3

LEMMA CatalogArrivesPreserves == IInv /\ CatalogArrives => IInv'
<1> SUFFICES ASSUME IInv, CatalogArrives PROVE IInv'
  OBVIOUS
<1>1. /\ pc = "catalog" /\ outcome = "none" /\ pc' \in {"stats", "rows"}
      /\ NeedsStats => pc' = "stats"
      /\ stats = <<>> /\ row = 1 /\ reads = <<>> /\ matched = <<>>
      /\ evaluatedAt \in Clock /\ catalog' \in Catalogs
      /\ UNCHANGED <<request, stats, ctx, evaluatedAt, row, reads, natr, matched, result, outcome>>
  BY DEF CatalogArrives, Live, IInv, SnapshotInv, OutcomeInv
<1>2. Len(stats') = 0 /\ Len(reads') = 0 /\ Len(catalog') \in Nat
  <2>1. catalog' \in Seq(Row)
    BY <1>1, ActiveAssumption
  <2> QED
    BY <1>1, <2>1
<1>3. TypeOK'
  BY <1>1, <1>2 DEF IInv, TypeOK
<1>4. SnapshotInv'
  BY <1>1, <1>2 DEF SnapshotInv, SoundStats, Unique
<1>5. OutcomeInv' /\ ResultIsExact'
  BY <1>1 DEF OutcomeInv, ResultIsExact
<1>6. RowsInv' /\ MatchedInv' /\ ReadsInv'
  BY <1>1, NothingJudged
<1> QED
  BY <1>3, <1>4, <1>5, <1>6 DEF IInv

LEMMA StatsArrivePreserves == IInv /\ StatsArrive => IInv'
<1> SUFFICES ASSUME IInv, StatsArrive PROVE IInv'
  OBVIOUS
<1>1. /\ pc = "stats" /\ outcome = "none"
      /\ row = 1 /\ reads = <<>> /\ matched = <<>>
      /\ evaluatedAt \in Clock /\ stats' \in Snapshots
      /\ UNCHANGED <<request, catalog, ctx, evaluatedAt, row, reads, natr, matched, result>>
  BY DEF StatsArrive, Live, IInv, SnapshotInv, OutcomeInv
<1>2. \/ SoundStats(stats') /\ pc' = "rows" /\ outcome' = "none"
      \/ pc' = "done" /\ outcome' = "invalid_market_data"
  BY <1>1 DEF StatsArrive, EndWith
<1>3. Len(reads') = 0
  BY <1>1
<1>4. TypeOK'
  BY <1>1, <1>2, <1>3 DEF IInv, TypeOK
<1>5. SnapshotInv'
  BY <1>1, <1>2 DEF SnapshotInv, Looping, SoundStats, Unique
<1>6. OutcomeInv' /\ ResultIsExact'
  BY <1>2 DEF OutcomeInv, ResultIsExact
<1>7. RowsInv' /\ MatchedInv' /\ ReadsInv'
  BY <1>1, <1>2, NothingJudged
<1> QED
  BY <1>4, <1>5, <1>6, <1>7 DEF IInv
-----------------------------------------------------------------------------
(* The loop leaves a row behind: it has been judged, and its symbol is     *)
(* matched if and only if it qualifies.                                    *)
LEMMA RowIsJudged ==
  ASSUME IInv, Looping, row <= Len(catalog), SoundRow,
         row' = row + 1, pc' = "rows", outcome' = outcome,
         UNCHANGED <<inputs, ctx, evaluatedAt, reads, result>>,
         \A s \in DOMAIN natr' : natr'[s] \in NATRs,
         DOMAIN natr \subseteq DOMAIN natr',
         \A s \in DOMAIN natr : s # Current.symbol => natr'[s] = natr[s],
         \A s \in DOMAIN natr' : s \in DOMAIN natr \/ s = Current.symbol,
         NeedsNATR /\ Current.trading /\ PassesStats(Current.symbol) =>
           Current.symbol \in DOMAIN natr',
         NEW line, line = Current, NEW isMatch \in BOOLEAN, isMatch <=> Qualifies(line)',
         matched' = IF isMatch THEN Append(matched, Current.symbol) ELSE matched
  PROVE  IInv'
<1> USE DEF inputs
<1> DEFINE n == Len(matched)
<1>1. /\ row \in 1 .. Len(catalog) /\ Len(catalog) \in Nat /\ Current = catalog[row]
      /\ Current.symbol \in Nat /\ matched \in Seq(Nat) /\ n \in Nat
      /\ catalog' = catalog /\ catalog'[row] = line
  BY InputsAreTyped, CurrentIsRow DEF IInv, Current
<1>2. \A k \in 1 .. row : k = row \/ k \in 1 .. row - 1
  BY <1>1
<1>3. /\ row' - 1 = row /\ NeedsNATR' = NeedsNATR /\ SoundStats(stats)' = SoundStats(stats)
      /\ \A symbol : PassesStats(symbol)' = PassesStats(symbol)
  BY <1>1, SameVerdicts
<1>4. Current.own /\ \A k \in 1 .. row - 1 : catalog[k].symbol # Current.symbol
  BY DEF SoundRow
<1>5. ASSUME NEW k \in 1 .. row - 1
      PROVE  Qualifies(catalog[k])' = Qualifies(catalog[k])
  <2>1. NeedsStats' = NeedsStats /\ Symbols(stats)' = Symbols(stats)
        /\ \A symbol : StatOf(symbol)' = StatOf(symbol)
    BY SameVerdicts DEF Symbols, StatOf
  <2>2. /\ catalog[k].symbol \in DOMAIN natr' <=> catalog[k].symbol \in DOMAIN natr
        /\ catalog[k].symbol \in DOMAIN natr => natr'[catalog[k].symbol] = natr[catalog[k].symbol]
    BY <1>4
  <2> QED
    BY <1>3, <2>1, <2>2 DEF Qualifies
<1>6. /\ matched' \in Seq(Nat) /\ Len(matched') = IF isMatch THEN n + 1 ELSE n
      /\ \A k \in 1 .. n : matched'[k] = matched[k]
      /\ isMatch => matched'[n + 1] = Current.symbol
  BY <1>1
<1>7. TypeOK'
  BY <1>1, <1>6 DEF IInv, TypeOK
<1>8. OutcomeInv' /\ SnapshotInv' /\ ResultIsExact'
  BY <1>3, SameVerdicts DEF IInv, OutcomeInv, SnapshotInv, ResultIsExact, Looping
<1>9. RowsInv'
  <2>1. \A k \in 1 .. row : catalog[k].own
    BY <1>1, <1>2, <1>4 DEF IInv, RowsInv
  <2>2. \A j, k \in 1 .. row : catalog[j].symbol = catalog[k].symbol => j = k
    BY <1>1, <1>2, <1>4 DEF IInv, RowsInv
  <2>3. \A k \in 1 .. row :
          NeedsNATR /\ catalog[k].trading /\ PassesStats(catalog[k].symbol) =>
            catalog[k].symbol \in DOMAIN natr'
    BY <1>1, <1>2 DEF IInv, RowsInv
  <2> QED
    BY <1>3, <2>1, <2>2, <2>3 DEF RowsInv
<1>10. MatchedInv'
  <2>1. \A k \in 1 .. n : \E j \in 1 .. row - 1 :
          Qualifies(catalog[j])' /\ matched[k] = catalog[j].symbol
    BY <1>5 DEF IInv, MatchedInv
  <2>2. \A k \in 1 .. n : matched[k] # Current.symbol
    BY <1>4, <2>1
  <2>3. \A j, k \in 1 .. Len(matched') : matched'[j] = matched'[k] => j = k
    <3>1. \A k \in 1 .. Len(matched') : k \in 1 .. n \/ (isMatch /\ k = n + 1)
      BY <1>1, <1>6
    <3>2. \A j, k \in 1 .. n : matched[j] = matched[k] => j = k
      BY DEF IInv, MatchedInv
    <3> QED
      BY <1>6, <2>2, <3>1, <3>2
  <2>4. ASSUME NEW k \in 1 .. Len(matched')
        PROVE  \E j \in 1 .. row : Qualifies(catalog[j])' /\ matched'[k] = catalog[j].symbol
    <3>1. CASE k \in 1 .. n
      <4>1. PICK j \in 1 .. row - 1 : Qualifies(catalog[j])' /\ matched[k] = catalog[j].symbol
        BY <2>1, <3>1
      <4>2. j \in 1 .. row
        BY <1>1
      <4> QED
        BY <1>6, <3>1, <4>1, <4>2
    <3>2. CASE k \notin 1 .. n
      <4>1. isMatch /\ k = n + 1
        BY <1>1, <1>6, <3>2
      <4>2. PICK j \in 1 .. row : j = row
        BY <1>1
      <4>3. Qualifies(catalog[j])' /\ matched'[k] = catalog[j].symbol
        BY <1>1, <1>6, <4>1, <4>2
      <4> QED
        BY <4>3
    <3> QED
      BY <3>1, <3>2
  <2>5. ASSUME NEW j \in 1 .. row, Qualifies(catalog[j])'
        PROVE  \E k \in 1 .. Len(matched') : matched'[k] = catalog[j].symbol
    <3>1. CASE j = row
      <4>1. isMatch
        <5>1. catalog'[j] = line
          BY <1>1, <3>1
        <5>2. Qualifies(catalog[j])' = Qualifies(line)'
          BY <5>1, Zenon
        <5> QED
          BY <2>5, <5>2
      <4>2. n + 1 \in 1 .. Len(matched') /\ matched'[n + 1] = catalog[j].symbol
        <5>1. Len(matched') = n + 1
          BY <1>6, <4>1
        <5>2. n + 1 \in 1 .. n + 1
          BY <1>1
        <5>3. n + 1 \in 1 .. Len(matched')
          BY <5>1, <5>2
        <5> QED
          BY <1>1, <1>6, <3>1, <4>1, <5>3
      <4> QED
        BY <4>2
    <3>2. CASE j \in 1 .. row - 1
      <4>1. Qualifies(catalog[j])
        BY <1>5, <2>5, <3>2
      <4>2. PICK k \in 1 .. n : matched[k] = catalog[j].symbol
        BY <3>2, <4>1 DEF IInv, MatchedInv
      <4>3. k \in 1 .. Len(matched')
        BY <1>1, <1>6
      <4> QED
        BY <1>6, <4>2, <4>3
    <3> QED
      BY <1>2, <3>1, <3>2
  <2>6. 1 .. row' - 1 = 1 .. row
    BY <1>3
  <2> QED
    <3>1. ASSUME NEW k \in 1 .. Len(matched')
          PROVE  \E j \in 1 .. row' - 1 :
                   Qualifies(catalog[j])' /\ matched'[k] = catalog'[j].symbol
      <4>1. PICK j \in 1 .. row : Qualifies(catalog[j])' /\ matched'[k] = catalog[j].symbol
        BY <2>4
      <4>2. j \in 1 .. row' - 1
        BY <2>6
      <4> QED
        BY <1>1, <4>1, <4>2
    <3>2. \A j \in 1 .. row' - 1 :
            Qualifies(catalog[j])' => \E k \in 1 .. Len(matched') : matched'[k] = catalog'[j].symbol
      BY <1>1, <2>5, <2>6
    <3> QED
      BY <2>3, <3>1, <3>2 DEF MatchedInv
<1>11. ReadsInv'
  <2>1. SearchWindow' = SearchWindow
    BY SameVerdicts DEF SearchWindow
  <2>2. Unique(reads)'
    BY DEF IInv, ReadsInv, Unique
  <2>3. \A j \in 1 .. row : j \in 1 .. row' /\ j < row'
    BY <1>1
  <2> QED
    BY <1>3, <2>1, <2>2, <2>3 DEF IInv, ReadsInv
<1> QED
  BY <1>7, <1>8, <1>9, <1>10, <1>11 DEF IInv

LEMMA SkipRowPreserves == IInv /\ SkipRow => IInv'
<1> SUFFICES ASSUME IInv, SkipRow PROVE IInv'
  OBVIOUS
<1>1. /\ Looping /\ row <= Len(catalog) /\ SoundRow /\ row' = row + 1
      /\ ~(Current.trading /\ PassesStats(Current.symbol))
      /\ pc' = "rows" /\ outcome' = outcome /\ SoundStats(stats)
      /\ UNCHANGED <<inputs, ctx, evaluatedAt, reads, natr, matched, result>>
  BY DEF SkipRow, Live, Stay, Looping, IInv, SnapshotInv
<1>2. PICK line : line = Current
  OBVIOUS
<1>3. ~Qualifies(line)
  BY <1>1, <1>2, QualifyingRows DEF IInv
<1>4. ~Qualifies(line)'
  BY <1>1, <1>3, SameQualities DEF inputs
<1>5. \A s \in DOMAIN natr' : natr'[s] \in NATRs
  BY <1>1 DEF IInv, TypeOK
<1> QED
  BY <1>1, <1>2, <1>4, <1>5, RowIsJudged

LEMMA TakeRowPreserves == IInv /\ TakeRow => IInv'
<1> SUFFICES ASSUME IInv, TakeRow PROVE IInv'
  OBVIOUS
<1>1. /\ Looping /\ row <= Len(catalog) /\ SoundRow /\ row' = row + 1
      /\ Current.trading /\ PassesStats(Current.symbol) /\ ~NeedsNATR
      /\ matched' = Append(matched, Current.symbol)
      /\ pc' = "rows" /\ outcome' = outcome /\ SoundStats(stats)
      /\ UNCHANGED <<inputs, ctx, evaluatedAt, reads, natr, result>>
  BY DEF TakeRow, Live, Stay, Looping, IInv, SnapshotInv
<1>2. PICK line : line = Current
  OBVIOUS
<1>3. Qualifies(line)
  BY <1>1, <1>2, QualifyingRows DEF IInv
<1>4. Qualifies(line)'
  BY <1>1, <1>3, SameQualities DEF inputs
<1>5. \A s \in DOMAIN natr' : natr'[s] \in NATRs
  BY <1>1 DEF IInv, TypeOK
<1> QED
  BY <1>1, <1>2, <1>4, <1>5, RowIsJudged

LEMMA NATRArrivesPreserves == IInv /\ NATRArrives => IInv'
<1> SUFFICES ASSUME IInv, NATRArrives PROVE IInv'
  OBVIOUS
<1>1. PICK value \in NATRs :
        /\ natr' = [s \in DOMAIN natr \cup {Current.symbol} |->
                     IF s = Current.symbol THEN value ELSE natr[s]]
        /\ matched' = IF value >= request.minNATR THEN Append(matched, Current.symbol) ELSE matched
  BY DEF NATRArrives
<1>2. /\ Looping /\ row <= Len(catalog) /\ SoundRow /\ row' = row + 1
      /\ Current.trading /\ PassesStats(Current.symbol) /\ NeedsNATR
      /\ pc' = "rows" /\ outcome' = outcome /\ SoundStats(stats)
      /\ UNCHANGED <<inputs, ctx, evaluatedAt, reads, result>>
  BY DEF NATRArrives, Live, Looping, IInv, SnapshotInv, RowsInv
<1>3. /\ \A s \in DOMAIN natr' : natr'[s] \in NATRs
      /\ DOMAIN natr \subseteq DOMAIN natr'
      /\ \A s \in DOMAIN natr : s # Current.symbol => natr'[s] = natr[s]
      /\ \A s \in DOMAIN natr' : s \in DOMAIN natr \/ s = Current.symbol
      /\ Current.symbol \in DOMAIN natr' /\ natr'[Current.symbol] = value
  BY <1>1 DEF IInv, TypeOK
<1>4. PICK line : line = Current
  OBVIOUS
<1>5. PICK isMatch \in BOOLEAN : isMatch <=> value >= request.minNATR
  OBVIOUS
<1>6. isMatch <=> Qualifies(line)'
  <2>1. /\ NeedsStats' = NeedsStats /\ NeedsNATR' = NeedsNATR /\ request' = request
        /\ Symbols(stats)' = Symbols(stats) /\ \A symbol : StatOf(symbol)' = StatOf(symbol)
    BY <1>2, SameVerdicts DEF Symbols, StatOf, inputs
  <2>2. NeedsStats =>
          /\ line.symbol \in Symbols(stats)
          /\ StatOf(line.symbol).volume >= request.minVolume
          /\ StatOf(line.symbol).trades >= request.minTrades
    BY <1>2, <1>4, PassingSymbols DEF IInv
  <2> QED
    BY <1>2, <1>3, <1>4, <1>5, <2>1, <2>2 DEF Qualifies
<1>7. matched' = IF isMatch THEN Append(matched, Current.symbol) ELSE matched
  BY <1>1, <1>5
<1> QED
  BY <1>2, <1>3, <1>4, <1>6, <1>7, RowIsJudged

LEMMA AskNATRPreserves == IInv /\ AskNATR => IInv'
<1> SUFFICES ASSUME IInv, AskNATR PROVE IInv'
  OBVIOUS
<1>1. PICK now \in Clock :
        IF Window(now) # NoRange /\ Window(now).to <= Floor(Day, now)
          THEN /\ reads' = Append(reads, [symbol |-> Current.symbol, window |-> Window(now)])
               /\ pc' = "natr" /\ UNCHANGED outcome
          ELSE EndWith("invalid_parameter") /\ UNCHANGED reads
  BY DEF AskNATR
<1>2. /\ pc = "rows" /\ Looping /\ row <= Len(catalog) /\ SoundRow
      /\ Current.trading /\ PassesStats(Current.symbol) /\ NeedsNATR
      /\ UNCHANGED <<inputs, ctx, evaluatedAt, row, natr, matched, result>>
  BY DEF AskNATR, Live, Looping
<1>3. Window(now) = SearchWindow
  BY DEF Window, SearchWindow
<1>4. CASE Window(now) # NoRange /\ Window(now).to <= Floor(Day, now)
  <2> DEFINE read == [symbol |-> Current.symbol, window |-> SearchWindow]
             n == Len(reads)
  <2>1. /\ reads' = Append(reads, read) /\ pc' = "natr" /\ outcome' = outcome
        /\ SearchWindow # NoRange
    BY <1>1, <1>3, <1>4
  <2>2. row \in 1 .. Len(catalog) /\ Current.symbol \in Nat /\ catalog' = catalog
    BY <1>2, CurrentIsRow DEF IInv, inputs
  <2>3. /\ reads \in Seq([symbol : Nat, window : {SearchWindow}]) /\ n \in Nat
        /\ read \in [symbol : Nat, window : {SearchWindow}]
    BY <2>2 DEF IInv, ReadsInv
  <2>4. /\ reads' \in Seq([symbol : Nat, window : {SearchWindow}]) /\ Len(reads') = n + 1
        /\ reads'[n + 1] = read
        /\ \A k \in 1 .. n : reads'[k] = reads[k]
    BY <2>1, <2>3
  <2>5. \A k \in 1 .. n + 1 : k = n + 1 \/ k \in 1 .. n
    BY <2>3
  <2>6. SearchWindow' = SearchWindow /\ \A symbol : PassesStats(symbol)' = PassesStats(symbol)
    BY <1>2, SameVerdicts DEF SearchWindow, inputs
  <2>7. TypeOK'
    <3>1. ASSUME NEW k \in 1 .. Len(reads')
          PROVE  /\ reads'[k].symbol \in Nat
                 /\ ValidTime(reads'[k].window.from) /\ ValidTime(reads'[k].window.to)
      <4>1. reads'[k] \in [symbol : Nat, window : {SearchWindow}]
        <5> DEFINE Read == [symbol : Nat, window : {SearchWindow}]
        <5>1. reads' \in Seq(Read)
          BY <2>4
        <5> HIDE DEF Read
        <5>2. reads'[k] \in Read
          BY <5>1
        <5> QED
          BY <5>2 DEF Read
      <4> QED
        BY <2>1, <4>1, WindowIsClosed DEF IInv
    <3> QED
      BY <1>2, <2>1, <3>1 DEF IInv, TypeOK, inputs, ValidTime
  <2>8. OutcomeInv' /\ ResultIsExact'
    BY <1>2, <2>1 DEF IInv, OutcomeInv, ResultIsExact
  <2>9. SnapshotInv'
    BY <1>2, <2>1, SameVerdicts DEF IInv, SnapshotInv, Looping, inputs
  <2>10. RowsInv' /\ MatchedInv'
    <3>1. SoundRow' /\ Current' = Current
      BY <1>2 DEF SoundRow, Current, inputs
    <3> QED
      BY <1>2, <2>1, <3>1, SameVerdicts, SameQualities DEF IInv, RowsInv, MatchedInv, inputs
  <2>11. ReadsInv'
    <3>1. ASSUME NEW k \in 1 .. n
          PROVE  \E j \in 1 .. row :
                   /\ j < row /\ j <= Len(catalog) /\ catalog[j].symbol = reads[k].symbol
                   /\ catalog[j].own /\ catalog[j].trading /\ PassesStats(catalog[j].symbol)
      BY <1>2 DEF IInv, ReadsInv
    <3>2. \A k \in 1 .. n : reads[k].symbol # Current.symbol
      <4> SUFFICES ASSUME NEW k \in 1 .. n PROVE reads[k].symbol # Current.symbol
        OBVIOUS
      <4>1. PICK j \in 1 .. row : j < row /\ catalog[j].symbol = reads[k].symbol
        BY <3>1
      <4>2. j \in 1 .. row - 1
        BY <2>2, <4>1
      <4> QED
        BY <1>2, <4>1, <4>2 DEF SoundRow
    <3>3. Unique(reads)'
      <4>1. \A j, k \in 1 .. n : reads[j].symbol = reads[k].symbol => j = k
        BY DEF IInv, ReadsInv, Unique
      <4>2. \A k \in 1 .. n + 1 : k \notin 1 .. n => reads'[k].symbol = Current.symbol
        BY <2>4, <2>5
      <4> QED
        BY <2>4, <2>5, <3>2, <4>1, <4>2 DEF Unique
    <3>4. ASSUME NEW k \in 1 .. Len(reads')
          PROVE  \E j \in 1 .. row :
                   /\ j <= Len(catalog) /\ catalog[j].symbol = reads'[k].symbol
                   /\ catalog[j].own /\ catalog[j].trading /\ PassesStats(catalog[j].symbol)
      <4>1. CASE k = n + 1
        <5>1. PICK j \in 1 .. row : j = row
          BY <2>2
        <5> QED
          BY <1>2, <2>2, <2>4, <4>1, <5>1 DEF Current, SoundRow
      <4>2. CASE k \in 1 .. n
        BY <2>4, <3>1, <4>2
      <4> QED
        BY <2>4, <2>5, <4>1, <4>2
    <3> QED
      BY <1>2, <2>1, <2>2, <2>4, <2>6, <3>3, <3>4 DEF ReadsInv
  <2> QED
    BY <2>7, <2>8, <2>9, <2>10, <2>11 DEF IInv
<1>5. CASE ~(Window(now) # NoRange /\ Window(now).to <= Floor(Day, now))
  <2>1. EndWith("invalid_parameter") /\ UNCHANGED reads
    BY <1>1, <1>5
  <2> QED
    BY <1>2, <2>1, FailingPreserves
<1> QED
  BY <1>4, <1>5

LEMMA FinishPreserves == IInv /\ Finish => IInv'
<1> SUFFICES ASSUME IInv, Finish PROVE IInv'
  OBVIOUS
<1>1. /\ pc = "rows" /\ Looping /\ row > Len(catalog) /\ pc # "done"
      /\ UNCHANGED <<inputs, ctx, evaluatedAt, row, reads, natr, matched>>
  BY DEF Finish, Looping
<1>2. CASE UNCHANGED result /\ EndWith("response_too_large")
  BY <1>1, <1>2, FailingPreserves
<1>3. CASE result' \in Ascending(matched) /\ EndWith("ok")
  <2> DEFINE n == Len(matched)
  <2>1. pc' = "done" /\ outcome' = "ok"
    BY <1>3 DEF EndWith
  <2>2. /\ row = Len(catalog) + 1 /\ Len(catalog) \in Nat /\ catalog \in Seq(Row)
        /\ n \in Nat /\ matched \in Seq(Nat) /\ 1 .. row - 1 = 1 .. Len(catalog)
    BY <1>1, InputsAreTyped DEF IInv
  <2>3. PICK p \in Orders(n) :
          /\ result' = [k \in 1 .. n |-> matched[p[k]]]
          /\ \A j, k \in 1 .. n : j < k => ~(result'[k] < result'[j])
    BY <1>3 DEF Ascending, Sorted
  <2>4. /\ p \in [1 .. n -> 1 .. n]
        /\ \A j, k \in 1 .. n : p[j] = p[k] => j = k
        /\ \A j \in 1 .. n : \E k \in 1 .. n : p[k] = j
    BY DEF Orders
  <2>5. /\ \A k \in 1 .. n : result'[k] = matched[p[k]] /\ result'[k] \in Nat
        /\ result' \in Seq(Nat) /\ Len(result') = n
    <3>1. ASSUME NEW k \in 1 .. n PROVE p[k] \in 1 .. n /\ matched[p[k]] \in Nat
      <4>1. p[k] \in 1 .. n
        BY <2>4
      <4> QED
        BY <2>2, <4>1
    <3>2. result' \in [1 .. n -> Nat]
      BY <2>3, <3>1
    <3> QED
      BY <2>2, <2>3, <3>1, <3>2
  <2>6. TypeOK'
    BY <1>1, <2>1, <2>5 DEF IInv, TypeOK, inputs
  <2>7. OutcomeInv' /\ SnapshotInv'
    BY <1>1, <2>1, SameVerdicts DEF IInv, OutcomeInv, SnapshotInv, Looping, inputs
  <2>8. RowsInv' /\ MatchedInv'
    BY <1>1, <2>1, SameVerdicts, SameQualities DEF IInv, RowsInv, MatchedInv, inputs
  <2>9. ReadsInv'
    BY <1>1, <2>1, SameReads DEF IInv, inputs
  <2>10. ResultIsExact'
    <3>1. \A line : Qualifies(line)' = Qualifies(line)
      BY <1>1, SameQualities DEF inputs
    <3>2. \A k \in 1 .. Len(catalog) : catalog[k].own
      BY <2>2 DEF IInv, RowsInv
    <3>3. Unique(catalog) /\ Unique(stats)
      BY <1>1, <2>2 DEF IInv, RowsInv, SnapshotInv, Unique, SoundStats
    <3>4. ASSUME NEW k \in 1 .. n
          PROVE  \E j \in 1 .. Len(catalog) :
                   Qualifies(catalog[j]) /\ result'[k] = catalog[j].symbol
      <4>1. p[k] \in 1 .. n
        BY <2>4
      <4>2. PICK j \in 1 .. row - 1 :
              Qualifies(catalog[j]) /\ matched[p[k]] = catalog[j].symbol
        BY <4>1 DEF IInv, MatchedInv
      <4>3. j \in 1 .. Len(catalog)
        BY <2>2
      <4> QED
        BY <2>5, <4>2, <4>3
    <3>5. ASSUME NEW j \in 1 .. Len(catalog), Qualifies(catalog[j])
          PROVE  \E k \in 1 .. n : result'[k] = catalog[j].symbol
      <4>1. PICK m \in 1 .. n : matched[m] = catalog[j].symbol
        <5>1. j \in 1 .. row - 1
          BY <2>2
        <5> QED
          BY <3>5, <5>1 DEF IInv, MatchedInv
      <4>2. PICK k \in 1 .. n : p[k] = m
        BY <2>4
      <4> QED
        BY <2>5, <4>1, <4>2
    <3>6. \A k \in 1 .. n - 1 : result'[k] < result'[k + 1]
      <4> SUFFICES ASSUME NEW k \in 1 .. n - 1 PROVE result'[k] < result'[k + 1]
        OBVIOUS
      <4>1. PICK m \in 1 .. n : m = k + 1
        BY <2>2
      <4>2. k \in 1 .. n /\ k < m /\ k # m
        BY <2>2, <4>1
      <4>3. p[k] \in 1 .. n /\ p[m] \in 1 .. n
        BY <2>4, <4>2
      <4>4. p[k] # p[m]
        BY <2>4, <4>2
      <4>5. matched[p[k]] # matched[p[m]]
        BY <4>3, <4>4 DEF IInv, MatchedInv
      <4>6. /\ result'[k] \in Nat /\ result'[m] \in Nat
            /\ result'[k] <= result'[m] /\ result'[k] # result'[m]
        BY <2>3, <2>5, <4>2, <4>5
      <4> QED
        BY <4>1, <4>6
    <3>7. {result'[k] : k \in 1 .. n} =
            {line.symbol : line \in {l \in {catalog[k] : k \in 1 .. Len(catalog)} : Qualifies(l)'}}
      <4> DEFINE lines == {l \in {catalog[k] : k \in 1 .. Len(catalog)} : Qualifies(l)'}
      <4>1. ASSUME NEW k \in 1 .. n PROVE \E line \in lines : result'[k] = line.symbol
        <5>1. PICK j \in 1 .. Len(catalog) :
                Qualifies(catalog[j]) /\ result'[k] = catalog[j].symbol
          BY <3>4
        <5>2. PICK line : line = catalog[j]
          OBVIOUS
        <5>3. Qualifies(line)'
          BY <3>1, <5>1, <5>2
        <5> QED
          BY <5>1, <5>2, <5>3
      <4>2. ASSUME NEW line \in lines PROVE \E k \in 1 .. n : result'[k] = line.symbol
        <5>1. PICK j \in 1 .. Len(catalog) : line = catalog[j]
          OBVIOUS
        <5>2. Qualifies(line)
          BY <3>1
        <5>3. Qualifies(catalog[j]) /\ line.symbol = catalog[j].symbol
          BY ONLY <5>1, <5>2
        <5> QED
          BY <3>5, <5>1, <5>3
      <4> HIDE DEF lines
      <4>3. {result'[k] : k \in 1 .. n} = {line.symbol : line \in lines}
        BY ONLY <4>1, <4>2, SMTT(30)
      <4> QED
        BY <4>3 DEF lines
    <3>8. catalog' = catalog /\ Unique(catalog)' /\ Unique(stats)'
      BY <1>1, <3>3 DEF inputs, Unique
    <3>9. Len(result') = n
      BY <2>5
    <3>10. {result'[k] : k \in 1 .. Len(result')} =
             {line.symbol : line \in {l \in {catalog'[k] : k \in 1 .. Len(catalog')} : Qualifies(l)'}}
      BY ONLY <3>7, <3>8, <3>9
    <3>11. \A k \in 1 .. Len(result') - 1 : result'[k] < result'[k + 1]
      BY ONLY <3>6, <3>9
    <3>12. \A k \in 1 .. Len(catalog') : catalog'[k].own
      BY ONLY <3>2, <3>8
    <3> QED
      BY ONLY <3>8, <3>10, <3>11, <3>12 DEF ResultIsExact
  <2> QED
    BY <2>6, <2>7, <2>8, <2>9, <2>10 DEF IInv
<1> QED
  BY <1>2, <1>3 DEF Finish
-----------------------------------------------------------------------------
LEMMA NextPreserves == IInv /\ [Next]_vars => IInv'
<1> SUFFICES ASSUME IInv, [Next]_vars PROVE IInv'
  OBVIOUS
<1>1. CASE RejectRow
  BY <1>1, FailingPreserves DEF RejectRow, Live
<1>2. CASE ReadFails
  BY <1>2, FailingPreserves DEF ReadFails
<1>3. CASE Interrupted
  BY <1>3, FailingPreserves DEF Interrupted
<1>4. CASE Cancel \/ Expire
  BY <1>4, StutterPreserves DEF Cancel, Expire, EndContext
<1>5. CASE UNCHANGED vars
  BY <1>5, StutterPreserves DEF vars, IInv, TypeOK
<1>6. CASE Validate \/ SkipRow \/ TakeRow \/ AskNATR \/ Finish
  BY <1>6, ValidatePreserves, SkipRowPreserves, TakeRowPreserves, AskNATRPreserves,
     FinishPreserves
<1>7. CASE CatalogArrives \/ StatsArrive \/ NATRArrives
  BY <1>7, CatalogArrivesPreserves, StatsArrivePreserves, NATRArrivesPreserves
<1> QED
  BY <1>1, <1>2, <1>3, <1>4, <1>5, <1>6, <1>7 DEF Next, Handler
-----------------------------------------------------------------------------
(* The inductive invariant holds in every state of a search.               *)
THEOREM SearchInv == Spec => []IInv
<1>1. Init => IInv
  BY InitHolds
<1>2. IInv /\ [Next]_vars => IInv'
  BY NextPreserves
<1> QED
  BY <1>1, <1>2, PTL DEF Spec

(* Every variable of a search keeps to its type.                           *)
THEOREM SearchIsTyped == Spec => []TypeOK
<1>1. IInv => TypeOK
  BY DEF IInv
<1> QED
  BY <1>1, SearchInv, PTL

(* A search that succeeds returns exactly the instruments that qualify,    *)
(* each once and in order, for catalogs and statistics of any length.      *)
THEOREM ResultsAreExact == Spec => []ResultIsExact
<1>1. IInv => ResultIsExact
  BY DEF IInv
<1> QED
  BY <1>1, SearchInv, PTL

(* All the candles of a search are of one window, closed when it began,    *)
(* however often and wherever the clock moves meanwhile.                   *)
THEOREM WindowsAreOne == Spec => []SameWindow
<1>1. IInv => SameWindow
  <2> SUFFICES ASSUME IInv, NEW k \in 1 .. Len(reads)
               PROVE  reads[k].window.to <= evaluatedAt /\ reads[k].window = reads[1].window
    BY DEF SameWindow
  <2> DEFINE Read == [symbol : Nat, window : {SearchWindow}]
  <2>1. reads \in Seq(Read) /\ reads # <<>> /\ Len(reads) \in Nat
    BY DEF IInv, ReadsInv
  <2> HIDE DEF Read
  <2>2. 1 \in 1 .. Len(reads) /\ reads[k] \in Read /\ reads[1] \in Read
    BY <2>1
  <2>3. reads[k].window = SearchWindow /\ reads[1].window = SearchWindow
    BY <2>2 DEF Read
  <2> QED
    BY <2>1, <2>3, WindowIsClosed DEF IInv, ReadsInv
<1> QED
  BY <1>1, SearchInv, PTL

(* Market Data is asked for candles once for a row that needs them, and    *)
(* never for another.                                                      *)
THEOREM NoReadIsWasted == Spec => []ReadsAreNeeded
<1>1. IInv => ReadsAreNeeded
  <2> SUFFICES ASSUME IInv PROVE ReadsAreNeeded
    OBVIOUS
  <2>1. Unique(reads)
    BY DEF IInv, ReadsInv
  <2>2. ASSUME NEW k \in 1 .. Len(reads)
        PROVE  LET symbol == reads[k].symbol
               IN  /\ \E line \in {catalog[j] : j \in 1 .. Len(catalog)} :
                        line.symbol = symbol /\ line.trading /\ line.own
                   /\ NeedsStats =>
                        /\ symbol \in Symbols(stats)
                        /\ StatOf(symbol).volume >= request.minVolume
                        /\ StatOf(symbol).trades >= request.minTrades
    <3>1. PICK j \in 1 .. row :
            /\ j <= Len(catalog) /\ catalog[j].symbol = reads[k].symbol
            /\ catalog[j].own /\ catalog[j].trading /\ PassesStats(catalog[j].symbol)
      BY DEF IInv, ReadsInv
    <3>2. j \in 1 .. Len(catalog)
      BY <3>1, InputsAreTyped DEF IInv
    <3>3. reads # <<>>
      BY DEF IInv, ReadsInv
    <3>4. SoundStats(stats) /\ PassesStats(reads[k].symbol)
      BY <3>1, <3>3 DEF IInv, SnapshotInv
    <3> QED
      BY <3>1, <3>2, <3>4, PassingSymbols DEF IInv
  <2> QED
    BY <2>1, <2>2 DEF ReadsAreNeeded
<1> QED
  BY <1>1, SearchInv, PTL
=============================================================================
