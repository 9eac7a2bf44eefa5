------------------------------ MODULE LoadTest ------------------------------
(***************************************************************************)
(* The load test: cmd/market-analyzer-load and RunLoad of                  *)
(* internal/releasevalidation, run against the service of Metrics.  The    *)
(* tool fetches a page of metrics, has its workers make the calls          *)
(* 0 .. Requests - 1, fetches a second page and writes a report.           *)
(*                                                                         *)
(* Between them lies a network that loses calls and answers; a call the    *)
(* tool has given up may still reach the service.  Other clients' calls    *)
(* are in Calls too.                                                       *)
(***************************************************************************)
EXTENDS Metrics, Sorting, Functions, FiniteSetsExt

CONSTANTS
  Requests,    \* LoadOptions.Requests
  Workers      \* the goroutines of RunLoad, LoadOptions.Concurrency of them

ASSUME LoadAssumption ==
  /\ Requests \in Nat \ {0}
  /\ 0 .. Requests - 1 \subseteq Calls \ Searches
  /\ Scrapes = {"before", "after"}
  /\ Workers # {}

VARIABLES
  stage,     \* where run is
  exit,      \* "none", "success" or "failure"
  jobs,      \* the first index still in the channel of jobs
  worker,    \* each worker: the index of its call, Free or Done
  results,   \* LoadReport.Results, in order of arrival until they are sorted
  report,    \* what RunLoad returned
  loadErr,   \* RunLoad returned an error
  pages,     \* the snapshots read from the two pages
  file       \* what the tool has written at the path of the report

toolVars == <<stage, exit, jobs, worker, results, report, loadErr, pages, file>>
vars == <<metricsVars, toolVars>>

NoPage == [requests |-> -1]
NoReport == [results |-> <<>>]

Indices == 0 .. Requests - 1
Free == -1
Done == -2

(* ParseMetrics adds up what the page lists by label.                      *)
ParseMetrics(p) ==
  [requests     |-> Total(p.requests),
   dependencies |-> Total(p.dependencies),
   calculations |-> p.calculations,
   candles      |-> p.sourceCandles.sum,
   responses    |-> p.responseBytes.count,
   bytes        |-> p.responseBytes.sum,
   active       |-> p.active]

(* DifferenceMetrics: the gauge is the second page's.                      *)
DifferenceMetrics(before, after) ==
  [f \in DOMAIN after |-> IF f = "active" THEN after[f] ELSE after[f] - before[f]]

Init ==
  /\ MetricsInit
  /\ stage = "before"
  /\ exit = "none"
  /\ jobs = 0
  /\ worker = [w \in Workers |-> Free]
  /\ results = <<>>
  /\ report = NoReport
  /\ loadErr = FALSE
  /\ pages = [s \in Scrapes |-> NoPage]
  /\ file = "none"

(* fetchMetrics reads a complete page, or fails and gives none.            *)
Fetch(s) ==
  /\ page[s].state = "shown"
  /\ pages' = [pages EXCEPT ![s] = ParseMetrics(page[s])]
  /\ page' = [page EXCEPT ![s] = Blank]

NoFetch == UNCHANGED <<pages, page>>

(* fetchMetrics before the load: without a page there is no load test, and *)
(* no report.                                                              *)
FetchBefore ==
  /\ stage = "before"
  /\ \/ Fetch("before") /\ stage' = "load" /\ UNCHANGED exit
     \/ NoFetch /\ stage' = "exited" /\ exit' = "failure"
  /\ UNCHANGED <<registry, server, outcome, reads, jobs, worker, results, report, loadErr, file>>

(* RunLoad turns wrong options down with an empty report.                  *)
RejectOptions ==
  /\ stage = "load"
  /\ stage' = "after"
  /\ loadErr' = TRUE
  /\ UNCHANGED <<metricsVars, exit, jobs, worker, results, report, pages, file>>

StartWorkers ==
  /\ stage = "load"
  /\ stage' = "working"
  /\ UNCHANGED <<metricsVars, exit, jobs, worker, results, report, loadErr, pages, file>>

(* A worker receives the next index of the closed channel and makes its    *)
(* call, or finds the channel drained.                                     *)
Take(w) ==
  /\ stage = "working"
  /\ worker[w] = Free
  /\ IF jobs < Requests
       THEN worker' = [worker EXCEPT ![w] = jobs] /\ jobs' = jobs + 1
       ELSE worker' = [worker EXCEPT ![w] = Done] /\ UNCHANGED jobs
  /\ UNCHANGED <<metricsVars, stage, exit, results, report, loadErr, pages, file>>

Result(w, status, flagged) ==
  /\ results' = Append(results,
       [index |-> worker[w], status |-> status, bytes |-> IF status = "OK" THEN 1 ELSE 0,
        flagged |-> flagged])
  /\ worker' = [worker EXCEPT ![w] = Free]
  /\ UNCHANGED <<metricsVars, stage, exit, jobs, report, loadErr, pages, file>>

(* The service answers a call when its interceptor is through.             *)
AnsweredUnrecorded(c) == server[c] \in {"returned", "inactive", "finished"}
                         \* fault: the call is recorded behind its answer

Answered(c) == server[c] = "finished"

(* runLoadCase judges a good answer itself: one whose result points at the *)
(* wrong candle fails inside the call, any other flaw is marked as a       *)
(* validation error.  Neither has a status of its own.                     *)
Receive(w) ==
  /\ worker[w] \in Indices
  /\ Answered(worker[w])
  /\ IF outcome[worker[w]].status = "OK"
       THEN Result(w, "OK", FALSE) \/ Result(w, "Unknown", FALSE) \/ Result(w, "Unknown", TRUE)
       ELSE Result(w, outcome[worker[w]].status, FALSE)

(* The call runs into its timeout, or its connection fails under it or its *)
(* answer: the status is one that the tool's own gRPC client makes.        *)
GiveUpAnswered(w) ==   \* fault: the call has no deadline of its own
  worker[w] \in Indices /\ Answered(worker[w]) /\ Result(w, "unanswered", FALSE)

GiveUp(w) ==
  worker[w] \in Indices /\ Result(w, "unanswered", FALSE)

Work(w) == Take(w) \/ Receive(w) \/ GiveUp(w)

(* percentile, of latencies in order.                                      *)
RankTruncated(n, percentage) == (n * percentage) \div 100   \* fault: rounded down

Rank(n, percentage) == (n * percentage + 99) \div 100

Percentile(sorted, percentage) ==
  LET index == Rank(Len(sorted), percentage)
  IN  sorted[IF index < 1 THEN 1 ELSE index]

(* sort.Slice by index.                                                    *)
ByArrival(rs) == {rs}   \* fault: the results are left in order of arrival

ByIndex(rs) == Sorted(rs, LAMBDA a, b : a.index < b.index)

Count(rs, Test(_)) == Cardinality({k \in 1 .. Len(rs) : Test(rs[k])})

(* summarizeLoad: a result has the unit of its response, or no bytes.      *)
Summary(rs) ==
  LET passed == Count(rs, LAMBDA r : r.status = "OK")
  IN  [passed     |-> passed,
       failed     |-> Len(rs) - passed,
       bytes      |-> Count(rs, LAMBDA r : r.status = "OK" /\ r.bytes = 1),
       validation |-> Count(rs, LAMBDA r : r.status # "OK" /\ r.flagged)]

(* The WaitGroup lets RunLoad on when the last worker is done.             *)
Summarize ==
  /\ stage = "working"
  /\ \A w \in Workers : worker[w] = Done
  /\ stage' = "after"
  /\ results' \in ByIndex(results)
  /\ report' = [results |-> results', summary |-> Summary(results')]
  /\ loadErr' = (report'.summary.failed > 0)
  /\ UNCHANGED <<metricsVars, exit, jobs, worker, pages, file>>

(* The second page may be missing; the report is written all the same.     *)
FetchAfter ==
  /\ stage = "after"
  /\ stage' = "write"
  /\ Fetch("after") \/ NoFetch
  /\ UNCHANGED <<registry, server, outcome, reads, exit, jobs, worker, results, report, loadErr, file>>

(* writeReport fails where there is a file already, or later, in encoding  *)
(* the report or in closing the file, and leaves what it has written.      *)
Write ==
  /\ stage = "write"
  /\ stage' = "exited"
  /\ file' \in {"none", "partial", "report"}
  /\ \E written \in BOOLEAN :
       /\ written => file' = "report"
       /\ exit' = IF written /\ ~loadErr /\ pages["after"] # NoPage
                    THEN "success" ELSE "failure"
  /\ UNCHANGED <<metricsVars, jobs, worker, results, report, loadErr, pages>>

Run == FetchBefore \/ RejectOptions \/ StartWorkers \/ Summarize \/ FetchAfter \/ Write

(* The service sees a load call once it was made, and a request for a page *)
(* once run has got to it.  It rests while a complete page is on its way   *)
(* to the tool and in the stages without a call or a page: what it does    *)
(* then it can as well do next.                                            *)
Serve ==
  /\ \/ stage = "working"
     \/ stage \in Scrapes /\ page[stage].state # "shown"
  /\ \/ \E c \in Calls : (c \in Indices => c < jobs) /\ Call(c)
     \/ stage \in Scrapes /\ Scrape(stage)
  /\ UNCHANGED toolVars

Next == Run \/ Serve \/ \E w \in Workers : Work(w)

Spec == Init /\ [][Next]_vars

(* The goroutines of the tool run, and its timeouts bound every wait.  Of  *)
(* the service and the network nothing is assumed.                         *)
FairSpec == Spec /\ WF_vars(Run) /\ \A w \in Workers : WF_vars(Work(w))
-----------------------------------------------------------------------------
Statuses == {"OK", "failed", "Unknown", "unanswered"}

TypeOK ==
  /\ MetricsTypeOK
  /\ stage \in {"before", "load", "working", "after", "write", "exited"}
  /\ exit \in {"none", "success", "failure"}
  /\ jobs \in 0 .. Requests
  /\ worker \in [Workers -> Indices \cup {Free, Done}]
  /\ results \in Seq([index : Indices, status : Statuses, bytes : 0 .. 1, flagged : BOOLEAN])
  /\ Len(results) <= Requests
  /\ file \in {"none", "partial", "report"}

(* The latency that the given percentage of the calls do not exceed.       *)
IsNearestRank(d, latencies, percentage) ==
  d = Min({ e \in Range(latencies) :
              100 * Count(latencies, LAMBDA l : l <= e) >= percentage * Len(latencies) })

PercentilesAreNearestRanks ==
  \A n \in 1 .. 4 : \A latencies \in [1 .. n -> 1 .. n] : \A p \in {25, 50, 95, 99} :
    \A sorted \in Ascending(latencies) :
      IsNearestRank(Percentile(sorted, p), latencies, p)

(***************************************************************************)
(* A report with results has each call once, in order, whichever workers   *)
(* ran them, and says of each what happened to it: a passed call is one    *)
(* the service finished OK.  Its latencies are nearest ranks.  The tool    *)
(* succeeds only if such a report, all passed and with the service's       *)
(* metrics, is complete at its path.                                       *)
(***************************************************************************)
ReportIsExact ==
  /\ report # NoReport =>
       LET rs == report.results
           s  == report.summary
       IN  /\ [k \in DOMAIN rs |-> rs[k].index] = [k \in 1 .. Requests |-> k - 1]
           /\ \A r \in Range(rs) :
                r.status \in {"OK", "Unknown"} =>
                  server[r.index] = "finished" /\ outcome[r.index].status = "OK"
           /\ s.passed + s.failed = Requests
           /\ s.bytes <= responseBytes.sum
           /\ s.validation <= Count(rs, LAMBDA r : r.status = "Unknown")
           /\ loadErr <=> s.passed < Requests
  /\ exit = "success" =>
       /\ report # NoReport /\ report.summary.passed = Requests
       /\ pages["after"] # NoPage
       /\ file = "report"
  /\ PercentilesAreNearestRanks

(***************************************************************************)
(* Whatever other clients do meanwhile, the difference of the two pages    *)
(* covers the load: every call that was answered is in it, and every call  *)
(* that passed with its read, its calculation and its bytes: a call is     *)
(* recorded before its answer leaves the service, so no answer the tool    *)
(* has received can be missing from the second page.                       *)
(***************************************************************************)
DeltaCoversAnswers ==
  report # NoReport /\ pages["after"] # NoPage =>
    LET delta    == DifferenceMetrics(pages["before"], pages["after"])
        answered == Count(report.results, LAMBDA r : r.status \in {"OK", "Unknown", "failed"})
        good     == Count(report.results, LAMBDA r : r.status \in {"OK", "Unknown"})
    IN  /\ delta.requests >= answered
        /\ delta.dependencies >= good /\ delta.calculations >= good
        /\ delta.candles >= good
        /\ delta.bytes >= report.summary.bytes

(***************************************************************************)
(* The tool ends, even if the service never answers a call or a scrape.    *)
(***************************************************************************)
LoadEnds == <>(exit # "none")
=============================================================================
