------------------------------ MODULE Metrics ------------------------------
(***************************************************************************)
(* The counters of internal/observability and the page that shows them.    *)
(* Every gRPC call runs inside UnaryServerInterceptor, outside admission;  *)
(* its handler reads candles through the measured Reader and reports what  *)
(* it calculates.  The gauge of active calls is an atomic of its own, the  *)
(* counters are behind a mutex, and a page reads first the counters and    *)
(* then the gauge.  Times are left out, and labels are kept as far as OK   *)
(* and not OK.                                                             *)
(***************************************************************************)
EXTENDS Integers, FiniteSets

CONSTANTS
  Calls,      \* the gRPC calls whose request was decoded
  Searches,   \* those of FindActiveInstruments, which read candles repeatedly
  Scrapes,    \* the requests to /metrics
  MaxReads,   \* bound on the candle ranges a search reads
  Sound       \* bound: calls that are admitted, valid and given fitting candles

ASSUME MetricsAssumption ==
  /\ Searches \subseteq Calls
  /\ MaxReads \in Nat
  /\ Sound \subseteq Calls

VARIABLES
  active,         \* Registry.active
  requests,       \* Registry.requests: how many calls ended OK, and how many failed
  dependencies,   \* Registry.dependencies, likewise for the reads of candles
  calculations,   \* Registry.calculations
  sourceCandles,  \* Registry.sourceCandles
  responseBytes,  \* Registry.responseBytes
  server,         \* where each call is in the interceptor or its handler
  outcome,        \* each call's status and responseBytes, once the handler returned
  reads,          \* how many reads of candles each call has made
  page            \* each scrape: not begun, a copy of the counters, or complete

registry == <<active, requests, dependencies, calculations, sourceCandles, responseBytes>>
counters == <<requests, dependencies, calculations, sourceCandles, responseBytes>>
metricsVars == <<registry, server, outcome, reads, page>>

Tally == [ok : Nat, failed : Nat]
Measurement == [count : Nat, sum : Nat]
Pending == "pending"
Blank == [state |-> "blank"]

(* Two sizes stand for all: a response and the candles of a range are one  *)
(* unit each.                                                              *)
Success == [status |-> "OK", bytes |-> 1]

StartUncounted(c) ==   \* fault: the interceptor forgets RequestStarted
  /\ server[c] = "absent"
  /\ server' = [server EXCEPT ![c] = "inside"]
  /\ UNCHANGED <<registry, outcome, reads, page>>

Start(c) ==
  /\ server[c] = "absent"
  /\ server' = [server EXCEPT ![c] = "inside"]
  /\ active' = active + 1
  /\ UNCHANGED <<counters, outcome, reads, page>>

Return(c, status, bytes) ==
  /\ server' = [server EXCEPT ![c] = "returned"]
  /\ outcome' = [outcome EXCEPT ![c] = [status |-> status, bytes |-> bytes]]
  /\ UNCHANGED <<registry, reads, page>>

(* Admission turns a call away before its handler: no response at all.     *)
Refuse(c) ==
  /\ c \notin Sound
  /\ server[c] = "inside"
  /\ reads[c] = 0
  /\ Return(c, "failed", -1)

(* The handler returns an error: the request is invalid, a read failed or  *)
(* gave candles that do not fit, the context ended or the response is too  *)
(* large.  The generated handler turns its nil *Response into an interface *)
(* that is not nil, which the interceptor measures as an empty message.    *)
Fail(c) ==
  /\ c \notin Sound
  /\ server[c] \in {"inside", "accepted"}
  /\ Return(c, "failed", 0)

Succeed(c) ==
  /\ server[c] = "inside"
  /\ c \in Searches \/ reads[c] = 1
  /\ Return(c, Success.status, Success.bytes)

(* Reader.ReadCandles, as an analysis does once and a search repeatedly.   *)
MayRead(c) ==
  /\ server[c] = "inside"
  /\ reads[c] < (IF c \in Searches THEN MaxReads ELSE 1)

ObserveRead(c) ==
  /\ MayRead(c)
  /\ server' = [server EXCEPT ![c] = "accepted"]
  /\ reads' = [reads EXCEPT ![c] = @ + 1]
  /\ dependencies' = [dependencies EXCEPT !.ok = @ + 1]
  /\ sourceCandles' = [count |-> sourceCandles.count + 1, sum |-> sourceCandles.sum + 1]
  /\ UNCHANGED <<active, requests, calculations, responseBytes, outcome, page>>

(* A failed read ends the call that made it, a search included.            *)
ObserveFailedRead(c) ==
  /\ c \notin Sound
  /\ MayRead(c)
  /\ server' = [server EXCEPT ![c] = "returned"]
  /\ reads' = [reads EXCEPT ![c] = @ + 1]
  /\ dependencies' = [dependencies EXCEPT !.failed = @ + 1]
  /\ outcome' = [outcome EXCEPT ![c] = [status |-> "failed", bytes |-> 0]]
  /\ UNCHANGED <<active, requests, calculations, sourceCandles, responseBytes, page>>

(* A calculation is counted whether it succeeds or not.                    *)
ObserveCalculation(c) ==
  /\ server[c] = "accepted"
  /\ \/ server' = [server EXCEPT ![c] = "inside"] /\ UNCHANGED outcome
     \/ /\ server' = [server EXCEPT ![c] = "returned"]
        /\ outcome' = [outcome EXCEPT ![c] = [status |-> "failed", bytes |-> 0]]
  /\ calculations' = calculations + 1
  /\ UNCHANGED <<active, requests, dependencies, sourceCandles, responseBytes, reads, page>>

(* RequestFinished: the gauge goes down, then the lock is taken and the    *)
(* call is counted.                                                        *)
Deactivate(c, from, to) ==
  /\ server[c] = from
  /\ server' = [server EXCEPT ![c] = to]
  /\ active' = active - 1
  /\ UNCHANGED <<counters, outcome, reads, page>>

Record(c, from, to) ==
  /\ server[c] = from
  /\ server' = [server EXCEPT ![c] = to]
  /\ requests' = IF outcome[c].status = "OK" THEN [requests EXCEPT !.ok = @ + 1]
                                             ELSE [requests EXCEPT !.failed = @ + 1]
  /\ responseBytes' = IF outcome[c].bytes < 0 THEN responseBytes
                      ELSE [count |-> responseBytes.count + 1,
                            sum   |-> responseBytes.sum + outcome[c].bytes]
  /\ UNCHANGED <<active, dependencies, calculations, sourceCandles, outcome, reads, page>>

FinishRecordingFirst(c) ==   \* fault: the call is counted while it is still active
  Record(c, "returned", "inactive") \/ Deactivate(c, "inactive", "finished")

Finish(c) == Deactivate(c, "returned", "inactive") \/ Record(c, "inactive", "finished")

Call(c) ==
  \/ Start(c) \/ Refuse(c) \/ Fail(c) \/ Succeed(c)
  \/ ObserveRead(c) \/ ObserveFailedRead(c) \/ ObserveCalculation(c) \/ Finish(c)

(* Registry.ServeHTTP copies the counters under the lock and then reads    *)
(* the gauge.                                                              *)
Copy(s) ==
  /\ page[s] = Blank
  /\ page' = [page EXCEPT ![s] =
       [state |-> "copied", requests |-> requests, dependencies |-> dependencies,
        calculations |-> calculations, sourceCandles |-> sourceCandles,
        responseBytes |-> responseBytes, active |-> 0]]
  /\ UNCHANGED <<registry, server, outcome, reads>>

Show(s) ==
  /\ page[s].state = "copied"
  /\ page' = [page EXCEPT ![s].state = "shown", ![s].active = active]
  /\ UNCHANGED <<registry, server, outcome, reads>>

Scrape(s) == Copy(s) \/ Show(s)

MetricsInit ==
  /\ active = 0
  /\ requests = [ok |-> 0, failed |-> 0]
  /\ dependencies = [ok |-> 0, failed |-> 0]
  /\ calculations = 0
  /\ sourceCandles = [count |-> 0, sum |-> 0]
  /\ responseBytes = [count |-> 0, sum |-> 0]
  /\ server = [c \in Calls |-> "absent"]
  /\ outcome = [c \in Calls |-> [status |-> Pending, bytes |-> -1]]
  /\ reads = [c \in Calls |-> 0]
  /\ page = [s \in Scrapes |-> Blank]
-----------------------------------------------------------------------------
ServerStates == {"absent", "inside", "accepted", "returned", "inactive", "finished"}

MetricsTypeOK ==
  /\ active \in Nat
  /\ requests \in Tally /\ dependencies \in Tally
  /\ calculations \in Nat
  /\ sourceCandles \in Measurement /\ responseBytes \in Measurement
  /\ server \in [Calls -> ServerStates]
  /\ outcome \in [Calls -> [status : {Pending, "OK", "failed"}, bytes : -1 .. 1]]
  /\ reads \in [Calls -> Nat]
  /\ \A s \in Scrapes : page[s] = Blank \/ page[s].state \in {"copied", "shown"}

Started == Cardinality({c \in Calls : server[c] # "absent"})
Total(tally) == tally.ok + tally.failed

(***************************************************************************)
(* A page, put together from a copy of the counters and a later look at    *)
(* the gauge, never shows a call twice, as finished and as active: it      *)
(* shows at most the calls that have begun.  It shows a range of candles   *)
(* for each good read and no calculation without one, and no response      *)
(* without its call.  (A call may be missing from a page altogether.)      *)
(***************************************************************************)
PagesAddUp ==
  \A s \in Scrapes : page[s].state = "shown" =>
    LET p == page[s]
    IN  /\ Total(p.requests) + p.active <= Started
        /\ p.sourceCandles.count = p.dependencies.ok
        /\ p.calculations <= p.dependencies.ok
        /\ p.requests.ok <= p.responseBytes.count
        /\ p.responseBytes.count <= Total(p.requests)

(***************************************************************************)
(* docs/operations.md:42, "/metrics exposes ... response sizes": only a    *)
(* call that was answered with a response has a size to count.             *)
(***************************************************************************)
OnlyResponsesAreSized ==
  \A s \in Scrapes : page[s].state = "shown" =>
    page[s].responseBytes.count <= page[s].requests.ok
=============================================================================
