--------------------------- MODULE LoadTestProofs ---------------------------
(***************************************************************************)
(* Theorems about LoadTest for any calls, any number of requests and       *)
(* workers and whatever other clients do: the pages of metrics add up, the *)
(* report says what happened to each call, and the difference of the two   *)
(* pages covers what it says.                                              *)
(*                                                                         *)
(* First what the counters of Metrics keep to, whatever the calls do       *)
(* beside each other and however pages are put together meanwhile: one     *)
(* lemma for the calls and one for the pages.  The load test rests on      *)
(* these.                                                                  *)
(***************************************************************************)
EXTENDS LoadTest, FiniteSetTheorems, TLAPS

Begun == ServerStates \ {"absent"}
Active == {"inside", "accepted", "returned"}
Answering == {"returned", "inactive", "finished"}

In(states) == {c \in Calls : server[c] \in states}

(* Each call in its place: what it has read and what it ends in.           *)
CallsInv ==
  /\ \A c \in Calls : server[c] = "absent" => reads[c] = 0
  /\ \A c \in Calls : server[c] \in Answering <=> outcome[c].status # Pending
  /\ \A c \in Calls : outcome[c].status = "OK" => outcome[c].bytes = 1
  /\ IsFiniteSet(In(Begun))

(* The gauge counts the calls that are in their handlers or have just      *)
(* left them, the requests are those that were recorded, and every range   *)
(* that was read is calculated at most once.                               *)
CountersInv ==
  /\ active = Cardinality(In(Active))
  /\ Total(requests) = Cardinality(In({"finished"}))
  /\ sourceCandles.count = dependencies.ok
  /\ calculations + Cardinality(In({"accepted"})) <= dependencies.ok
  /\ requests.ok <= responseBytes.count
  /\ responseBytes.count <= Total(requests)

PageRecord ==
  [state : {"copied", "shown"}, requests : Tally, dependencies : Tally, calculations : Nat,
   sourceCandles : Measurement, responseBytes : Measurement, active : Nat]

(* A page's own counters fit each other as the registry's did.             *)
AddsUp(p) ==
  /\ p.sourceCandles.count = p.dependencies.ok
  /\ p.calculations <= p.dependencies.ok
  /\ p.requests.ok <= p.responseBytes.count
  /\ p.responseBytes.count <= Total(p.requests)

(* The registry has grown since the page was copied.                       *)
IsPast(p) ==
  /\ Total(p.requests) <= Total(requests)
  /\ Total(p.dependencies) <= Total(dependencies)
  /\ p.calculations <= calculations
  /\ p.sourceCandles.sum <= sourceCandles.sum
  /\ p.responseBytes.sum <= responseBytes.sum

PagesInv ==
  /\ page \in [Scrapes -> {Blank} \cup PageRecord]
  /\ \A s \in Scrapes : page[s] # Blank => AddsUp(page[s]) /\ IsPast(page[s])
  /\ \A s \in Scrapes : page[s].state = "shown" =>
       Total(page[s].requests) + page[s].active <= Started

MetricsInv == MetricsTypeOK /\ CallsInv /\ CountersInv /\ PagesInv
-----------------------------------------------------------------------------
LEMMA TotalType == \A tally \in Tally : Total(tally) \in Nat /\ tally.ok \in Nat /\ tally.failed \in Nat
BY DEF Tally, Total

(* A set of calls that are in certain states is counted anew when one of   *)
(* them moves.                                                             *)
LEMMA Moves ==
  ASSUME NEW states, IsFiniteSet(In(states)), NEW c \in Calls, NEW to,
         server \in [Calls -> ServerStates], server' = [server EXCEPT ![c] = to]
  PROVE  /\ IsFiniteSet(In(states)')
         /\ Cardinality(In(states)) \in Nat
         /\ Cardinality(In(states)') \in Nat
         /\ to \in states /\ server[c] \notin states =>
              Cardinality(In(states)') = Cardinality(In(states)) + 1
         /\ to \notin states /\ server[c] \in states =>
              Cardinality(In(states)') = Cardinality(In(states)) - 1
         /\ (to \in states <=> server[c] \in states) =>
              Cardinality(In(states)') = Cardinality(In(states))
<1>1. CASE to \in states
  <2>1. In(states)' = In(states) \cup {c}
    BY <1>1 DEF In
  <2>2. c \in In(states) <=> server[c] \in states
    BY DEF In
  <2> QED
    BY <1>1, <2>1, <2>2, FS_AddElement, FS_CardinalityType
<1>2. CASE to \notin states
  <2>1. In(states)' = In(states) \ {c}
    BY <1>2 DEF In
  <2>2. c \in In(states) <=> server[c] \in states
    BY DEF In
  <2> QED
    BY <1>2, <2>1, <2>2, FS_RemoveElement, FS_CardinalityType
<1> QED
  BY <1>1, <1>2

(* The calls that have begun are finitely many, and so are those among     *)
(* them that are in any state.                                             *)
LEMMA BegunAreFinite ==
  ASSUME IsFiniteSet(In(Begun)), NEW states \in SUBSET Begun
  PROVE  IsFiniteSet(In(states)) /\ Cardinality(In(states)) \in Nat
         /\ Cardinality(In(states)) <= Cardinality(In(Begun))
<1>1. In(states) \in SUBSET In(Begun)
  BY DEF In
<1> QED
  BY <1>1, FS_Subset, FS_CardinalityType

LEMMA StartedAreBegun ==
  ASSUME server \in [Calls -> ServerStates]
  PROVE  Started = Cardinality(In(Begun))
<1>1. {c \in Calls : server[c] # "absent"} = In(Begun)
  BY DEF In, Begun
<1> QED
  BY <1>1 DEF Started
-----------------------------------------------------------------------------
(* What moves of a call have in common: the fields that the counters'      *)
(* invariant compares.                                                     *)
LEMMA CallsAreTyped ==
  ASSUME MetricsTypeOK, NEW c \in Calls
  PROVE  /\ active \in Nat /\ requests \in Tally /\ dependencies \in Tally
         /\ calculations \in Nat
         /\ sourceCandles \in Measurement /\ responseBytes \in Measurement
         /\ server \in [Calls -> ServerStates] /\ server[c] \in ServerStates
         /\ outcome \in [Calls -> [status : {Pending, "OK", "failed"}, bytes : -1 .. 1]]
         /\ outcome[c] \in [status : {Pending, "OK", "failed"}, bytes : -1 .. 1]
         /\ reads \in [Calls -> Nat] /\ reads[c] \in Nat
BY DEF MetricsTypeOK

LEMMA CountsMove ==
  ASSUME MetricsTypeOK, CallsInv, NEW c \in Calls, NEW to \in Begun,
         server' = [server EXCEPT ![c] = to],
         NEW states \in {Active, {"accepted"}, {"finished"}, Begun}
  PROVE  /\ IsFiniteSet(In(states)')
         /\ Cardinality(In(states)) \in Nat
         /\ Cardinality(In(states)') \in Nat
         /\ to \in states /\ server[c] \notin states =>
              Cardinality(In(states)') = Cardinality(In(states)) + 1
         /\ to \notin states /\ server[c] \in states =>
              Cardinality(In(states)') = Cardinality(In(states)) - 1
         /\ (to \in states <=> server[c] \in states) =>
              Cardinality(In(states)') = Cardinality(In(states))
<1>1. states \in SUBSET Begun
  BY DEF Active, Begun, ServerStates
<1>2. IsFiniteSet(In(states))
  BY <1>1, BegunAreFinite DEF CallsInv
<1> QED
  BY <1>2, Moves, CallsAreTyped

(* The invariant with the cardinalities as numbers.                        *)
LEMMA MovesKeepCalls ==
  ASSUME MetricsTypeOK, CallsInv, NEW c \in Calls, NEW to \in Begun,
         server' = [server EXCEPT ![c] = to]
  PROVE  /\ server' \in [Calls -> ServerStates]
         /\ IsFiniteSet(In(Begun)')
         /\ Started \in Nat /\ Started' \in Nat /\ Started' >= Started
         /\ \A d \in Calls : server'[d] = "absent" => server[d] = "absent"
<1>1. server' \in [Calls -> ServerStates]
  BY CallsAreTyped DEF Begun
<1>2. \A d \in Calls : server'[d] = "absent" => server[d] = "absent"
  BY CallsAreTyped DEF Begun
<1>3. IsFiniteSet(In(Begun)')
  BY CountsMove
<1>4. In(Begun) \subseteq In(Begun)'
  BY <1>1, <1>2, CallsAreTyped DEF In, Begun
<1>5. Cardinality(In(Begun)) <= Cardinality(In(Begun)')
  BY <1>3, <1>4, FS_Subset
<1>6. Started = Cardinality(In(Begun)) /\ Started' = Cardinality(In(Begun)')
  <2>1. {d \in Calls : server'[d] # "absent"} = In(Begun)'
    BY <1>1 DEF In, Begun
  <2> QED
    BY <2>1, StartedAreBegun, CallsAreTyped DEF Started
<1>7. Cardinality(In(Begun)) \in Nat /\ Cardinality(In(Begun)') \in Nat
  BY CountsMove
<1> QED
  BY <1>1, <1>2, <1>3, <1>5, <1>6, <1>7

LEMMA StartKeeps ==
  ASSUME MetricsTypeOK, CallsInv, CountersInv, NEW c \in Calls, Start(c)
  PROVE  MetricsTypeOK' /\ CallsInv' /\ CountersInv'
<1>1. /\ server[c] = "absent" /\ server' = [server EXCEPT ![c] = "inside"]
      /\ active' = active + 1 /\ requests' = requests /\ dependencies' = dependencies
      /\ calculations' = calculations /\ sourceCandles' = sourceCandles
      /\ responseBytes' = responseBytes /\ outcome' = outcome /\ reads' = reads /\ page' = page
      /\ "inside" \in Begun
  BY DEF Start, Begun, ServerStates, counters
<1>2. MetricsTypeOK'
  <2>1. server' \in [Calls -> ServerStates]
    BY <1>1, MovesKeepCalls
  <2> QED
    BY <1>1, <2>1 DEF MetricsTypeOK
<1>3. CallsInv'
  BY <1>1, MovesKeepCalls, CallsAreTyped DEF CallsInv, Answering
<1>4. CountersInv'
  <2>1. /\ Cardinality(In(Active)') = Cardinality(In(Active)) + 1
        /\ Cardinality(In({"accepted"})') = Cardinality(In({"accepted"}))
        /\ Cardinality(In({"finished"})') = Cardinality(In({"finished"}))
    BY <1>1, CountsMove DEF Active
  <2> QED
    BY <1>1, <2>1 DEF CountersInv
<1> QED
  BY <1>2, <1>3, <1>4

(* Refuse, Fail and Succeed end in Return.                                 *)
LEMMA ReturnKeeps ==
  ASSUME MetricsTypeOK, CallsInv, CountersInv, NEW c \in Calls, NEW status, NEW bytes \in -1 .. 1,
         server[c] \in {"inside", "accepted"}, Return(c, status, bytes),
         status = "failed" \/ (status = "OK" /\ bytes = 1)
  PROVE  MetricsTypeOK' /\ CallsInv' /\ CountersInv'
<1>1. /\ server' = [server EXCEPT ![c] = "returned"]
      /\ outcome' = [outcome EXCEPT ![c] = [status |-> status, bytes |-> bytes]]
      /\ active' = active /\ requests' = requests /\ dependencies' = dependencies
      /\ calculations' = calculations /\ sourceCandles' = sourceCandles
      /\ responseBytes' = responseBytes /\ reads' = reads /\ page' = page
      /\ "returned" \in Begun
  BY DEF Return, Begun, ServerStates, registry
<1>2. MetricsTypeOK'
  <2>1. server' \in [Calls -> ServerStates]
    BY <1>1, MovesKeepCalls
  <2>2. outcome' \in [Calls -> [status : {Pending, "OK", "failed"}, bytes : -1 .. 1]]
    BY <1>1, CallsAreTyped
  <2> QED
    BY <1>1, <2>1, <2>2 DEF MetricsTypeOK
<1>3. CallsInv'
  <2>1. IsFiniteSet(In(Begun)') /\ \A d \in Calls : server'[d] = "absent" => server[d] = "absent"
    BY <1>1, MovesKeepCalls
  <2> QED
    BY <1>1, <2>1, CallsAreTyped DEF CallsInv, Answering, Pending
<1>4. CountersInv'
  <2>1. /\ Cardinality(In(Active)') = Cardinality(In(Active))
        /\ Cardinality(In({"finished"})') = Cardinality(In({"finished"}))
    BY <1>1, CountsMove DEF Active
  <2>2. /\ Cardinality(In({"accepted"})') <= Cardinality(In({"accepted"}))
        /\ Cardinality(In({"accepted"})) \in Nat /\ Cardinality(In({"accepted"})') \in Nat
    <3>1. /\ Cardinality(In({"accepted"})) \in Nat /\ Cardinality(In({"accepted"})') \in Nat
          /\ server[c] = "accepted" =>
               Cardinality(In({"accepted"})') = Cardinality(In({"accepted"})) - 1
          /\ server[c] = "inside" =>
               Cardinality(In({"accepted"})') = Cardinality(In({"accepted"}))
      BY <1>1, CountsMove
    <3> QED
      BY <3>1
  <2>3. calculations \in Nat /\ dependencies.ok \in Nat
    BY CallsAreTyped, TotalType
  <2> QED
    BY <1>1, <2>1, <2>2, <2>3 DEF CountersInv
<1> QED
  BY <1>2, <1>3, <1>4

LEMMA ObserveReadKeeps ==
  ASSUME MetricsTypeOK, CallsInv, CountersInv, NEW c \in Calls, ObserveRead(c)
  PROVE  MetricsTypeOK' /\ CallsInv' /\ CountersInv'
<1>1. /\ server[c] = "inside" /\ server' = [server EXCEPT ![c] = "accepted"]
      /\ reads' = [reads EXCEPT ![c] = @ + 1]
      /\ dependencies' = [dependencies EXCEPT !.ok = @ + 1]
      /\ sourceCandles' = [count |-> sourceCandles.count + 1, sum |-> sourceCandles.sum + 1]
      /\ active' = active /\ requests' = requests /\ calculations' = calculations
      /\ responseBytes' = responseBytes /\ outcome' = outcome /\ page' = page
      /\ "accepted" \in Begun
  BY DEF ObserveRead, MayRead, Begun, ServerStates
<1>2. dependencies' \in Tally /\ sourceCandles' \in Measurement
  BY <1>1, CallsAreTyped DEF Tally, Measurement
<1>3. MetricsTypeOK'
  <2>1. server' \in [Calls -> ServerStates]
    BY <1>1, MovesKeepCalls
  <2>2. reads' \in [Calls -> Nat]
    BY <1>1, CallsAreTyped
  <2> QED
    BY <1>1, <1>2, <2>1, <2>2 DEF MetricsTypeOK
<1>4. CallsInv'
  <2>1. IsFiniteSet(In(Begun)') /\ \A d \in Calls : server'[d] = "absent" => server[d] = "absent"
    BY <1>1, MovesKeepCalls
  <2> QED
    BY <1>1, <2>1, CallsAreTyped DEF CallsInv, Answering, Pending
<1>5. CountersInv'
  <2>1. /\ Cardinality(In(Active)') = Cardinality(In(Active))
        /\ Cardinality(In({"finished"})') = Cardinality(In({"finished"}))
    BY <1>1, CountsMove DEF Active
  <2>2. /\ Cardinality(In({"accepted"})') = Cardinality(In({"accepted"})) + 1
        /\ Cardinality(In({"accepted"})) \in Nat
    BY <1>1, CountsMove
  <2>3. /\ calculations \in Nat /\ dependencies.ok \in Nat /\ sourceCandles.count \in Nat
        /\ dependencies'.ok = dependencies.ok + 1 /\ sourceCandles'.count = sourceCandles.count + 1
    BY <1>1, CallsAreTyped DEF Tally, Measurement
  <2> QED
    BY <1>1, <2>1, <2>2, <2>3 DEF CountersInv
<1> QED
  BY <1>3, <1>4, <1>5

LEMMA ObserveFailedReadKeeps ==
  ASSUME MetricsTypeOK, CallsInv, CountersInv, NEW c \in Calls, ObserveFailedRead(c)
  PROVE  MetricsTypeOK' /\ CallsInv' /\ CountersInv'
<1>1. /\ server[c] = "inside" /\ server' = [server EXCEPT ![c] = "returned"]
      /\ reads' = [reads EXCEPT ![c] = @ + 1]
      /\ dependencies' = [dependencies EXCEPT !.failed = @ + 1]
      /\ outcome' = [outcome EXCEPT ![c] = [status |-> "failed", bytes |-> 0]]
      /\ active' = active /\ requests' = requests /\ calculations' = calculations
      /\ sourceCandles' = sourceCandles /\ responseBytes' = responseBytes /\ page' = page
      /\ "returned" \in Begun
  BY DEF ObserveFailedRead, MayRead, Begun, ServerStates
<1>2. dependencies' \in Tally /\ dependencies'.ok = dependencies.ok
  BY <1>1, CallsAreTyped DEF Tally
<1>3. MetricsTypeOK'
  <2>1. server' \in [Calls -> ServerStates]
    BY <1>1, MovesKeepCalls
  <2>2. reads' \in [Calls -> Nat]
    BY <1>1, CallsAreTyped
  <2>3. outcome' \in [Calls -> [status : {Pending, "OK", "failed"}, bytes : -1 .. 1]]
    BY <1>1, CallsAreTyped
  <2> QED
    BY <1>1, <1>2, <2>1, <2>2, <2>3 DEF MetricsTypeOK
<1>4. CallsInv'
  <2>1. IsFiniteSet(In(Begun)') /\ \A d \in Calls : server'[d] = "absent" => server[d] = "absent"
    BY <1>1, MovesKeepCalls
  <2> QED
    BY <1>1, <2>1, CallsAreTyped DEF CallsInv, Answering, Pending
<1>5. CountersInv'
  <2>1. /\ Cardinality(In(Active)') = Cardinality(In(Active))
        /\ Cardinality(In({"finished"})') = Cardinality(In({"finished"}))
        /\ Cardinality(In({"accepted"})') = Cardinality(In({"accepted"}))
    BY <1>1, CountsMove DEF Active
  <2> QED
    BY <1>1, <1>2, <2>1 DEF CountersInv
<1> QED
  BY <1>3, <1>4, <1>5

LEMMA ObserveCalculationKeeps ==
  ASSUME MetricsTypeOK, CallsInv, CountersInv, NEW c \in Calls, ObserveCalculation(c)
  PROVE  MetricsTypeOK' /\ CallsInv' /\ CountersInv'
<1>1. /\ server[c] = "accepted" /\ calculations' = calculations + 1
      /\ active' = active /\ requests' = requests /\ dependencies' = dependencies
      /\ sourceCandles' = sourceCandles /\ responseBytes' = responseBytes
      /\ reads' = reads /\ page' = page
  BY DEF ObserveCalculation
<1>2. PICK to \in {"inside", "returned"} :
        /\ server' = [server EXCEPT ![c] = to]
        /\ \/ to = "inside" /\ outcome' = outcome
           \/ to = "returned"
              /\ outcome' = [outcome EXCEPT ![c] = [status |-> "failed", bytes |-> 0]]
  BY DEF ObserveCalculation
<1>3. to \in Begun /\ to \in Active
  BY DEF Begun, ServerStates, Active
<1>4. outcome' \in [Calls -> [status : {Pending, "OK", "failed"}, bytes : -1 .. 1]]
  BY <1>2, CallsAreTyped
<1>5. MetricsTypeOK'
  <2>1. server' \in [Calls -> ServerStates]
    BY <1>2, <1>3, MovesKeepCalls
  <2>2. calculations' \in Nat
    BY <1>1, CallsAreTyped
  <2> QED
    BY <1>1, <1>4, <2>1, <2>2 DEF MetricsTypeOK
<1>6. CallsInv'
  <2>1. IsFiniteSet(In(Begun)') /\ \A d \in Calls : server'[d] = "absent" => server[d] = "absent"
    BY <1>2, <1>3, MovesKeepCalls
  <2> QED
    BY <1>1, <1>2, <2>1, CallsAreTyped, SMTT(30) DEF CallsInv, Answering, Pending
<1>7. CountersInv'
  <2>1. /\ Cardinality(In(Active)') = Cardinality(In(Active))
        /\ Cardinality(In({"finished"})') = Cardinality(In({"finished"}))
    BY <1>1, <1>2, <1>3, CountsMove DEF Active
  <2>2. /\ Cardinality(In({"accepted"})') = Cardinality(In({"accepted"})) - 1
        /\ Cardinality(In({"accepted"})) \in Nat
    BY <1>1, <1>2, <1>3, CountsMove
  <2>3. calculations \in Nat /\ dependencies.ok \in Nat
    BY CallsAreTyped, TotalType
  <2> QED
    BY <1>1, <2>1, <2>2, <2>3 DEF CountersInv
<1> QED
  BY <1>5, <1>6, <1>7

LEMMA DeactivateKeeps ==
  ASSUME MetricsTypeOK, CallsInv, CountersInv, NEW c \in Calls,
         Deactivate(c, "returned", "inactive")
  PROVE  MetricsTypeOK' /\ CallsInv' /\ CountersInv'
<1>1. /\ server[c] = "returned" /\ server' = [server EXCEPT ![c] = "inactive"]
      /\ active' = active - 1 /\ requests' = requests /\ dependencies' = dependencies
      /\ calculations' = calculations /\ sourceCandles' = sourceCandles
      /\ responseBytes' = responseBytes /\ outcome' = outcome /\ reads' = reads /\ page' = page
      /\ "inactive" \in Begun
  BY DEF Deactivate, Begun, ServerStates, counters
<1>2. /\ Cardinality(In(Active)') = Cardinality(In(Active)) - 1
      /\ Cardinality(In(Active)') \in Nat
      /\ Cardinality(In({"finished"})') = Cardinality(In({"finished"}))
      /\ Cardinality(In({"accepted"})') = Cardinality(In({"accepted"}))
  BY <1>1, CountsMove DEF Active
<1>3. CountersInv'
  BY <1>1, <1>2 DEF CountersInv
<1>4. MetricsTypeOK'
  <2>1. server' \in [Calls -> ServerStates]
    BY <1>1, MovesKeepCalls
  <2>2. active' \in Nat
    BY <1>2, <1>3 DEF CountersInv
  <2> QED
    BY <1>1, <2>1, <2>2 DEF MetricsTypeOK
<1>5. CallsInv'
  <2>1. IsFiniteSet(In(Begun)') /\ \A d \in Calls : server'[d] = "absent" => server[d] = "absent"
    BY <1>1, MovesKeepCalls
  <2> QED
    BY <1>1, <2>1, CallsAreTyped DEF CallsInv, Answering, Pending
<1> QED
  BY <1>3, <1>4, <1>5

LEMMA RecordKeeps ==
  ASSUME MetricsTypeOK, CallsInv, CountersInv, NEW c \in Calls,
         Record(c, "inactive", "finished")
  PROVE  MetricsTypeOK' /\ CallsInv' /\ CountersInv'
<1>1. /\ server[c] = "inactive" /\ server' = [server EXCEPT ![c] = "finished"]
      /\ active' = active /\ dependencies' = dependencies
      /\ calculations' = calculations /\ sourceCandles' = sourceCandles
      /\ outcome' = outcome /\ reads' = reads /\ page' = page
      /\ "finished" \in Begun
  BY DEF Record, Begun, ServerStates
<1>2. /\ requests' \in Tally /\ responseBytes' \in Measurement
      /\ Total(requests') = Total(requests) + 1
      /\ requests'.ok = requests.ok \/ requests'.ok = requests.ok + 1
      /\ responseBytes'.count = responseBytes.count
         \/ responseBytes'.count = responseBytes.count + 1
      /\ requests'.ok = requests.ok + 1 => responseBytes'.count = responseBytes.count + 1
      /\ requests.ok \in Nat /\ responseBytes.count \in Nat /\ Total(requests) \in Nat
  <2>1. /\ requests \in Tally /\ responseBytes \in Measurement
        /\ outcome[c].bytes \in -1 .. 1
        /\ outcome[c].status = "OK" => outcome[c].bytes = 1
    BY CallsAreTyped DEF CallsInv
  <2>2. requests' = IF outcome[c].status = "OK" THEN [requests EXCEPT !.ok = @ + 1]
                                               ELSE [requests EXCEPT !.failed = @ + 1]
    BY DEF Record
  <2>3. responseBytes' = IF outcome[c].bytes < 0 THEN responseBytes
                      ELSE [count |-> responseBytes.count + 1,
                            sum   |-> responseBytes.sum + outcome[c].bytes]
    BY DEF Record
  <2>4. /\ responseBytes' \in Measurement
        /\ outcome[c].bytes < 0 => responseBytes'.count = responseBytes.count
        /\ ~(outcome[c].bytes < 0) => responseBytes'.count = responseBytes.count + 1
    BY <2>1, <2>3 DEF Measurement
  <2>5. CASE outcome[c].status = "OK"
    <3>1. requests' = [requests EXCEPT !.ok = @ + 1]
      BY <2>2, <2>5
    <3>2. /\ requests' \in Tally /\ Total(requests') = Total(requests) + 1
          /\ requests'.ok = requests.ok + 1
      BY <2>1, <3>1 DEF Tally, Total
    <3> QED
      BY <2>1, <2>4, <2>5, <3>2, TotalType DEF Measurement
  <2>6. CASE outcome[c].status # "OK"
    <3>1. requests' = [requests EXCEPT !.failed = @ + 1]
      BY <2>2, <2>6
    <3>2. /\ requests' \in Tally /\ Total(requests') = Total(requests) + 1
          /\ requests'.ok = requests.ok
      BY <2>1, <3>1 DEF Tally, Total
    <3> QED
      BY <2>1, <2>4, <2>6, <3>2, TotalType DEF Measurement
  <2> QED
    BY <2>5, <2>6
<1>3. CountersInv'
  <2>1. /\ Cardinality(In(Active)') = Cardinality(In(Active))
        /\ Cardinality(In({"finished"})') = Cardinality(In({"finished"})) + 1
        /\ Cardinality(In({"accepted"})') = Cardinality(In({"accepted"}))
    BY <1>1, CountsMove DEF Active
  <2>2. Total(requests)' = Total(requests')
    OBVIOUS
  <2> QED
    BY <1>1, <1>2, <2>1, <2>2 DEF CountersInv
<1>4. MetricsTypeOK'
  <2>1. server' \in [Calls -> ServerStates]
    BY <1>1, MovesKeepCalls
  <2> QED
    BY <1>1, <1>2, <2>1 DEF MetricsTypeOK
<1>5. CallsInv'
  <2>1. IsFiniteSet(In(Begun)') /\ \A d \in Calls : server'[d] = "absent" => server[d] = "absent"
    BY <1>1, MovesKeepCalls
  <2> QED
    BY <1>1, <2>1, CallsAreTyped DEF CallsInv, Answering, Pending
<1> QED
  BY <1>3, <1>4, <1>5

(* A call only ever adds to the counters.                                  *)
LEMMA CallGrows ==
  ASSUME MetricsTypeOK, CallsInv, NEW c \in Calls, Call(c)
  PROVE  /\ page' = page
         /\ Started \in Nat /\ Started' \in Nat /\ Started' >= Started
         /\ Total(requests') >= Total(requests)
         /\ Total(dependencies') >= Total(dependencies)
         /\ calculations' >= calculations
         /\ sourceCandles'.sum >= sourceCandles.sum
         /\ responseBytes'.sum >= responseBytes.sum
<1> USE CallsAreTyped
<1>1. /\ Total(requests) \in Nat /\ Total(dependencies) \in Nat /\ calculations \in Nat
      /\ sourceCandles.sum \in Nat /\ responseBytes.sum \in Nat
  BY TotalType DEF Measurement
<1>2. /\ page' = page
      /\ \E to \in Begun : server' = [server EXCEPT ![c] = to]
  BY DEF Call, Start, Refuse, Fail, Succeed, Return, ObserveRead, ObserveFailedRead,
         ObserveCalculation, Finish, Deactivate, Record, Begun, ServerStates
<1>3. Started \in Nat /\ Started' \in Nat /\ Started' >= Started
  BY <1>2, MovesKeepCalls
<1>4. /\ requests' = requests
      /\ responseBytes' = responseBytes
      \/ Record(c, "inactive", "finished")
  BY DEF Call, Start, Refuse, Fail, Succeed, Return, ObserveRead, ObserveFailedRead,
         ObserveCalculation, Finish, Deactivate, counters, registry
<1>5. /\ Total(requests') >= Total(requests)
      /\ responseBytes'.sum >= responseBytes.sum
  <2>1. ASSUME Record(c, "inactive", "finished")
        PROVE  /\ Total(requests') >= Total(requests)
               /\ responseBytes'.sum >= responseBytes.sum
    <3>1. Total(requests') >= Total(requests)
      BY <2>1 DEF Record, Tally, Total
    <3>2. responseBytes'.sum >= responseBytes.sum
      BY <1>1, <2>1 DEF Record
    <3> QED
      BY <3>1, <3>2
  <2> QED
    BY <1>1, <1>4, <2>1
<1>6. /\ Total(dependencies') >= Total(dependencies)
      /\ sourceCandles'.sum >= sourceCandles.sum
  <2>1. CASE ObserveRead(c)
    <3>1. Total(dependencies') >= Total(dependencies)
      BY <2>1 DEF ObserveRead, Tally, Total
    <3>2. sourceCandles'.sum >= sourceCandles.sum
      BY <1>1, <2>1 DEF ObserveRead
    <3> QED
      BY <3>1, <3>2
  <2>2. CASE ObserveFailedRead(c)
    <3>1. Total(dependencies') >= Total(dependencies)
      BY <2>2 DEF ObserveFailedRead, Tally, Total
    <3>2. sourceCandles' = sourceCandles
      BY <2>2 DEF ObserveFailedRead
    <3> QED
      BY <1>1, <3>1, <3>2
  <2>3. CASE dependencies' = dependencies /\ sourceCandles' = sourceCandles
    BY <1>1, <2>3
  <2> QED
    BY <2>1, <2>2, <2>3
    DEF Call, Start, Refuse, Fail, Succeed, Return, ObserveCalculation, Finish, Deactivate,
        Record, counters, registry
<1>7. calculations' >= calculations
  <2>1. calculations' = calculations \/ calculations' = calculations + 1
    BY DEF Call, Start, Refuse, Fail, Succeed, Return, ObserveRead, ObserveFailedRead,
           ObserveCalculation, Finish, Deactivate, Record, counters, registry
  <2> QED
    BY <1>1, <2>1
<1> QED
  BY <1>2, <1>3, <1>5, <1>6, <1>7

LEMMA StartedType ==
  ASSUME MetricsTypeOK, CallsInv
  PROVE  Started \in Nat
<1>1. Begun \in SUBSET Begun
  OBVIOUS
<1>2. server \in [Calls -> ServerStates]
  BY DEF MetricsTypeOK
<1>3. IsFiniteSet(In(Begun))
  BY DEF CallsInv
<1> QED
  BY <1>1, <1>2, <1>3, BegunAreFinite, StartedAreBegun

LEMMA PageRecordType ==
  ASSUME NEW p \in PageRecord
  PROVE  /\ p # Blank /\ p.active \in Nat /\ p.calculations \in Nat
         /\ p.requests \in Tally /\ Total(p.requests) \in Nat
         /\ p.dependencies \in Tally /\ Total(p.dependencies) \in Nat
         /\ p.sourceCandles \in Measurement /\ p.sourceCandles.sum \in Nat
         /\ p.responseBytes \in Measurement /\ p.responseBytes.sum \in Nat
<1>1. /\ p.active \in Nat /\ p.calculations \in Nat /\ p.state \in {"copied", "shown"}
      /\ p.requests \in Tally /\ p.dependencies \in Tally
      /\ p.sourceCandles \in Measurement /\ p.responseBytes \in Measurement
  BY DEF PageRecord
<1>2. Blank.state = "blank"
  BY DEF Blank
<1>3. p.sourceCandles.sum \in Nat /\ p.responseBytes.sum \in Nat
  BY <1>1 DEF Measurement
<1> QED
  BY <1>1, <1>2, <1>3, TotalType

(* Whatever is on a page stays behind the registry.                        *)
LEMMA CallKeepsPages ==
  ASSUME MetricsTypeOK, CallsInv, MetricsTypeOK', PagesInv, NEW c \in Calls, Call(c)
  PROVE  PagesInv'
<1>1. /\ page' = page
      /\ Started \in Nat /\ Started' \in Nat /\ Started' >= Started
      /\ Total(requests') >= Total(requests)
      /\ Total(dependencies') >= Total(dependencies)
      /\ calculations' >= calculations
      /\ sourceCandles'.sum >= sourceCandles.sum
      /\ responseBytes'.sum >= responseBytes.sum
  BY CallGrows
<1>2. /\ Total(requests) \in Nat /\ Total(requests') \in Nat
      /\ Total(dependencies) \in Nat /\ Total(dependencies') \in Nat
      /\ calculations \in Nat /\ calculations' \in Nat
      /\ sourceCandles.sum \in Nat /\ sourceCandles'.sum \in Nat
      /\ responseBytes.sum \in Nat /\ responseBytes'.sum \in Nat
  BY TotalType DEF MetricsTypeOK, Measurement
<1>3. ASSUME NEW p \in PageRecord, IsPast(p) PROVE IsPast(p)'
  BY <1>1, <1>2, <1>3, PageRecordType DEF IsPast, Total
<1>4. ASSUME NEW s \in Scrapes, page[s] # Blank PROVE AddsUp(page[s])' /\ IsPast(page[s])'
  <2>1. PICK p \in PageRecord : p = page[s]
    BY <1>4 DEF PagesInv
  <2>2. AddsUp(p) /\ IsPast(p)
    BY <1>4, <2>1 DEF PagesInv
  <2>3. AddsUp(p)' /\ IsPast(p)'
    BY <1>3, <2>2 DEF AddsUp
  <2>4. p = page'[s]
    BY <1>1, <2>1
  <2> QED
    BY <2>3, <2>4 DEF AddsUp, IsPast
<1>5. ASSUME NEW s \in Scrapes, page[s].state = "shown"
      PROVE  Total(page[s].requests) + page[s].active <= Started'
  <2>1. page[s] \in PageRecord
    BY <1>5 DEF PagesInv, Blank
  <2>2. Total(page[s].requests) + page[s].active <= Started
    BY <1>5 DEF PagesInv
  <2> QED
    BY <1>1, <1>2, <2>1, <2>2, PageRecordType
<1> QED
  BY <1>1, <1>4, <1>5 DEF PagesInv
-----------------------------------------------------------------------------
LEMMA MetricsStart == MetricsInit => MetricsInv
<1> SUFFICES ASSUME MetricsInit PROVE MetricsInv
  OBVIOUS
<1>1. MetricsTypeOK
  BY DEF MetricsInit, MetricsTypeOK, Tally, Measurement, ServerStates
<1>2. /\ \A states \in {Begun, Active, {"accepted"}, {"finished"}} :
           IsFiniteSet(In(states)) /\ Cardinality(In(states)) = 0
  <2>1. ASSUME NEW states \in {Begun, Active, {"accepted"}, {"finished"}}
        PROVE  In(states) = {}
    BY DEF MetricsInit, In, Begun, Active
  <2> QED
    BY <2>1, FS_EmptySet
<1>3. CallsInv
  BY <1>2 DEF MetricsInit, CallsInv, Answering, Pending
<1>4. CountersInv
  BY <1>2 DEF MetricsInit, CountersInv, Total
<1>5. PagesInv
  BY DEF MetricsInit, PagesInv, Blank
<1> QED
  BY <1>1, <1>3, <1>4, <1>5 DEF MetricsInv

LEMMA CallKeeps ==
  ASSUME MetricsInv, NEW c \in Calls, Call(c)
  PROVE  MetricsInv'
<1>1. MetricsTypeOK /\ CallsInv /\ CountersInv /\ PagesInv
  BY DEF MetricsInv
<1>2. MetricsTypeOK' /\ CallsInv' /\ CountersInv'
  <2>1. CASE Start(c)
    BY <1>1, <2>1, StartKeeps
  <2>2. CASE Refuse(c)
    <3>1. server[c] \in {"inside", "accepted"} /\ Return(c, "failed", -1)
      BY <2>2 DEF Refuse
    <3> QED
      BY <1>1, <3>1, ReturnKeeps
  <2>3. CASE Fail(c)
    <3>1. server[c] \in {"inside", "accepted"} /\ Return(c, "failed", 0)
      BY <2>3 DEF Fail
    <3> QED
      BY <1>1, <3>1, ReturnKeeps
  <2>4. CASE Succeed(c)
    <3>1. server[c] \in {"inside", "accepted"} /\ Return(c, "OK", 1)
      BY <2>4 DEF Succeed, Success
    <3> QED
      BY <1>1, <3>1, ReturnKeeps
  <2>5. CASE ObserveRead(c)
    BY <1>1, <2>5, ObserveReadKeeps
  <2>6. CASE ObserveFailedRead(c)
    BY <1>1, <2>6, ObserveFailedReadKeeps
  <2>7. CASE ObserveCalculation(c)
    BY <1>1, <2>7, ObserveCalculationKeeps
  <2>8. CASE Finish(c)
    BY <1>1, <2>8, DeactivateKeeps, RecordKeeps DEF Finish
  <2> QED
    BY <2>1, <2>2, <2>3, <2>4, <2>5, <2>6, <2>7, <2>8 DEF Call
<1>3. PagesInv'
  BY <1>1, <1>2, CallKeepsPages
<1> QED
  BY <1>2, <1>3 DEF MetricsInv

(* What only moves pages leaves the calls and the counters as they are.    *)
LEMMA RegistryRests ==
  ASSUME MetricsInv, UNCHANGED <<registry, server, outcome, reads>>, PagesInv'
  PROVE  MetricsInv'
<1>1. /\ active' = active /\ requests' = requests /\ dependencies' = dependencies
      /\ calculations' = calculations /\ sourceCandles' = sourceCandles
      /\ responseBytes' = responseBytes /\ outcome' = outcome /\ reads' = reads
      /\ server' = server
  BY DEF registry
<1>2. \A states : In(states)' = In(states)
  BY <1>1 DEF In
<1>3. \A s \in Scrapes : page'[s] = Blank \/ page'[s].state \in {"copied", "shown"}
  BY DEF PagesInv, PageRecord
<1>4. MetricsTypeOK'
  BY <1>1, <1>3 DEF MetricsInv, MetricsTypeOK
<1>5. CallsInv'
  <2>1. In(Begun)' = In(Begun)
    BY <1>2
  <2> QED
    BY <1>1, <2>1 DEF MetricsInv, CallsInv
<1>6. CountersInv'
  <2>1. /\ In(Active)' = In(Active) /\ In({"accepted"})' = In({"accepted"})
        /\ In({"finished"})' = In({"finished"})
    BY <1>2
  <2> QED
    BY <1>1, <2>1 DEF MetricsInv, CountersInv
<1> QED
  BY <1>4, <1>5, <1>6 DEF MetricsInv

(* A page that was not moved is as good as it was.                         *)
LEMMA OtherPages ==
  ASSUME MetricsInv, UNCHANGED <<registry, server, outcome, reads>>,
         NEW s \in Scrapes, page'[s] = page[s]
  PROVE  /\ page'[s] # Blank => AddsUp(page[s])' /\ IsPast(page[s])'
         /\ page'[s].state = "shown" =>
              Total(page'[s].requests) + page'[s].active <= Started'
<1>1. Started' = Started
  BY DEF Started
<1>2. PICK p : p = page[s]
  OBVIOUS
<1>3. /\ p # Blank => AddsUp(p) /\ IsPast(p)
      /\ p.state = "shown" => Total(p.requests) + p.active <= Started
  BY <1>2 DEF MetricsInv, PagesInv
<1>4. IsPast(p) => IsPast(p)'
  BY DEF IsPast, registry
<1> QED
  BY <1>1, <1>2, <1>3, <1>4 DEF AddsUp, IsPast

LEMMA CopyKeeps ==
  ASSUME MetricsInv, NEW s \in Scrapes, Copy(s)
  PROVE  MetricsInv'
<1>1. UNCHANGED <<registry, server, outcome, reads>>
  BY DEF Copy
<1> DEFINE p == [state |-> "copied", requests |-> requests, dependencies |-> dependencies,
                 calculations |-> calculations, sourceCandles |-> sourceCandles,
                 responseBytes |-> responseBytes, active |-> 0]
<1>2. p \in PageRecord
  BY DEF MetricsInv, MetricsTypeOK, PageRecord
<1>3. page' = [page EXCEPT ![s] = p] /\ page'[s] = p
  BY DEF Copy, MetricsInv, PagesInv
<1>4. page' \in [Scrapes -> {Blank} \cup PageRecord]
  BY <1>2, <1>3 DEF MetricsInv, PagesInv
<1>5. AddsUp(page[s])' /\ IsPast(page[s])' /\ page'[s].state # "shown"
  <2>1. PICK q : q = p
    OBVIOUS
  <2>2. AddsUp(q)
    <3>1. {"accepted"} \in SUBSET Begun /\ IsFiniteSet(In(Begun))
      BY DEF Begun, ServerStates, MetricsInv, CallsInv
    <3>2. Cardinality(In({"accepted"})) \in Nat
      BY <3>1, BegunAreFinite
    <3>3. dependencies.ok \in Nat /\ calculations \in Nat
      BY TotalType DEF MetricsInv, MetricsTypeOK
    <3>4. calculations + Cardinality(In({"accepted"})) <= dependencies.ok
      BY DEF MetricsInv, CountersInv
    <3>5. calculations <= dependencies.ok
      BY <3>2, <3>3, <3>4
    <3> QED
      BY <2>1, <3>5 DEF MetricsInv, CountersInv, AddsUp
  <2>3. /\ q.requests = requests' /\ q.dependencies = dependencies'
        /\ q.calculations = calculations' /\ q.sourceCandles = sourceCandles'
        /\ q.responseBytes = responseBytes' /\ q = page'[s] /\ q.state = "copied"
    BY <1>1, <1>3, <2>1 DEF registry
  <2>4. /\ Total(q.requests) \in Nat /\ Total(q.dependencies) \in Nat
        /\ q.calculations \in Nat /\ q.sourceCandles.sum \in Nat /\ q.responseBytes.sum \in Nat
    BY <1>2, <2>1, PageRecordType
  <2>5. IsPast(q)'
    BY <2>3, <2>4 DEF IsPast
  <2> QED
    BY <2>2, <2>3, <2>5 DEF AddsUp, IsPast
<1>6. ASSUME NEW r \in Scrapes, r # s PROVE page'[r] = page[r]
  BY <1>3, <1>6 DEF MetricsInv, PagesInv
<1>7. PagesInv'
  BY <1>1, <1>4, <1>5, <1>6, OtherPages DEF PagesInv
<1> QED
  BY <1>1, <1>7, RegistryRests

LEMMA ShowKeeps ==
  ASSUME MetricsInv, NEW s \in Scrapes, Show(s)
  PROVE  MetricsInv'
<1>1. UNCHANGED <<registry, server, outcome, reads>> /\ page[s].state = "copied"
  BY DEF Show
<1>2. PICK p \in PageRecord : p = page[s]
  BY <1>1 DEF MetricsInv, PagesInv, Blank
<1>3. PICK q : q = [p EXCEPT !.state = "shown", !.active = active]
  OBVIOUS
<1>4. page' = [page EXCEPT ![s] = q] /\ page'[s] = q
  BY <1>2, <1>3 DEF Show, MetricsInv, PagesInv
<1>5. active \in Nat
  BY DEF MetricsInv, MetricsTypeOK
<1>6. /\ q \in PageRecord /\ q.active = active /\ q.requests = p.requests
      /\ q.dependencies = p.dependencies /\ q.calculations = p.calculations
      /\ q.sourceCandles = p.sourceCandles /\ q.responseBytes = p.responseBytes
  BY <1>3, <1>5 DEF PageRecord
<1>7. page' \in [Scrapes -> {Blank} \cup PageRecord]
  BY <1>4, <1>6 DEF MetricsInv, PagesInv
<1>8. AddsUp(p) /\ IsPast(p)
  BY <1>2, PageRecordType DEF MetricsInv, PagesInv
<1>9. AddsUp(page[s])' /\ IsPast(page[s])'
  <2>1. IsPast(q)'
    BY <1>1, <1>6, <1>8 DEF IsPast, registry
  <2>2. AddsUp(q)
    BY <1>6, <1>8 DEF AddsUp
  <2> QED
    BY <1>4, <2>1, <2>2 DEF AddsUp, IsPast
<1>10. Total(page'[s].requests) + page'[s].active <= Started'
  <2>1. Total(p.requests) <= Total(requests)
    BY <1>8 DEF IsPast
  <2>2. /\ Total(requests) = Cardinality(In({"finished"})) /\ active = Cardinality(In(Active))
        /\ Total(requests) \in Nat
    BY TotalType DEF MetricsInv, CountersInv, MetricsTypeOK
  <2>3. /\ IsFiniteSet(In(Begun)) /\ Active \in SUBSET Begun /\ {"finished"} \in SUBSET Begun
        /\ Active \cup {"finished"} \in SUBSET Begun
    BY DEF MetricsInv, CallsInv, Active, Begun, ServerStates
  <2>4. /\ In(Active) \cap In({"finished"}) = {}
        /\ In(Active) \cup In({"finished"}) = In(Active \cup {"finished"})
    BY DEF In, Active
  <2>5. Cardinality(In(Active \cup {"finished"}))
          = Cardinality(In(Active)) + Cardinality(In({"finished"}))
    <3>1. IsFiniteSet(In(Active)) /\ IsFiniteSet(In({"finished"}))
      BY <2>3, BegunAreFinite
    <3>2. Cardinality(In(Active) \cap In({"finished"})) = 0
      BY <2>4, FS_EmptySet
    <3>3. Cardinality(In(Active) \cup In({"finished"}))
            = Cardinality(In(Active)) + Cardinality(In({"finished"}))
              - Cardinality(In(Active) \cap In({"finished"}))
      BY <3>1, FS_Union
    <3>4. Cardinality(In(Active)) \in Nat /\ Cardinality(In({"finished"})) \in Nat
      BY <3>1, FS_CardinalityType
    <3>5. Cardinality(In(Active \cup {"finished"}))
            = Cardinality(In(Active) \cup In({"finished"}))
      BY <2>4
    <3>6. Cardinality(In(Active) \cup In({"finished"}))
            = Cardinality(In(Active)) + Cardinality(In({"finished"}))
      BY <3>2, <3>3, <3>4
    <3> QED
      BY <3>5, <3>6
  <2>6. Cardinality(In(Active \cup {"finished"})) <= Started
    <3>1. server \in [Calls -> ServerStates]
      BY DEF MetricsInv, MetricsTypeOK
    <3> QED
      BY <2>3, <3>1, BegunAreFinite, StartedAreBegun
  <2>7. Started' = Started /\ Started \in Nat
    BY <1>1, StartedType DEF Started, MetricsInv
  <2>8. Total(p.requests) \in Nat
    BY PageRecordType
  <2> QED
    BY <1>4, <1>5, <1>6, <2>1, <2>2, <2>5, <2>6, <2>7, <2>8
<1>11. ASSUME NEW r \in Scrapes, r # s PROVE page'[r] = page[r]
  BY <1>4, <1>11 DEF MetricsInv, PagesInv
<1>12. PagesInv'
  BY <1>1, <1>7, <1>9, <1>10, <1>11, OtherPages DEF PagesInv
<1> QED
  BY <1>1, <1>12, RegistryRests

(* A page that its reader has taken.                                       *)
LEMMA TakenPageKeeps ==
  ASSUME MetricsInv, UNCHANGED <<registry, server, outcome, reads>>, NEW s \in Scrapes,
         page' = [page EXCEPT ![s] = Blank]
  PROVE  MetricsInv'
<1>1. page'[s] = Blank /\ Blank.state # "shown"
  BY DEF MetricsInv, PagesInv, Blank
<1>2. ASSUME NEW r \in Scrapes, r # s PROVE page'[r] = page[r]
  BY <1>2 DEF MetricsInv, PagesInv
<1>3. page' \in [Scrapes -> {Blank} \cup PageRecord]
  BY DEF MetricsInv, PagesInv
<1>4. PagesInv'
  BY <1>1, <1>2, <1>3, OtherPages DEF PagesInv
<1> QED
  BY <1>4, RegistryRests

LEMMA MetricsRest ==
  ASSUME MetricsInv, UNCHANGED metricsVars
  PROVE  MetricsInv'
<1>1. UNCHANGED <<registry, server, outcome, reads>> /\ page' = page
  BY DEF metricsVars
<1>2. PagesInv'
  BY <1>1, OtherPages DEF MetricsInv, PagesInv
<1> QED
  BY <1>1, <1>2, RegistryRests

LEMMA PagesDoAddUp == MetricsInv => PagesAddUp
<1> SUFFICES ASSUME MetricsInv, NEW s \in Scrapes, page[s].state = "shown"
             PROVE  AddsUp(page[s]) /\ Total(page[s].requests) + page[s].active <= Started
  BY DEF PagesAddUp, AddsUp
<1> QED
  BY DEF MetricsInv, PagesInv, Blank
-----------------------------------------------------------------------------
(* The load calls whose answer the tool may have, those of them that were  *)
(* good, and those that have a range of candles, or a calculation, of      *)
(* theirs in the counters.                                                 *)
Finished == {c \in Indices : server[c] = "finished"}
Good == {c \in Indices : server[c] = "finished" /\ outcome[c].status = "OK"}
Calculated ==
  {c \in Indices : (server[c] = "inside" /\ reads[c] = 1) \/ outcome[c].status = "OK"}
Accepted ==
  {c \in Indices : server[c] = "accepted" \/ (server[c] = "inside" /\ reads[c] = 1)
                   \/ outcome[c].status = "OK"}

Figures == [requests : Nat, dependencies : Nat, calculations : Nat, candles : Nat,
            responses : Nat, bytes : Nat, active : Nat]

(* The registry has grown by the load calls since the figures were read.   *)
GrownSince(before) ==
  /\ before.requests + Cardinality(Finished) <= Total(requests)
  /\ before.dependencies + Cardinality(Accepted) <= Total(dependencies)
  /\ before.candles + Cardinality(Accepted) <= sourceCandles.sum
  /\ before.calculations + Cardinality(Calculated) <= calculations
  /\ before.bytes + Cardinality(Good) <= responseBytes.sum

(* What each stage has behind it.                                          *)
StageInv ==
  /\ pages \in [Scrapes -> {NoPage} \cup Figures]
  /\ stage = "before" => \A s \in Scrapes : pages[s] = NoPage
  /\ stage \in {"load", "working", "after", "write"} => pages["before"] # NoPage
  /\ stage \in {"before", "load", "working"} =>
       /\ page["after"] = Blank
       /\ report = NoReport /\ ~loadErr
  /\ stage \in {"before", "load"} =>
       jobs = 0 /\ results = <<>> /\ \A w \in Workers : worker[w] = Free
  /\ stage \in {"before", "load", "working", "after"} => pages["after"] = NoPage
  /\ stage # "working" => \A w \in Workers : worker[w] \notin Indices
  /\ stage # "exited" => exit = "none"
  /\ stage \in {"after", "write"} /\ ~loadErr => report # NoReport

(* Every index that left the channel is with one worker or in one result,  *)
(* and only a call that left it can have begun.                            *)
OnceInv ==
  /\ \A j, k \in 1 .. Len(results) : results[j].index = results[k].index => j = k
  /\ \A v, w \in Workers : worker[v] = worker[w] /\ worker[v] \in Indices => v = w
  /\ \A k \in 1 .. Len(results) : results[k].index < jobs
  /\ \A w \in Workers : worker[w] \in Indices =>
       /\ worker[w] < jobs
       /\ \A k \in 1 .. Len(results) : results[k].index # worker[w]
  /\ \A i \in Indices : i < jobs =>
       \/ \E k \in 1 .. Len(results) : results[k].index = i
       \/ \E w \in Workers : worker[w] = i
  /\ \A w \in Workers : worker[w] = Done => jobs = Requests
  /\ \A c \in Indices : server[c] # "absent" => c < jobs

(* A result tells the call's fate.                                         *)
ResultsInv ==
  \A k \in 1 .. Len(results) :
    LET r == results[k]
    IN  /\ r.status \in {"OK", "Unknown"} => r.index \in Good
        /\ r.status = "failed" => r.index \in Finished
        /\ r.flagged => r.status = "Unknown"

(* The report is the one of these results, each call's in its place.       *)
ReportInv ==
  /\ report # NoReport =>
       /\ stage \in {"after", "write", "exited"} /\ pages["before"] # NoPage
       /\ report = [results |-> results, summary |-> Summary(results)]
       /\ Len(results) = Requests
       /\ \A k \in 1 .. Requests : results[k].index = k - 1
       /\ loadErr <=> Summary(results).failed > 0
  /\ exit = "success" =>
       report # NoReport /\ ~loadErr /\ pages["after"] # NoPage /\ file = "report"

Counted(statuses) == {k \in 1 .. Len(results) : results[k].status \in statuses}

(* The figures of a page read later cover the results.                     *)
CoversResults(before, after) ==
  /\ after.requests >= before.requests + Cardinality(Counted({"OK", "Unknown", "failed"}))
  /\ after.dependencies >= before.dependencies + Cardinality(Counted({"OK", "Unknown"}))
  /\ after.calculations >= before.calculations + Cardinality(Counted({"OK", "Unknown"}))
  /\ after.candles >= before.candles + Cardinality(Counted({"OK", "Unknown"}))
  /\ after.bytes >= before.bytes + Cardinality(Counted({"OK"}))

DeltaInv ==
  /\ pages["before"] # NoPage => GrownSince(pages["before"])
  /\ report # NoReport /\ page["after"] # Blank =>
       CoversResults(pages["before"], ParseMetrics(page["after"]))
  /\ report # NoReport /\ pages["after"] # NoPage =>
       CoversResults(pages["before"], pages["after"])

IInv ==
  TypeOK /\ MetricsInv /\ StageInv /\ OnceInv /\ ResultsInv /\ ReportInv /\ DeltaInv
-----------------------------------------------------------------------------
LEMMA LoadConstants ==
  /\ Requests \in Nat /\ Requests > 0
  /\ Indices \subseteq Calls /\ Indices \subseteq Nat
  /\ \A c \in Indices : c \notin Searches /\ c < Requests
  /\ IsFiniteSet(Indices) /\ Cardinality(Indices) = Requests
  /\ Free \notin Indices /\ Done \notin Indices /\ Free # Done
  /\ Scrapes = {"before", "after"}
<1>1. /\ Requests \in Nat \ {0} /\ Indices \subseteq Calls \ Searches
      /\ Scrapes = {"before", "after"}
  BY LoadAssumption DEF Indices
<1>2. IsFiniteSet(0 .. Requests - 1) /\ Cardinality(0 .. Requests - 1) = Requests
  BY <1>1, FS_Interval
<1> QED
  BY <1>1, <1>2 DEF Indices, Free, Done

LEMMA IndexSets ==
  ASSUME NEW S \in SUBSET Indices
  PROVE  IsFiniteSet(S) /\ Cardinality(S) \in Nat
BY LoadConstants, FS_Subset, FS_CardinalityType

LEMMA Intervals == \A m \in Nat : IsFiniteSet(1 .. m) /\ Cardinality(1 .. m) = m
BY FS_Interval

LEMMA NoneOfNone == Cardinality({}) = 0
BY FS_EmptySet

(* A set that gains a call at most when a counter does.                    *)
LEMMA GrowsAtMost ==
  ASSUME NEW S \in SUBSET Indices, NEW T \in SUBSET Indices, NEW c, NEW m \in Nat, NEW n \in Nat,
         (T \subseteq S /\ m <= n) \/ (T \subseteq S \cup {c} /\ m + 1 <= n)
  PROVE  Cardinality(T) + m <= Cardinality(S) + n
<1>1. /\ IsFiniteSet(S) /\ Cardinality(S) \in Nat /\ IsFiniteSet(T) /\ Cardinality(T) \in Nat
  BY IndexSets
<1>2. CASE T \subseteq S /\ m <= n
  <2>1. Cardinality(T) <= Cardinality(S)
    BY <1>1, <1>2, FS_Subset
  <2> QED
    BY <1>1, <1>2, <2>1
<1>3. CASE T \subseteq S \cup {c} /\ m + 1 <= n
  <2>1. /\ IsFiniteSet(S \cup {c}) /\ Cardinality(S \cup {c}) \in Nat
        /\ Cardinality(S \cup {c}) <= Cardinality(S) + 1
    <3>1. /\ IsFiniteSet(S \cup {c})
          /\ \/ Cardinality(S \cup {c}) = Cardinality(S)
             \/ Cardinality(S \cup {c}) = Cardinality(S) + 1
      BY ONLY <1>1, FS_AddElement
    <3> QED
      BY ONLY <1>1, <3>1
  <2>2. Cardinality(T) <= Cardinality(S \cup {c})
    BY <1>3, <2>1, FS_Subset
  <2> DEFINE old == Cardinality(S)
             grown == Cardinality(S \cup {c})
             now == Cardinality(T)
  <2>3. /\ old \in Nat /\ grown \in Nat /\ now \in Nat /\ m \in Nat /\ n \in Nat
        /\ grown <= old + 1 /\ now <= grown /\ m + 1 <= n
    BY <1>1, <1>3, <2>1, <2>2
  <2> HIDE DEF old, grown, now
  <2>4. now + m <= old + n
    BY ONLY <2>3
  <2> QED
    BY <2>4 DEF old, now
<1> QED
  BY <1>2, <1>3

LEMMA CountersAreNumbers ==
  ASSUME MetricsTypeOK
  PROVE  /\ Total(requests) \in Nat /\ Total(dependencies) \in Nat /\ calculations \in Nat
         /\ sourceCandles.sum \in Nat /\ responseBytes.sum \in Nat
BY TotalType DEF MetricsTypeOK, Measurement

(* No call adds itself to one of the four sets without a counter that      *)
(* counts it.                                                              *)
LEMMA CallCounts ==
  ASSUME MetricsInv, MetricsInv', NEW c \in Calls, Call(c), NEW before \in Figures,
         GrownSince(before)
  PROVE  GrownSince(before)'
<1>1. /\ MetricsTypeOK /\ CallsInv /\ MetricsTypeOK'
      /\ Total(requests) \in Nat /\ Total(dependencies) \in Nat /\ calculations \in Nat
      /\ sourceCandles.sum \in Nat /\ responseBytes.sum \in Nat
  BY CountersAreNumbers DEF MetricsInv
<1>2. /\ Total(requests') \in Nat /\ Total(dependencies') \in Nat /\ calculations' \in Nat
      /\ sourceCandles'.sum \in Nat /\ responseBytes'.sum \in Nat
  BY <1>1, TotalType DEF MetricsTypeOK, Measurement
<1>3. /\ Total(requests') >= Total(requests)
      /\ Total(dependencies') >= Total(dependencies)
      /\ calculations' >= calculations
      /\ sourceCandles'.sum >= sourceCandles.sum
      /\ responseBytes'.sum >= responseBytes.sum
  BY <1>1, CallGrows
<1>4. /\ server \in [Calls -> ServerStates] /\ reads \in [Calls -> Nat]
      /\ outcome \in [Calls -> [status : {Pending, "OK", "failed"}, bytes : -1 .. 1]]
      /\ Indices \subseteq Calls /\ \A d \in Indices : d \notin Searches
      /\ server[c] = "absent" => reads[c] = 0
      /\ outcome[c].status = "OK" => outcome[c].bytes = 1
  BY <1>1, LoadConstants DEF MetricsTypeOK, CallsInv
<1> DEFINE Adds(S, T, m, n) == (T \subseteq S /\ m <= n) \/ (T \subseteq S \cup {c} /\ m + 1 <= n)
           AllAdd == /\ Adds(Finished, Finished', Total(requests), Total(requests'))
                     /\ Adds(Good, Good', responseBytes.sum, responseBytes'.sum)
                     /\ Adds(Calculated, Calculated', calculations, calculations')
                     /\ Adds(Accepted, Accepted', Total(dependencies), Total(dependencies'))
                     /\ Adds(Accepted, Accepted', sourceCandles.sum, sourceCandles'.sum)
<1>5. AllAdd
  <2>1. CASE Record(c, "inactive", "finished")
    <3>1. /\ server' = [server EXCEPT ![c] = "finished"] /\ server[c] = "inactive"
          /\ outcome' = outcome /\ reads' = reads
      BY <2>1 DEF Record
    <3>2. Total(requests') = Total(requests) + 1
      BY <1>1, <2>1 DEF Record, MetricsTypeOK, Tally, Total
    <3>3. outcome[c].status = "OK" => responseBytes'.sum = responseBytes.sum + 1
      BY <1>4, <2>1 DEF Record
    <3>4. Finished' \subseteq Finished \cup {c}
      BY <1>4, <3>1 DEF Finished
    <3>5. /\ Good' \subseteq Good \cup {c}
          /\ outcome[c].status # "OK" => Good' \subseteq Good
      BY <1>4, <3>1 DEF Good
    <3>6. Calculated' \subseteq Calculated /\ Accepted' \subseteq Accepted
      BY <1>4, <3>1 DEF Calculated, Accepted
    <3>7. Adds(Finished, Finished', Total(requests), Total(requests'))
      BY <1>1, <1>2, <3>2, <3>4
    <3>8. Adds(Good, Good', responseBytes.sum, responseBytes'.sum)
      BY <1>1, <1>2, <1>3, <3>3, <3>5
    <3> QED
      BY <1>3, <3>6, <3>7, <3>8
  <2>2. CASE ObserveRead(c)
    <3>1. /\ server' = [server EXCEPT ![c] = "accepted"] /\ server[c] = "inside"
          /\ outcome' = outcome /\ reads' = [reads EXCEPT ![c] = @ + 1]
      BY <2>2 DEF ObserveRead, MayRead
    <3>2. Total(dependencies') = Total(dependencies) + 1
      BY <1>1, <2>2 DEF ObserveRead, MetricsTypeOK, Tally, Total
    <3>3. sourceCandles'.sum = sourceCandles.sum + 1
      BY <2>2 DEF ObserveRead
    <3>4. Accepted' \subseteq Accepted \cup {c}
      BY <1>4, <3>1 DEF Accepted
    <3>5. Finished' \subseteq Finished /\ Good' \subseteq Good /\ Calculated' \subseteq Calculated
      BY <1>4, <3>1 DEF Finished, Good, Calculated
    <3>6. Adds(Accepted, Accepted', Total(dependencies), Total(dependencies'))
      BY <1>1, <1>2, <3>2, <3>4
    <3>7. Adds(Accepted, Accepted', sourceCandles.sum, sourceCandles'.sum)
      BY <1>1, <1>2, <3>3, <3>4
    <3> QED
      BY <1>3, <3>5, <3>6, <3>7
  <2>3. CASE ObserveCalculation(c)
    <3>1. /\ server' = [server EXCEPT ![c] = "inside"] /\ outcome' = outcome
          \/ /\ server' = [server EXCEPT ![c] = "returned"]
             /\ outcome' = [outcome EXCEPT ![c] = [status |-> "failed", bytes |-> 0]]
      BY <2>3 DEF ObserveCalculation
    <3>2. server[c] = "accepted" /\ reads' = reads /\ calculations' = calculations + 1
      BY <2>3 DEF ObserveCalculation
    <3>3. Calculated' \subseteq Calculated \cup {c}
      BY <1>4, <3>1, <3>2 DEF Calculated
    <3>4. Finished' \subseteq Finished /\ Good' \subseteq Good /\ Accepted' \subseteq Accepted
      BY <1>4, <3>1, <3>2 DEF Finished, Good, Accepted
    <3>5. Adds(Calculated, Calculated', calculations, calculations')
      BY <1>1, <1>2, <3>2, <3>3
    <3> QED
      BY <1>3, <3>4, <3>5
  <2>4. CASE Start(c) \/ Deactivate(c, "returned", "inactive")
    <3>1. /\ outcome' = outcome /\ reads' = reads
          /\ \/ server[c] = "absent" /\ server' = [server EXCEPT ![c] = "inside"]
             \/ server[c] = "returned" /\ server' = [server EXCEPT ![c] = "inactive"]
      BY <2>4 DEF Start, Deactivate
    <3>2. /\ Finished' \subseteq Finished /\ Good' \subseteq Good
          /\ Calculated' \subseteq Calculated /\ Accepted' \subseteq Accepted
      BY <1>4, <3>1 DEF Finished, Good, Calculated, Accepted
    <3> QED
      BY <1>3, <3>2
  <2>5. CASE Refuse(c) \/ Fail(c) \/ ObserveFailedRead(c)
    <3>1. /\ server' = [server EXCEPT ![c] = "returned"]
          /\ reads' = reads \/ reads' = [reads EXCEPT ![c] = @ + 1]
          /\ \E bytes : outcome' = [outcome EXCEPT ![c] = [status |-> "failed", bytes |-> bytes]]
      BY <2>5 DEF Refuse, Fail, ObserveFailedRead, Return
    <3>2. /\ Finished' \subseteq Finished /\ Good' \subseteq Good
          /\ Calculated' \subseteq Calculated /\ Accepted' \subseteq Accepted
      BY <1>4, <3>1 DEF Finished, Good, Calculated, Accepted
    <3> QED
      BY <1>3, <3>2
  <2>6. CASE Succeed(c)
    <3>1. /\ server' = [server EXCEPT ![c] = "returned"] /\ server[c] = "inside" /\ reads' = reads
          /\ outcome' = [outcome EXCEPT ![c] = [status |-> "OK", bytes |-> 1]]
          /\ c \in Indices => reads[c] = 1
      BY <1>4, <2>6 DEF Succeed, Return, Success
    <3>2. Finished' \subseteq Finished /\ Good' \subseteq Good
      BY <1>4, <3>1 DEF Finished, Good
    <3>3. Calculated' \subseteq Calculated /\ Accepted' \subseteq Accepted
      BY <1>4, <3>1 DEF Calculated, Accepted
    <3> QED
      BY <1>3, <3>2, <3>3
  <2> QED
    BY <2>1, <2>2, <2>3, <2>4, <2>5, <2>6 DEF Call, Finish
<1>6. /\ Finished \in SUBSET Indices /\ Good \in SUBSET Indices
       /\ Calculated \in SUBSET Indices /\ Accepted \in SUBSET Indices
       /\ Finished' \in SUBSET Indices /\ Good' \in SUBSET Indices
       /\ Calculated' \in SUBSET Indices /\ Accepted' \in SUBSET Indices
  BY DEF Finished, Good, Calculated, Accepted
<1>7. /\ Cardinality(Finished) \in Nat /\ Cardinality(Good) \in Nat
       /\ Cardinality(Calculated) \in Nat /\ Cardinality(Accepted) \in Nat
       /\ Cardinality(Finished') \in Nat /\ Cardinality(Good') \in Nat
       /\ Cardinality(Calculated') \in Nat /\ Cardinality(Accepted') \in Nat
  BY <1>6, IndexSets
<1>8. /\ Cardinality(Finished') + Total(requests) <= Cardinality(Finished) + Total(requests')
       /\ Cardinality(Good') + responseBytes.sum <= Cardinality(Good) + responseBytes'.sum
       /\ Cardinality(Calculated') + calculations <= Cardinality(Calculated) + calculations'
       /\ Cardinality(Accepted') + Total(dependencies) <= Cardinality(Accepted) + Total(dependencies')
       /\ Cardinality(Accepted') + sourceCandles.sum <= Cardinality(Accepted) + sourceCandles'.sum
  <2> HIDE DEF Finished, Good, Calculated, Accepted
  <2>1. Cardinality(Finished') + Total(requests) <= Cardinality(Finished) + Total(requests')
    BY <1>1, <1>2, <1>5, <1>6, GrowsAtMost
  <2>2. Cardinality(Good') + responseBytes.sum <= Cardinality(Good) + responseBytes'.sum
    BY <1>1, <1>2, <1>5, <1>6, GrowsAtMost
  <2>3. Cardinality(Calculated') + calculations <= Cardinality(Calculated) + calculations'
    BY <1>1, <1>2, <1>5, <1>6, GrowsAtMost
  <2>4. Cardinality(Accepted') + Total(dependencies) <= Cardinality(Accepted) + Total(dependencies')
    BY <1>1, <1>2, <1>5, <1>6, GrowsAtMost
  <2>5. Cardinality(Accepted') + sourceCandles.sum <= Cardinality(Accepted) + sourceCandles'.sum
    BY <1>1, <1>2, <1>5, <1>6, GrowsAtMost
  <2> QED
    BY <2>1, <2>2, <2>3, <2>4, <2>5
<1>9. /\ before.requests \in Nat /\ before.dependencies \in Nat /\ before.calculations \in Nat
       /\ before.candles \in Nat /\ before.bytes \in Nat
  BY DEF Figures
<1>10. /\ before.requests + Cardinality(Finished') <= Total(requests')
       /\ before.dependencies + Cardinality(Accepted') <= Total(dependencies')
       /\ before.candles + Cardinality(Accepted') <= sourceCandles'.sum
       /\ before.calculations + Cardinality(Calculated') <= calculations'
       /\ before.bytes + Cardinality(Good') <= responseBytes'.sum
  BY <1>1, <1>2, <1>7, <1>8, <1>9 DEF GrownSince
<1> QED
  BY <1>10 DEF GrownSince, Total

(* Results of different calls are no more than the calls.                  *)
LEMMA ResultsPerCall ==
  ASSUME OnceInv, NEW S \in SUBSET Indices, NEW R \in SUBSET (1 .. Len(results)),
         \A k \in R : results[k].index \in S
  PROVE  IsFiniteSet(R) /\ Cardinality(R) \in Nat /\ Cardinality(R) <= Cardinality(S)
<1> DEFINE f == [k \in R |-> results[k].index]
<1>1. f \in Injection(R, S)
  BY DEF OnceInv, Injection, IsInjective
<1>2. IsFiniteSet(S)
  BY IndexSets
<1> HIDE DEF f
<1> QED
  BY <1>1, <1>2, FS_Injection, FS_CardinalityType

LEMMA ResultsAreCounted ==
  ASSUME MetricsTypeOK, OnceInv, ResultsInv, NEW before \in Figures, GrownSince(before)
  PROVE  /\ Total(requests) >= before.requests + Cardinality(Counted({"OK", "Unknown", "failed"}))
         /\ Total(dependencies) >= before.dependencies + Cardinality(Counted({"OK", "Unknown"}))
         /\ calculations >= before.calculations + Cardinality(Counted({"OK", "Unknown"}))
         /\ sourceCandles.sum >= before.candles + Cardinality(Counted({"OK", "Unknown"}))
         /\ responseBytes.sum >= before.bytes + Cardinality(Counted({"OK"}))
<1>1. /\ Finished \in SUBSET Indices /\ Good \in SUBSET Indices
      /\ Calculated \in SUBSET Indices /\ Accepted \in SUBSET Indices
      /\ Good \subseteq Calculated /\ Good \subseteq Accepted /\ Good \subseteq Finished
  BY DEF Finished, Good, Calculated, Accepted
<1>2. \A statuses : Counted(statuses) \in SUBSET (1 .. Len(results))
  BY DEF Counted
<1>3. \A k \in Counted({"OK", "Unknown", "failed"}) : results[k].index \in Finished
  BY <1>1 DEF ResultsInv, Counted
<1>4. /\ \A k \in Counted({"OK", "Unknown"}) : results[k].index \in Good
      /\ \A k \in Counted({"OK"}) : results[k].index \in Good
  BY DEF ResultsInv, Counted
<1> HIDE DEF Counted
<1>5. /\ Cardinality(Counted({"OK", "Unknown", "failed"})) \in Nat
      /\ Cardinality(Counted({"OK", "Unknown", "failed"})) <= Cardinality(Finished)
  BY <1>1, <1>2, <1>3, ResultsPerCall
<1>6. /\ Cardinality(Counted({"OK", "Unknown"})) \in Nat
      /\ Cardinality(Counted({"OK", "Unknown"})) <= Cardinality(Good)
  BY <1>1, <1>2, <1>4, ResultsPerCall
<1>7. /\ Cardinality(Counted({"OK"})) \in Nat
      /\ Cardinality(Counted({"OK"})) <= Cardinality(Good)
  BY <1>1, <1>2, <1>4, ResultsPerCall
<1>8. /\ Cardinality(Finished) \in Nat /\ Cardinality(Good) \in Nat
      /\ Cardinality(Calculated) \in Nat /\ Cardinality(Accepted) \in Nat
      /\ Cardinality(Good) <= Cardinality(Calculated)
      /\ Cardinality(Good) <= Cardinality(Accepted)
  <2>1. IsFiniteSet(Calculated) /\ IsFiniteSet(Accepted)
    BY <1>1, IndexSets
  <2> QED
    BY <1>1, <2>1, IndexSets, FS_Subset
<1>9. /\ before.requests \in Nat /\ before.dependencies \in Nat /\ before.calculations \in Nat
      /\ before.candles \in Nat /\ before.bytes \in Nat
  BY DEF Figures
<1> QED
  BY <1>5, <1>6, <1>7, <1>8, <1>9, CountersAreNumbers DEF GrownSince
-----------------------------------------------------------------------------
(* What a step that leaves the service alone leaves of the tool's view.    *)
LEMMA ServiceFrame ==
  ASSUME UNCHANGED <<registry, server, outcome, reads>>
  PROVE  /\ Finished' = Finished /\ Good' = Good
         /\ \A b : GrownSince(b)' = GrownSince(b)
<1>1. /\ server' = server /\ outcome' = outcome /\ reads' = reads
      /\ requests' = requests /\ dependencies' = dependencies /\ calculations' = calculations
      /\ sourceCandles' = sourceCandles /\ responseBytes' = responseBytes
  BY DEF registry
<1>2. /\ Finished' = Finished /\ Good' = Good
      /\ Calculated' = Calculated /\ Accepted' = Accepted
  BY <1>1 DEF Finished, Good, Calculated, Accepted
<1> QED
  BY <1>1, <1>2 DEF GrownSince

LEMMA ResultsFrame ==
  ASSUME results' = results
  PROVE  /\ \A statuses : Counted(statuses)' = Counted(statuses)
         /\ \A b, a : CoversResults(b, a)' = CoversResults(b, a)
BY DEF Counted, CoversResults

LEMMA DeltaFrame ==
  ASSUME DeltaInv, UNCHANGED <<registry, server, outcome, reads, page, pages>>,
         report' = NoReport \/ (report' = report /\ results' = results)
  PROVE  DeltaInv'
<1>1. PICK b : b = pages["before"]
  OBVIOUS
<1>2. PICK a : a = pages["after"]
  OBVIOUS
<1>3. PICK p : p = page["after"]
  OBVIOUS
<1>4. PICK f : f = ParseMetrics(p)
  OBVIOUS
<1>5. b = pages'["before"] /\ a = pages'["after"] /\ p = page'["after"]
      /\ f = ParseMetrics(page'["after"])
  BY <1>1, <1>2, <1>3, <1>4
<1>6. b # NoPage => GrownSince(b)'
  BY <1>1, ServiceFrame DEF DeltaInv
<1>7. report' # NoReport => CoversResults(b, a)' = CoversResults(b, a)
                            /\ CoversResults(b, f)' = CoversResults(b, f)
  BY ResultsFrame
<1>8. report' # NoReport /\ p # Blank => CoversResults(b, f)'
  BY <1>1, <1>3, <1>4, <1>7 DEF DeltaInv
<1>9. report' # NoReport /\ a # NoPage => CoversResults(b, a)'
  BY <1>1, <1>2, <1>7 DEF DeltaInv
<1>10. ParseMetrics(page["after"])' = ParseMetrics(page'["after"])
  BY DEF ParseMetrics, Total
<1> QED
  BY <1>5, <1>6, <1>8, <1>9, <1>10 DEF DeltaInv, GrownSince, CoversResults

LEMMA LoadStarts == Init => IInv
<1> SUFFICES ASSUME Init PROVE IInv
  OBVIOUS
<1>1. MetricsInv
  BY MetricsStart DEF Init
<1>2. TypeOK
  BY <1>1, LoadConstants DEF Init, TypeOK, MetricsInv
<1>3. StageInv /\ ReportInv /\ DeltaInv
  <2>1. \A s \in Scrapes : page[s] = Blank
    BY DEF Init, MetricsInit
  <2> QED
    BY <2>1, LoadConstants DEF Init, StageInv, ReportInv, DeltaInv
<1>4. ResultsInv
  BY DEF Init, ResultsInv
<1>5. OnceInv
  <2>1. \A c \in Indices : server[c] = "absent"
    BY LoadConstants DEF Init, MetricsInit
  <2>2. /\ jobs = 0 /\ \A k \in 1 .. Len(results) : FALSE
        /\ \A w \in Workers : worker[w] = Free
    BY DEF Init
  <2>3. \A i \in Indices : ~(i < 0)
    BY LoadConstants
  <2> QED
    BY <2>1, <2>2, <2>3, LoadConstants DEF OnceInv
<1> QED
  BY <1>1, <1>2, <1>3, <1>4, <1>5 DEF IInv

(* The tool's own variables keep the calls in their places.                *)
LEMMA OnceFrame ==
  ASSUME OnceInv, UNCHANGED <<jobs, worker, results, server>>
  PROVE  OnceInv'
BY DEF OnceInv

LEMMA ResultsInvFrame ==
  ASSUME ResultsInv, UNCHANGED <<results, registry, server, outcome, reads>>
  PROVE  ResultsInv'
<1>1. Finished' = Finished /\ Good' = Good
  BY ServiceFrame
<1> QED
  BY <1>1 DEF ResultsInv

LEMMA FiguresOfPage ==
  ASSUME NEW p \in PageRecord
  PROVE  /\ ParseMetrics(p) \in Figures /\ ParseMetrics(p) # NoPage
         /\ \A f \in Figures : f # NoPage
<1>1. \A f \in Figures : f # NoPage
  <2>1. \A f \in Figures : f.requests # -1
    BY DEF Figures
  <2>2. NoPage.requests = -1
    BY DEF NoPage
  <2> QED
    BY <2>1, <2>2
<1>2. p.responseBytes.count \in Nat
  BY DEF PageRecord, Measurement
<1>3. ParseMetrics(p) \in Figures
  BY <1>2, PageRecordType DEF ParseMetrics, Figures
<1> QED
  BY <1>1, <1>3

(* The load has not begun when the first page is read, so that what is on  *)
(* that page is behind everything the load does.                           *)
LEMMA NothingCountedYet ==
  ASSUME MetricsInv, OnceInv, jobs = 0, page["before"] # Blank
  PROVE  GrownSince(ParseMetrics(page["before"]))
<1>1. "before" \in Scrapes /\ Indices \subseteq Nat /\ Indices \subseteq Calls
  BY LoadConstants
<1>2. PICK p \in PageRecord : p = page["before"]
  BY <1>1 DEF MetricsInv, PagesInv
<1>3. IsPast(p)
  BY <1>1, <1>2 DEF MetricsInv, PagesInv
<1>4. \A c \in Indices : server[c] = "absent" /\ outcome[c].status = Pending
  <2>1. \A c \in Indices : server[c] = "absent"
    BY <1>1 DEF OnceInv
  <2> QED
    BY <1>1, <2>1 DEF MetricsInv, CallsInv, Answering
<1>5. Finished = {} /\ Good = {} /\ Calculated = {} /\ Accepted = {}
  BY <1>4 DEF Finished, Good, Calculated, Accepted, Pending
<1>6. /\ Total(p.requests) \in Nat /\ Total(p.dependencies) \in Nat /\ p.calculations \in Nat
      /\ p.sourceCandles.sum \in Nat /\ p.responseBytes.sum \in Nat
  BY PageRecordType
<1>7. PICK f : f = ParseMetrics(p)
  OBVIOUS
<1>8. /\ f.requests = Total(p.requests) /\ f.dependencies = Total(p.dependencies)
      /\ f.calculations = p.calculations /\ f.candles = p.sourceCandles.sum
      /\ f.bytes = p.responseBytes.sum
  BY <1>7 DEF ParseMetrics
<1>9. GrownSince(f)
  BY <1>3, <1>5, <1>6, <1>8, NoneOfNone DEF GrownSince, IsPast
<1> QED
  BY <1>2, <1>7, <1>9

LEMMA FetchBeforePreserves == IInv /\ FetchBefore => IInv'
<1> SUFFICES ASSUME IInv, FetchBefore PROVE IInv'
  OBVIOUS
<1>1. /\ stage = "before"
      /\ UNCHANGED <<registry, server, outcome, reads, jobs, worker, results, report, loadErr, file>>
  BY DEF FetchBefore
<1>2. /\ TypeOK /\ MetricsInv /\ StageInv /\ OnceInv /\ ResultsInv /\ ReportInv /\ DeltaInv
      /\ report = NoReport /\ jobs = 0 /\ page["after"] = Blank /\ pages["after"] = NoPage
  BY <1>1, LoadConstants DEF IInv, StageInv
<1>3. OnceInv' /\ ResultsInv'
  BY <1>1, <1>2, OnceFrame, ResultsInvFrame
<1>4. CASE Fetch("before") /\ stage' = "load" /\ exit' = exit
  <2>1. /\ page["before"].state = "shown" /\ page' = [page EXCEPT !["before"] = Blank]
        /\ pages' = [pages EXCEPT !["before"] = ParseMetrics(page["before"])]
        /\ "before" \in Scrapes /\ "after" \in Scrapes
    BY <1>4, LoadConstants DEF Fetch
  <2>2. MetricsInv'
    BY <1>1, <1>2, <2>1, TakenPageKeeps
  <2>3. page["before"] \in PageRecord
    BY <1>2, <2>1 DEF MetricsInv, PagesInv, Blank
  <2>4. PICK f \in Figures : f = ParseMetrics(page["before"])
    BY <2>3, FiguresOfPage
  <2>5. /\ pages' = [pages EXCEPT !["before"] = f] /\ pages'["before"] = f
        /\ pages'["after"] = NoPage /\ f # NoPage
    BY <1>2, <2>1, <2>3, <2>4, FiguresOfPage DEF StageInv
  <2>6. page'["after"] = Blank
    BY <1>2, <2>1 DEF MetricsInv, PagesInv
  <2>7. StageInv'
    BY <1>1, <1>2, <1>4, <2>5, <2>6 DEF StageInv
  <2>8. GrownSince(f)
    BY <1>2, <2>1, <2>3, <2>4, NothingCountedYet, PageRecordType
  <2>9. GrownSince(f)'
    BY <1>1, <2>8, ServiceFrame
  <2>10. DeltaInv'
    BY <1>1, <1>2, <2>5, <2>9 DEF DeltaInv, GrownSince
  <2>11. TypeOK' /\ ReportInv'
    BY <1>1, <1>2, <1>4, <2>2 DEF TypeOK, ReportInv, MetricsInv, StageInv
  <2> QED
    BY <1>3, <2>2, <2>7, <2>10, <2>11 DEF IInv
<1>5. CASE NoFetch /\ stage' = "exited" /\ exit' = "failure"
  <2>1. UNCHANGED <<registry, server, outcome, reads, page, pages>>
    BY <1>1, <1>5 DEF NoFetch
  <2>2. MetricsInv'
    BY <1>2, <2>1, MetricsRest DEF metricsVars
  <2>3. DeltaInv'
    BY <1>1, <1>2, <2>1, DeltaFrame
  <2>4. TypeOK' /\ ReportInv' /\ StageInv'
    BY <1>1, <1>2, <1>5, <2>1, <2>2 DEF TypeOK, ReportInv, MetricsInv, StageInv
  <2> QED
    BY <1>3, <2>2, <2>3, <2>4 DEF IInv
<1> QED
  BY <1>4, <1>5 DEF FetchBefore

LEMMA RejectOptionsPreserves == IInv /\ RejectOptions => IInv'
<1> SUFFICES ASSUME IInv, RejectOptions PROVE IInv'
  OBVIOUS
<1>1. /\ stage = "load" /\ stage' = "after" /\ loadErr' = TRUE
      /\ UNCHANGED <<metricsVars, exit, jobs, worker, results, report, pages, file>>
      /\ UNCHANGED <<registry, server, outcome, reads, page>>
  BY DEF RejectOptions, metricsVars
<1>2. /\ TypeOK /\ MetricsInv /\ StageInv /\ OnceInv /\ ResultsInv /\ ReportInv /\ DeltaInv
      /\ report = NoReport /\ exit = "none" /\ \A w \in Workers : worker[w] \notin Indices
  BY <1>1 DEF IInv, StageInv
<1>3. MetricsInv'
  BY <1>1, <1>2, MetricsRest
<1>4. OnceInv' /\ ResultsInv'
  BY <1>1, <1>2, OnceFrame, ResultsInvFrame
<1>5. DeltaInv'
  BY <1>1, <1>2, DeltaFrame
<1>6. TypeOK' /\ ReportInv' /\ StageInv'
  BY <1>1, <1>2, <1>3 DEF TypeOK, ReportInv, MetricsInv, StageInv
<1> QED
  BY <1>3, <1>4, <1>5, <1>6 DEF IInv

LEMMA StartWorkersPreserves == IInv /\ StartWorkers => IInv'
<1> SUFFICES ASSUME IInv, StartWorkers PROVE IInv'
  OBVIOUS
<1>1. /\ stage = "load" /\ stage' = "working"
      /\ UNCHANGED <<metricsVars, exit, jobs, worker, results, report, loadErr, pages, file>>
      /\ UNCHANGED <<registry, server, outcome, reads, page>>
  BY DEF StartWorkers, metricsVars
<1>2. /\ TypeOK /\ MetricsInv /\ StageInv /\ OnceInv /\ ResultsInv /\ ReportInv /\ DeltaInv
      /\ report = NoReport /\ exit = "none" /\ \A w \in Workers : worker[w] \notin Indices
  BY <1>1 DEF IInv, StageInv
<1>3. MetricsInv'
  BY <1>1, <1>2, MetricsRest
<1>4. OnceInv' /\ ResultsInv'
  BY <1>1, <1>2, OnceFrame, ResultsInvFrame
<1>5. DeltaInv'
  BY <1>1, <1>2, DeltaFrame
<1>6. TypeOK' /\ ReportInv' /\ StageInv'
  BY <1>1, <1>2, <1>3 DEF TypeOK, ReportInv, MetricsInv, StageInv
<1> QED
  BY <1>3, <1>4, <1>5, <1>6 DEF IInv

ResultRecord == [index : Indices, status : Statuses, bytes : 0 .. 1, flagged : BOOLEAN]

LEMMA ResultsAreTyped ==
  ASSUME TypeOK
  PROVE  /\ results \in Seq(ResultRecord) /\ Len(results) \in Nat
         /\ \A k \in 1 .. Len(results) :
              results[k] \in ResultRecord /\ results[k].index \in Indices
<1>1. results \in Seq(ResultRecord)
  BY DEF TypeOK, ResultRecord
<1>2. \A r \in ResultRecord : r.index \in Indices
  BY DEF ResultRecord
<1> HIDE DEF ResultRecord
<1>3. \A k \in 1 .. Len(results) : results[k] \in ResultRecord
  BY <1>1
<1> QED
  BY <1>1, <1>2, <1>3

LEMMA TakePreserves == ASSUME IInv, NEW w \in Workers, Take(w) PROVE IInv'
<1>1. /\ stage = "working" /\ worker[w] = Free
      /\ UNCHANGED <<metricsVars, stage, exit, results, report, loadErr, pages, file>>
      /\ UNCHANGED <<registry, server, outcome, reads, page>>
  BY DEF Take, metricsVars
<1>2. /\ TypeOK /\ MetricsInv /\ StageInv /\ OnceInv /\ ResultsInv /\ ReportInv /\ DeltaInv
      /\ report = NoReport /\ exit = "none"
      /\ worker \in [Workers -> Indices \cup {Free, Done}] /\ jobs \in 0 .. Requests
      /\ Requests \in Nat /\ Indices \subseteq Nat
      /\ Free \notin Indices /\ Done \notin Indices /\ Free # Done
  BY <1>1, LoadConstants DEF IInv, StageInv, TypeOK
<1>3. MetricsInv'
  BY <1>1, <1>2, MetricsRest
<1>4. ResultsInv'
  BY <1>1, <1>2, ResultsInvFrame
<1>5. DeltaInv'
  BY <1>1, <1>2, DeltaFrame
<1>6. ReportInv' /\ StageInv'
  BY <1>1, <1>2 DEF ReportInv, StageInv
<1>7. CASE jobs < Requests
  <2>1. worker' = [worker EXCEPT ![w] = jobs] /\ jobs' = jobs + 1 /\ jobs \in Indices
    BY <1>2, <1>7 DEF Take, Indices
  <2>2. TypeOK'
    <3>1. worker' \in [Workers -> Indices \cup {Free, Done}] /\ jobs' \in 0 .. Requests
      BY <1>2, <1>7, <2>1
    <3> QED
      BY <1>1, <1>2, <1>3, <3>1 DEF TypeOK, MetricsInv
  <2>3. \A k \in 1 .. Len(results) : results[k].index < jobs /\ results[k].index \in Nat
    <3>1. \A k \in 1 .. Len(results) : results[k].index \in Indices
      BY <1>2, ResultsAreTyped
    <3> QED
      BY <1>2, <3>1 DEF OnceInv
  <2>4. \A v \in Workers : worker[v] \in Indices => worker[v] < jobs /\ worker[v] \in Nat
    BY <1>2 DEF OnceInv
  <2>5. OnceInv'
    <3>1. ASSUME NEW u \in Workers, NEW v \in Workers, worker'[u] = worker'[v],
                 worker'[u] \in Indices
          PROVE  u = v
      BY <1>2, <2>1, <2>4, <3>1 DEF OnceInv
    <3>2. \A k \in 1 .. Len(results) : results[k].index < jobs + 1
      BY <1>2, <2>3
    <3>3. ASSUME NEW v \in Workers, worker'[v] \in Indices
          PROVE  /\ worker'[v] < jobs + 1
                 /\ \A k \in 1 .. Len(results) : results[k].index # worker'[v]
      BY <1>2, <2>1, <2>3, <2>4, <3>3 DEF OnceInv
    <3>4. ASSUME NEW i \in Indices, i < jobs + 1
          PROVE  \/ \E k \in 1 .. Len(results) : results[k].index = i
                 \/ \E v \in Workers : worker'[v] = i
      <4>1. CASE i = jobs
        BY <1>2, <2>1, <4>1
      <4>2. CASE i < jobs
        <5>1. CASE \E k \in 1 .. Len(results) : results[k].index = i
          BY <5>1
        <5>2. CASE \E v \in Workers : worker[v] = i
          BY <1>1, <1>2, <2>1, <5>2
        <5> QED
          BY <1>2, <4>2, <5>1, <5>2 DEF OnceInv
      <4> QED
        BY <1>2, <3>4, <4>1, <4>2
    <3>5. \A v \in Workers : worker'[v] = Done => jobs + 1 = Requests
      <4>1. ASSUME NEW v \in Workers, worker'[v] = Done PROVE FALSE
        <5>1. worker[v] = Done
          BY <1>2, <2>1, <4>1
        <5> QED
          BY <1>2, <1>7, <5>1 DEF OnceInv
      <4> QED
        BY <4>1
    <3>6. \A c \in Indices : server[c] # "absent" => c < jobs + 1
      BY <1>2 DEF OnceInv
    <3>7. \A j, k \in 1 .. Len(results) : results[j].index = results[k].index => j = k
      BY <1>2 DEF OnceInv
    <3>8. jobs' = jobs + 1 /\ results' = results /\ server' = server
      BY <1>1, <2>1
    <3> QED
      BY <3>1, <3>2, <3>3, <3>4, <3>5, <3>6, <3>7, <3>8 DEF OnceInv
  <2> QED
    BY <1>3, <1>4, <1>5, <1>6, <2>2, <2>5 DEF IInv
<1>8. CASE ~(jobs < Requests)
  <2>1. worker' = [worker EXCEPT ![w] = Done] /\ jobs' = jobs /\ jobs = Requests
    BY <1>2, <1>8 DEF Take
  <2>2. TypeOK'
    <3>1. worker' \in [Workers -> Indices \cup {Free, Done}]
      BY <1>2, <2>1
    <3> QED
      BY <1>1, <1>2, <1>3, <2>1, <3>1 DEF TypeOK, MetricsInv
  <2>3. OnceInv'
    <3>1. \A v \in Workers : worker'[v] \in Indices => worker'[v] = worker[v] /\ v # w
      BY <1>2, <2>1
    <3>2. \A v \in Workers : worker[v] \in Indices => worker'[v] = worker[v]
      BY <1>1, <1>2, <2>1
    <3> QED
      BY <1>1, <1>2, <2>1, <3>1, <3>2 DEF OnceInv
  <2> QED
    BY <1>3, <1>4, <1>5, <1>6, <2>2, <2>3 DEF IInv
<1> QED
  BY <1>7, <1>8

(* Different indices are no more than there are.                           *)
LEMMA DistinctResults ==
  ASSUME NEW rs \in Seq(ResultRecord),
         \A j, k \in 1 .. Len(rs) : rs[j].index = rs[k].index => j = k
  PROVE  Len(rs) <= Requests
<1> DEFINE f == [k \in 1 .. Len(rs) |-> rs[k].index]
<1>1. Len(rs) \in Nat
  OBVIOUS
<1>2. \A k \in 1 .. Len(rs) : rs[k].index \in Indices
  <2>1. \A r \in ResultRecord : r.index \in Indices
    BY DEF ResultRecord
  <2> HIDE DEF ResultRecord
  <2>2. \A k \in 1 .. Len(rs) : rs[k] \in ResultRecord
    OBVIOUS
  <2> QED
    BY <2>1, <2>2
<1>3. f \in Injection(1 .. Len(rs), Indices)
  BY <1>2 DEF Injection, IsInjective
<1> HIDE DEF f
<1>4. Cardinality(1 .. Len(rs)) <= Requests
  BY <1>3, LoadConstants, FS_Injection
<1> QED
  BY <1>1, <1>4, Intervals

LEMMA ResultPreserves ==
  ASSUME IInv, NEW w \in Workers, worker[w] \in Indices,
         NEW status \in Statuses, NEW flagged \in BOOLEAN, Result(w, status, flagged),
         status \in {"OK", "Unknown"} => worker[w] \in Good,
         status = "failed" => worker[w] \in Finished,
         flagged => status = "Unknown"
  PROVE  IInv'
<1> DEFINE n == Len(results)
           r == [index |-> worker[w], status |-> status, bytes |-> IF status = "OK" THEN 1 ELSE 0,
                 flagged |-> flagged]
<1>1. /\ results' = Append(results, r) /\ worker' = [worker EXCEPT ![w] = Free]
      /\ UNCHANGED <<metricsVars, stage, exit, jobs, report, loadErr, pages, file>>
      /\ UNCHANGED <<registry, server, outcome, reads, page>>
  BY DEF Result, metricsVars
<1>2. /\ TypeOK /\ MetricsInv /\ StageInv /\ OnceInv /\ ResultsInv /\ ReportInv /\ DeltaInv
      /\ stage = "working" /\ report = NoReport /\ exit = "none"
      /\ worker \in [Workers -> Indices \cup {Free, Done}] /\ jobs \in 0 .. Requests
      /\ Free \notin Indices /\ Done \notin Indices /\ Free # Done
  BY LoadConstants DEF IInv, StageInv, TypeOK
<1>3. MetricsInv'
  BY <1>1, <1>2, MetricsRest
<1>4. DeltaInv'
  BY <1>1, <1>2, DeltaFrame
<1>5. ReportInv' /\ StageInv'
  BY <1>1, <1>2 DEF ReportInv, StageInv
<1>6. /\ r \in ResultRecord /\ results \in Seq(ResultRecord) /\ n \in Nat
      /\ r.index = worker[w] /\ r.status = status /\ r.flagged = flagged
  <2>1. r \in ResultRecord
    BY DEF ResultRecord
  <2> QED
    BY <1>2, <2>1, ResultsAreTyped
<1> HIDE DEF r
<1>7. /\ results' \in Seq(ResultRecord) /\ Len(results') = n + 1
      /\ \A k \in 1 .. n : results'[k] = results[k]
      /\ results'[n + 1] = r /\ n + 1 \in 1 .. n + 1
      /\ \A k \in 1 .. n + 1 : k \in 1 .. n \/ k = n + 1
      /\ \A k \in 1 .. n : k \in 1 .. n + 1 /\ k # n + 1
  <2> HIDE DEF ResultRecord
  <2> QED
    BY <1>1, <1>6
<1>8. ResultsInv'
  <2>1. Finished' = Finished /\ Good' = Good
    BY <1>1, ServiceFrame
  <2>2. ASSUME NEW k \in 1 .. n + 1
        PROVE  /\ results'[k].status \in {"OK", "Unknown"} => results'[k].index \in Good
               /\ results'[k].status = "failed" => results'[k].index \in Finished
               /\ results'[k].flagged => results'[k].status = "Unknown"
    <3>1. CASE k \in 1 .. n
      BY <1>2, <1>7, <3>1 DEF ResultsInv
    <3>2. CASE k = n + 1
      BY <1>6, <1>7, <3>2
    <3> QED
      BY <1>7, <3>1, <3>2
  <2> QED
    BY <1>7, <2>1, <2>2 DEF ResultsInv
<1>9. OnceInv'
  <2>1. \A v \in Workers : worker'[v] \in Indices => worker'[v] = worker[v] /\ v # w
    BY <1>1, <1>2
  <2>2. ASSUME NEW j \in 1 .. n + 1, NEW k \in 1 .. n + 1, results'[j].index = results'[k].index
        PROVE  j = k
    <3>1. CASE j \in 1 .. n /\ k \in 1 .. n
      BY <1>2, <1>7, <2>2, <3>1 DEF OnceInv
    <3>2. CASE j = n + 1 /\ k \in 1 .. n
      BY <1>2, <1>6, <1>7, <2>2, <3>2 DEF OnceInv
    <3>3. CASE j \in 1 .. n /\ k = n + 1
      BY <1>2, <1>6, <1>7, <2>2, <3>3 DEF OnceInv
    <3> QED
      BY <1>7, <3>1, <3>2, <3>3
  <2>3. ASSUME NEW u \in Workers, NEW v \in Workers, worker'[u] = worker'[v], worker'[u] \in Indices
        PROVE  u = v
    BY <1>2, <2>1, <2>3 DEF OnceInv
  <2>4. ASSUME NEW k \in 1 .. n + 1 PROVE results'[k].index < jobs
    BY <1>2, <1>6, <1>7, <2>4 DEF OnceInv
  <2>5. ASSUME NEW v \in Workers, worker'[v] \in Indices, NEW k \in 1 .. n + 1
        PROVE  worker'[v] < jobs /\ results'[k].index # worker'[v]
    <3>1. worker'[v] = worker[v] /\ v # w /\ worker[v] < jobs
      BY <1>2, <2>1, <2>5 DEF OnceInv
    <3>2. CASE k \in 1 .. n
      BY <1>2, <1>7, <2>5, <3>1, <3>2 DEF OnceInv
    <3>3. CASE k = n + 1
      BY <1>2, <1>6, <1>7, <2>5, <3>1, <3>3 DEF OnceInv
    <3> QED
      BY <1>7, <3>1, <3>2, <3>3
  <2>6. ASSUME NEW i \in Indices, i < jobs
        PROVE  \/ \E k \in 1 .. n + 1 : results'[k].index = i
               \/ \E v \in Workers : worker'[v] = i
    <3>1. CASE \E k \in 1 .. n : results[k].index = i
      BY <1>7, <3>1
    <3>2. CASE worker[w] = i
      BY <1>6, <1>7, <3>2
    <3>3. CASE \E v \in Workers : worker[v] = i /\ v # w
      BY <1>1, <1>2, <3>3
    <3> QED
      BY <1>2, <2>6, <3>1, <3>2, <3>3 DEF OnceInv
  <2>7. \A v \in Workers : worker'[v] = Done => jobs = Requests
    <3>1. \A v \in Workers : worker'[v] = Done => worker[v] = Done
      BY <1>1, <1>2
    <3> QED
      BY <1>2, <3>1 DEF OnceInv
  <2>8. \A c \in Indices : server[c] # "absent" => c < jobs
    BY <1>2 DEF OnceInv
  <2>9. jobs' = jobs /\ server' = server /\ Len(results') = n + 1 /\ 1 \in 1 .. n + 1
    BY <1>1, <1>6, <1>7
  <2> HIDE DEF n
  <2> QED
    BY <2>2, <2>3, <2>4, <2>5, <2>6, <2>7, <2>8, <2>9 DEF OnceInv
<1>10. TypeOK'
  <2>1. worker' \in [Workers -> Indices \cup {Free, Done}]
    BY <1>1, <1>2
  <2>2. Len(results') <= Requests
    BY <1>7, <1>9, DistinctResults DEF OnceInv
  <2>3. results' \in Seq([index : Indices, status : Statuses, bytes : 0 .. 1, flagged : BOOLEAN])
    BY <1>7 DEF ResultRecord
  <2> QED
    BY <1>1, <1>2, <1>3, <2>1, <2>2, <2>3 DEF TypeOK, MetricsInv
<1> QED
  BY <1>3, <1>4, <1>5, <1>8, <1>9, <1>10 DEF IInv

LEMMA WorkPreserves == ASSUME IInv, NEW w \in Workers, Work(w) PROVE IInv'
<1>1. CASE Take(w)
  BY <1>1, TakePreserves
<1>2. CASE Receive(w)
  <2>1. worker[w] \in Finished
    BY <1>2 DEF Receive, Answered, Finished
  <2>2. worker[w] \in Indices /\ outcome[worker[w]].status \in {Pending, "OK", "failed"}
    BY <2>1, LoadConstants DEF Finished, IInv, MetricsInv, MetricsTypeOK
  <2>3. CASE outcome[worker[w]].status = "OK"
    <3>1. worker[w] \in Good
      BY <2>1, <2>3 DEF Finished, Good
    <3>2. Result(w, "OK", FALSE) \/ Result(w, "Unknown", FALSE) \/ Result(w, "Unknown", TRUE)
      BY <1>2, <2>3 DEF Receive
    <3>3. CASE Result(w, "OK", FALSE)
      BY <2>2, <3>1, <3>3, ResultPreserves DEF Statuses
    <3>4. CASE Result(w, "Unknown", FALSE)
      BY <2>2, <3>1, <3>4, ResultPreserves DEF Statuses
    <3>5. CASE Result(w, "Unknown", TRUE)
      BY <2>2, <3>1, <3>5, ResultPreserves DEF Statuses
    <3> QED
      BY <3>2, <3>3, <3>4, <3>5
  <2>4. CASE outcome[worker[w]].status # "OK"
    <3>1. outcome[worker[w]].status = "failed"
      <4>1. outcome[worker[w]].status # Pending
        BY <2>1, LoadConstants DEF Finished, IInv, MetricsInv, CallsInv, Answering
      <4> QED
        BY <2>2, <2>4, <4>1
    <3>2. Result(w, "failed", FALSE)
      BY <1>2, <2>4, <3>1 DEF Receive
    <3> QED
      BY <2>1, <2>2, <3>2, ResultPreserves DEF Statuses
  <2> QED
    BY <2>3, <2>4
<1>3. CASE GiveUp(w)
  <2>1. worker[w] \in Indices /\ Result(w, "unanswered", FALSE)
    BY <1>3 DEF GiveUp
  <2> QED
    BY <2>1, ResultPreserves DEF Statuses
<1> QED
  BY <1>1, <1>2, <1>3 DEF Work

(* A call that was answered stays as it was.                               *)
LEMMA AnsweredCallsRest ==
  ASSUME MetricsTypeOK, NEW c \in Calls, Call(c)
  PROVE  Finished \subseteq Finished' /\ Good \subseteq Good'
<1>1. server[c] # "finished"
  BY DEF Call, Start, Refuse, Fail, Succeed, ObserveRead, ObserveFailedRead, MayRead,
         ObserveCalculation, Finish, Deactivate, Record
<1>2. /\ \E to : server' = [server EXCEPT ![c] = to]
      /\ outcome' = outcome \/ \E o : outcome' = [outcome EXCEPT ![c] = o]
  BY DEF Call, Start, Refuse, Fail, Succeed, Return, ObserveRead, ObserveFailedRead,
         ObserveCalculation, Finish, Deactivate, Record
<1>3. \A d \in Calls : d # c => server'[d] = server[d] /\ outcome'[d] = outcome[d]
  BY <1>2 DEF MetricsTypeOK
<1>4. Indices \subseteq Calls
  BY LoadConstants
<1> QED
  BY <1>1, <1>3, <1>4 DEF Finished, Good

LEMMA CallPreserves ==
  ASSUME IInv, NEW c \in Calls, c \in Indices => c < jobs, Call(c), UNCHANGED toolVars
  PROVE  IInv'
<1>1. /\ TypeOK /\ MetricsInv /\ StageInv /\ OnceInv /\ ResultsInv /\ ReportInv /\ DeltaInv
      /\ MetricsTypeOK /\ CallsInv
  BY DEF IInv, MetricsInv
<1>2. /\ stage' = stage /\ exit' = exit /\ jobs' = jobs /\ worker' = worker /\ results' = results
      /\ report' = report /\ loadErr' = loadErr /\ pages' = pages /\ file' = file
  BY DEF toolVars
<1>3. page' = page
  BY <1>1, CallGrows
<1>4. MetricsInv'
  BY <1>1, CallKeeps
<1>5. TypeOK' /\ StageInv' /\ ReportInv'
  BY <1>1, <1>2, <1>3, <1>4 DEF TypeOK, StageInv, ReportInv, MetricsInv
<1>6. OnceInv'
  <2>1. \A d \in Indices : d # c => server'[d] = server[d]
    <3>1. \E to : server' = [server EXCEPT ![c] = to]
      BY DEF Call, Start, Refuse, Fail, Succeed, Return, ObserveRead, ObserveFailedRead,
             ObserveCalculation, Finish, Deactivate, Record
    <3> QED
      BY <1>1, <3>1, LoadConstants DEF MetricsTypeOK
  <2>2. \A d \in Indices : server'[d] # "absent" => d < jobs
    BY <1>1, <2>1 DEF OnceInv
  <2> QED
    BY <1>1, <1>2, <2>2 DEF OnceInv
<1>7. ResultsInv'
  BY <1>1, <1>2, AnsweredCallsRest DEF ResultsInv
<1>8. DeltaInv'
  <2>1. PICK b : b = pages["before"]
    OBVIOUS
  <2>2. ASSUME b # NoPage PROVE GrownSince(b)'
    <3>1. b \in Figures /\ GrownSince(b)
      BY <1>1, <2>1, <2>2, LoadConstants DEF StageInv, DeltaInv
    <3> QED
      BY <1>1, <1>4, <3>1, CallCounts
  <2>3. b = pages'["before"]
    BY <1>2, <2>1
  <2>4. pages'["before"] # NoPage => GrownSince(pages["before"])'
    BY <2>2, <2>3 DEF GrownSince
  <2>5. /\ CoversResults(pages["before"], ParseMetrics(page["after"]))'
             = CoversResults(pages["before"], ParseMetrics(page["after"]))
        /\ CoversResults(pages["before"], pages["after"])'
             = CoversResults(pages["before"], pages["after"])
    BY <1>2, <1>3 DEF CoversResults, Counted, ParseMetrics, Total
  <2> QED
    BY <1>1, <1>2, <1>3, <2>4, <2>5 DEF DeltaInv
<1> QED
  BY <1>4, <1>5, <1>6, <1>7, <1>8 DEF IInv

LEMMA ScrapePreserves ==
  ASSUME IInv, stage \in Scrapes, Scrape(stage), UNCHANGED toolVars
  PROVE  IInv'
<1>1. /\ TypeOK /\ MetricsInv /\ StageInv /\ OnceInv /\ ResultsInv /\ ReportInv /\ DeltaInv
      /\ MetricsTypeOK /\ page \in [Scrapes -> {Blank} \cup PageRecord]
      /\ Scrapes = {"before", "after"}
  BY LoadConstants DEF IInv, MetricsInv, PagesInv
<1>2. /\ stage' = stage /\ exit' = exit /\ jobs' = jobs /\ worker' = worker /\ results' = results
      /\ report' = report /\ loadErr' = loadErr /\ pages' = pages /\ file' = file
  BY DEF toolVars
<1>3. UNCHANGED <<registry, server, outcome, reads>>
  BY DEF Scrape, Copy, Show
<1>4. MetricsInv'
  BY <1>1, CopyKeeps, ShowKeeps DEF Scrape
<1>5. stage = "before" => page'["after"] = page["after"]
  BY <1>1 DEF Scrape, Copy, Show
<1>6. TypeOK' /\ StageInv' /\ ReportInv'
  BY <1>1, <1>2, <1>4, <1>5 DEF TypeOK, StageInv, ReportInv, MetricsInv
<1>7. OnceInv' /\ ResultsInv'
  BY <1>1, <1>2, <1>3, OnceFrame, ResultsInvFrame
<1>8. DeltaInv'
  <2>1. PICK b : b = pages["before"]
    OBVIOUS
  <2>2. PICK a : a = pages["after"]
    OBVIOUS
  <2>3. PICK p : p = page'["after"]
    OBVIOUS
  <2>4. PICK f : f = ParseMetrics(p)
    OBVIOUS
  <2>5. b = pages'["before"] /\ a = pages'["after"] /\ ParseMetrics(page["after"])' = f
    BY <1>2, <2>1, <2>2, <2>3, <2>4 DEF ParseMetrics, Total
  <2>6. b # NoPage => GrownSince(b)'
    BY <1>1, <1>3, <2>1, ServiceFrame DEF DeltaInv
  <2>7. report # NoReport /\ a # NoPage => CoversResults(b, a)'
    BY <1>1, <1>2, <2>1, <2>2, ResultsFrame DEF DeltaInv
  <2>8. ASSUME report # NoReport, p # Blank PROVE CoversResults(b, f)'
    <3>1. stage = "after"
      BY <1>1, <2>8 DEF StageInv
    <3>2. b \in Figures /\ GrownSince(b)
      BY <1>1, <2>1, <3>1 DEF StageInv, DeltaInv
    <3>3. CASE Copy(stage)
      <4>1. p = [state |-> "copied", requests |-> requests, dependencies |-> dependencies,
                 calculations |-> calculations, sourceCandles |-> sourceCandles,
                 responseBytes |-> responseBytes, active |-> 0]
        BY <1>1, <2>3, <3>1, <3>3 DEF Copy
      <4>2. /\ f.requests = Total(requests) /\ f.dependencies = Total(dependencies)
            /\ f.calculations = calculations /\ f.candles = sourceCandles.sum
            /\ f.bytes = responseBytes.sum
        BY <2>4, <4>1 DEF ParseMetrics, Total
      <4>3. CoversResults(b, f)
        BY <1>1, <3>2, <4>2, ResultsAreCounted DEF CoversResults
      <4> QED
        BY <1>2, <4>3, ResultsFrame
    <3>4. CASE Show(stage)
      <4>1. page["after"] \in PageRecord /\ page["after"] # Blank
        BY <1>1, <3>1, <3>4 DEF Show, Blank
      <4>2. PICK q : q = page["after"]
        OBVIOUS
      <4>3. p = [q EXCEPT !.state = "shown", !.active = active]
        BY <1>1, <2>3, <3>1, <3>4, <4>2 DEF Show
      <4>4. /\ p.requests = q.requests /\ p.dependencies = q.dependencies
            /\ p.calculations = q.calculations /\ p.sourceCandles = q.sourceCandles
            /\ p.responseBytes = q.responseBytes
        BY <4>1, <4>2, <4>3 DEF PageRecord
      <4>5. PICK g : g = ParseMetrics(q)
        OBVIOUS
      <4>6. CoversResults(b, g)
        BY <1>1, <2>1, <2>8, <4>1, <4>2, <4>5 DEF DeltaInv
      <4>7. /\ f.requests = g.requests /\ f.dependencies = g.dependencies
            /\ f.calculations = g.calculations /\ f.candles = g.candles /\ f.bytes = g.bytes
        BY <2>4, <4>4, <4>5 DEF ParseMetrics, Total
      <4>8. CoversResults(b, f)
        BY <4>6, <4>7 DEF CoversResults
      <4> QED
        BY <1>2, <4>8, ResultsFrame
    <3> QED
      BY <3>3, <3>4 DEF Scrape
  <2> QED
    BY <1>2, <2>3, <2>5, <2>6, <2>7, <2>8 DEF DeltaInv, GrownSince, CoversResults
<1> QED
  BY <1>4, <1>6, <1>7, <1>8 DEF IInv

(* The least number of a set of naturals, for an argument by induction.    *)
LEMMA LeastNumber ==
  ASSUME NEW S \in SUBSET Nat, NEW m \in S
  PROVE  \E n \in S : \A k \in S : ~(k < n)
<1>1. PICK n \in S : \A k \in S : ~(<<k, n>> \in OpToRel(<, Nat))
  BY NatLessThanWellFounded, WFMin
<1> QED
  BY <1>1 DEF OpToRel

(* Different indices in order, none of them missing, are 0, 1, 2, ...      *)
LEMMA SortedIndices ==
  ASSUME NEW rs \in Seq(ResultRecord),
         \A j, k \in 1 .. Len(rs) : rs[j].index = rs[k].index => j = k,
         \A j, k \in 1 .. Len(rs) : j < k => ~(rs[k].index < rs[j].index),
         \A i \in Indices : \E k \in 1 .. Len(rs) : rs[k].index = i
  PROVE  Len(rs) = Requests /\ \A k \in 1 .. Requests : rs[k].index = k - 1
<1> DEFINE Wrong == {k \in 1 .. Len(rs) : rs[k].index # k - 1}
<1>1. Len(rs) \in Nat /\ Requests \in Nat /\ Requests > 0 /\ Indices = 0 .. Requests - 1
  BY LoadConstants DEF Indices
<1>2. \A k \in 1 .. Len(rs) : rs[k].index \in Indices
  <2>1. \A r \in ResultRecord : r.index \in Indices
    BY DEF ResultRecord
  <2> HIDE DEF ResultRecord
  <2>2. \A k \in 1 .. Len(rs) : rs[k] \in ResultRecord
    OBVIOUS
  <2> QED
    BY <2>1, <2>2
<1>3. \A j, k \in 1 .. Len(rs) : j < k => rs[j].index < rs[k].index
  BY <1>1, <1>2
<1>4. Wrong = {}
  <2>1. SUFFICES ASSUME NEW l \in Wrong PROVE FALSE
    OBVIOUS
  <2>2. PICK k \in Wrong : \A j \in Wrong : ~(j < k)
    <3>1. Wrong \in SUBSET Nat
      BY <1>1
    <3> HIDE DEF Wrong
    <3> QED
      BY <2>1, <3>1, LeastNumber
  <2>3. k \in 1 .. Len(rs) /\ rs[k].index # k - 1
    OBVIOUS
  <2>4. \A j \in 1 .. Len(rs) : j < k => rs[j].index = j - 1
    BY <2>2
  <2>5. rs[k].index > k - 1
    <3> DEFINE x == rs[k].index
               n == Len(rs)
    <3>1. x \in Nat /\ n \in Nat /\ k \in 1 .. n /\ x # k - 1
      BY <1>1, <1>2, <2>3
    <3>2. ASSUME x < k - 1 PROVE FALSE
      <4> HIDE DEF x, n
      <4>1. x + 1 \in 1 .. n /\ x + 1 < k /\ (x + 1) - 1 = x /\ x + 1 # k
        BY ONLY <3>1, <3>2
      <4>2. rs[x + 1].index = (x + 1) - 1
        BY <2>4, <4>1 DEF n
      <4>3. rs[x + 1].index = rs[k].index
        BY ONLY <4>1, <4>2 DEF x
      <4> QED
        BY <2>3, <4>1, <4>3 DEF n
    <3> HIDE DEF x, n
    <3>3. x > k - 1
      BY ONLY <3>1, <3>2
    <3> QED
      BY <3>3 DEF x
  <2>6. k - 1 \in Indices
    <3>1. rs[k].index \in 0 .. Requests - 1 /\ Len(rs) \in Nat /\ k \in 1 .. Len(rs)
      BY <1>1, <1>2, <2>3
    <3>2. k - 1 \in 0 .. Requests - 1
      BY ONLY <1>1, <2>5, <3>1
    <3> QED
      BY ONLY <1>1, <3>2
  <2>7. PICK m \in 1 .. Len(rs) : rs[m].index = k - 1
    BY <2>6
  <2>8. CASE m < k
    BY <1>1, <2>3, <2>4, <2>7, <2>8
  <2>9. CASE m = k
    BY <2>3, <2>7, <2>9
  <2>10. CASE k < m
    BY <1>1, <1>2, <1>3, <2>3, <2>5, <2>7, <2>10
  <2> QED
    BY <1>1, <2>3, <2>8, <2>9, <2>10
<1>5. \A k \in 1 .. Len(rs) : rs[k].index = k - 1
  BY <1>4
<1>6. Len(rs) <= Requests
  BY DistinctResults
<1>7. PICK m \in 1 .. Len(rs) : rs[m].index = Requests - 1
  BY <1>1, SMTT(30)
<1>8. m = Requests
  BY <1>1, <1>5, <1>7
<1> QED
  BY <1>1, <1>5, <1>6, <1>8

LEMMA SummarizePreserves == IInv /\ Summarize => IInv'
<1> SUFFICES ASSUME IInv, Summarize PROVE IInv'
  OBVIOUS
<1> DEFINE n == Len(results)
<1>1. /\ stage = "working" /\ stage' = "after" /\ \A w \in Workers : worker[w] = Done
      /\ report' = [results |-> results', summary |-> Summary(results')]
      /\ loadErr' = (report'.summary.failed > 0)
      /\ UNCHANGED <<metricsVars, exit, jobs, worker, pages, file>>
      /\ UNCHANGED <<registry, server, outcome, reads, page>>
  BY DEF Summarize, metricsVars
<1>2. /\ TypeOK /\ MetricsInv /\ StageInv /\ OnceInv /\ ResultsInv /\ ReportInv /\ DeltaInv
      /\ exit = "none" /\ page["after"] = Blank /\ pages["after"] = NoPage
      /\ Indices \subseteq Nat /\ Requests \in Nat /\ Requests > 0
      /\ Done \notin Indices /\ n \in Nat /\ results \in Seq(ResultRecord)
  BY <1>1, LoadConstants, ResultsAreTyped DEF IInv, StageInv
<1>3. PICK p \in Orders(n) :
        /\ results' = [k \in 1 .. n |-> results[p[k]]]
        /\ \A j, k \in 1 .. n : j < k => ~(results'[k].index < results'[j].index)
  BY DEF Summarize, ByIndex, Sorted
<1>4. /\ \A k \in 1 .. n : p[k] \in 1 .. n
      /\ \A j, k \in 1 .. n : p[j] = p[k] => j = k
      /\ \A j \in 1 .. n : \E k \in 1 .. n : p[k] = j
  BY DEF Orders
<1>5. /\ results' \in Seq(ResultRecord) /\ Len(results') = n
      /\ \A k \in 1 .. n : results'[k] = results[p[k]]
  <2>1. results' \in [1 .. n -> ResultRecord]
    <3> HIDE DEF ResultRecord
    <3>1. \A k \in 1 .. n : results[k] \in ResultRecord
      BY <1>2
    <3> QED
      BY <1>3, <1>4, <3>1
  <2> HIDE DEF ResultRecord
  <2> QED
    BY <1>2, <1>3, <2>1
<1>6. \A w \in Workers : worker[w] \notin Indices
  BY <1>1, <1>2
<1>7. jobs = Requests
  BY <1>1, <1>2, LoadAssumption DEF OnceInv
<1>8. \A i \in Indices : \E k \in 1 .. n : results'[k].index = i
  <2>1. ASSUME NEW i \in Indices PROVE \E k \in 1 .. n : results'[k].index = i
    <3>1. i < jobs
      BY <1>7, LoadConstants
    <3>2. PICK j \in 1 .. n : results[j].index = i
      BY <1>2, <1>6, <3>1 DEF OnceInv
    <3>3. PICK k \in 1 .. n : p[k] = j
      BY <1>4
    <3> QED
      BY <1>5, <3>2, <3>3
  <2> QED
    BY <2>1
<1>9. \A j, k \in 1 .. n : results'[j].index = results'[k].index => j = k
  <2>1. \A j, k \in 1 .. n : results[j].index = results[k].index => j = k
    BY <1>2 DEF OnceInv
  <2>2. ASSUME NEW j \in 1 .. n, NEW k \in 1 .. n, results'[j].index = results'[k].index
        PROVE  j = k
    <3>1. p[j] \in 1 .. n /\ p[k] \in 1 .. n /\ results[p[j]].index = results[p[k]].index
      BY <1>4, <1>5, <2>2
    <3>2. p[j] = p[k]
      BY <2>1, <3>1
    <3> QED
      BY <1>4, <3>2
  <2> QED
    BY <2>2
<1>10. n = Requests /\ \A k \in 1 .. Requests : results'[k].index = k - 1
  <2>1. PICK rs : rs = results'
    OBVIOUS
  <2>2. rs \in Seq(ResultRecord) /\ Len(rs) = n
    BY <1>5, <2>1
  <2>3. /\ \A j, k \in 1 .. n : rs[j].index = rs[k].index => j = k
        /\ \A j, k \in 1 .. n : j < k => ~(rs[k].index < rs[j].index)
        /\ \A i \in Indices : \E k \in 1 .. n : rs[k].index = i
    BY <1>3, <1>8, <1>9, <2>1
  <2> HIDE DEF n, ResultRecord
  <2> QED
    BY <2>1, <2>2, <2>3, SortedIndices
<1>11. MetricsInv'
  BY <1>1, <1>2, MetricsRest
<1>12. TypeOK'
  <2>1. results' \in Seq([index : Indices, status : Statuses, bytes : 0 .. 1, flagged : BOOLEAN])
    BY <1>5 DEF ResultRecord
  <2>2. Len(results') <= Requests
    BY <1>2, <1>5, <1>10
  <2> QED
    BY <1>1, <1>2, <1>11, <2>1, <2>2 DEF TypeOK, MetricsInv
<1>13. OnceInv'
  <2>1. ASSUME NEW k \in 1 .. n PROVE results'[k].index < jobs
    <3>1. p[k] \in 1 .. Len(results) /\ results'[k] = results[p[k]]
      BY <1>4, <1>5
    <3>2. \A m \in 1 .. Len(results) : results[m].index < jobs
      BY <1>2 DEF OnceInv
    <3> QED
      BY ONLY <3>1, <3>2
  <2>2. jobs' = jobs /\ worker' = worker /\ server' = server
    BY <1>1
  <2>3. \A c \in Indices : server[c] # "absent" => c < jobs
    BY <1>2 DEF OnceInv
  <2> HIDE DEF n
  <2> QED
    BY <1>5, <1>6, <1>7, <1>8, <1>9, <2>1, <2>2, <2>3 DEF OnceInv
<1>14. ResultsInv'
  <2>1. Finished' = Finished /\ Good' = Good
    BY <1>1, ServiceFrame
  <2>2. ASSUME NEW k \in 1 .. n
        PROVE  /\ results'[k].status \in {"OK", "Unknown"} => results'[k].index \in Good
               /\ results'[k].status = "failed" => results'[k].index \in Finished
               /\ results'[k].flagged => results'[k].status = "Unknown"
    <3>1. p[k] \in 1 .. Len(results) /\ results'[k] = results[p[k]]
      BY <1>4, <1>5
    <3> QED
      BY <1>2, <3>1 DEF ResultsInv
  <2> QED
    BY <1>5, <2>1, <2>2 DEF ResultsInv
<1>15. report' # NoReport
  <2>1. report'.results = results' /\ NoReport.results = <<>>
    BY <1>1 DEF NoReport
  <2> QED
    BY <1>2, <1>5, <1>10, <2>1
<1>16. ReportInv'
  <2>1. PICK rs : rs = results'
    OBVIOUS
  <2>2. report' = [results |-> rs, summary |-> Summary(rs)] /\ loadErr' = (Summary(rs).failed > 0)
    BY <1>1, <2>1
  <2>3. exit' = "none" /\ pages'["before"] # NoPage
    BY <1>1, <1>2 DEF StageInv
  <2> QED
    BY <1>1, <1>5, <1>10, <2>1, <2>2, <2>3 DEF ReportInv, Summary, Count
<1>17. StageInv'
  BY <1>1, <1>2, <1>6, <1>15 DEF StageInv
<1>18. DeltaInv'
  <2>1. PICK b : b = pages["before"]
    OBVIOUS
  <2>2. b # NoPage => GrownSince(b)'
    BY <1>1, <1>2, <2>1, ServiceFrame DEF DeltaInv
  <2>3. b = pages'["before"] /\ page'["after"] = Blank /\ pages'["after"] = NoPage
    BY <1>1, <1>2, <2>1
  <2> QED
    BY <2>2, <2>3 DEF DeltaInv, GrownSince
<1> QED
  BY <1>11, <1>12, <1>13, <1>14, <1>16, <1>17, <1>18 DEF IInv

LEMMA FetchAfterPreserves == IInv /\ FetchAfter => IInv'
<1> SUFFICES ASSUME IInv, FetchAfter PROVE IInv'
  OBVIOUS
<1>1. /\ stage = "after" /\ stage' = "write"
      /\ UNCHANGED <<registry, server, outcome, reads, exit, jobs, worker, results, report,
                     loadErr, file>>
  BY DEF FetchAfter
<1>2. /\ TypeOK /\ MetricsInv /\ StageInv /\ OnceInv /\ ResultsInv /\ ReportInv /\ DeltaInv
      /\ pages["before"] # NoPage /\ exit = "none"
      /\ "after" \in Scrapes /\ "before" \in Scrapes /\ Scrapes = {"before", "after"}
  BY <1>1, LoadConstants DEF IInv, StageInv
<1>3. OnceInv' /\ ResultsInv'
  BY <1>1, <1>2, OnceFrame, ResultsInvFrame
<1>4. CASE Fetch("after")
  <2>1. /\ page["after"].state = "shown" /\ page' = [page EXCEPT !["after"] = Blank]
        /\ pages' = [pages EXCEPT !["after"] = ParseMetrics(page["after"])]
    BY <1>4 DEF Fetch
  <2>2. MetricsInv'
    BY <1>1, <1>2, <2>1, TakenPageKeeps
  <2>3. page["after"] \in PageRecord /\ page["after"] # Blank
    BY <1>2, <2>1 DEF MetricsInv, PagesInv, Blank
  <2>4. PICK f \in Figures : f = ParseMetrics(page["after"])
    BY <2>3, FiguresOfPage
  <2>5. /\ pages' = [pages EXCEPT !["after"] = f] /\ pages'["after"] = f
        /\ pages'["before"] = pages["before"] /\ f # NoPage
    BY <1>2, <2>1, <2>3, <2>4, FiguresOfPage DEF StageInv
  <2>6. page'["after"] = Blank
    BY <1>2, <2>1 DEF MetricsInv, PagesInv
  <2>7. TypeOK' /\ StageInv' /\ ReportInv'
    BY <1>1, <1>2, <2>2, <2>5 DEF TypeOK, MetricsInv, StageInv, ReportInv
  <2>8. DeltaInv'
    <3>1. PICK b : b = pages["before"]
      OBVIOUS
    <3>2. GrownSince(b)'
      BY <1>1, <1>2, <3>1, ServiceFrame DEF DeltaInv
    <3>3. report # NoReport => CoversResults(b, f)
      BY <1>2, <2>3, <2>4, <3>1 DEF DeltaInv
    <3>4. report # NoReport => CoversResults(b, f)'
      BY <1>1, <3>3, ResultsFrame
    <3>5. b = pages'["before"] /\ report' = report
      BY <1>1, <2>5, <3>1
    <3> QED
      BY <1>2, <2>5, <2>6, <3>1, <3>2, <3>4, <3>5 DEF DeltaInv, GrownSince, CoversResults
  <2> QED
    BY <1>3, <2>2, <2>7, <2>8 DEF IInv
<1>5. CASE NoFetch
  <2>1. UNCHANGED <<registry, server, outcome, reads, page, pages>>
    BY <1>1, <1>5 DEF NoFetch
  <2>2. MetricsInv'
    BY <1>2, <2>1, MetricsRest DEF metricsVars
  <2>3. DeltaInv'
    BY <1>1, <1>2, <2>1, DeltaFrame
  <2>4. TypeOK' /\ StageInv' /\ ReportInv'
    BY <1>1, <1>2, <2>1, <2>2 DEF TypeOK, MetricsInv, StageInv, ReportInv
  <2> QED
    BY <1>3, <2>2, <2>3, <2>4 DEF IInv
<1> QED
  BY <1>4, <1>5 DEF FetchAfter

LEMMA WritePreserves == IInv /\ Write => IInv'
<1> SUFFICES ASSUME IInv, Write PROVE IInv'
  OBVIOUS
<1>1. /\ stage = "write" /\ stage' = "exited" /\ file' \in {"none", "partial", "report"}
      /\ exit' = "success" \/ exit' = "failure"
      /\ exit' = "success" => ~loadErr /\ pages["after"] # NoPage /\ file' = "report"
      /\ UNCHANGED <<metricsVars, jobs, worker, results, report, loadErr, pages>>
      /\ UNCHANGED <<registry, server, outcome, reads, page>>
  BY DEF Write, metricsVars
<1>2. /\ TypeOK /\ MetricsInv /\ StageInv /\ OnceInv /\ ResultsInv /\ ReportInv /\ DeltaInv
      /\ \A w \in Workers : worker[w] \notin Indices
      /\ ~loadErr => report # NoReport
  BY <1>1 DEF IInv, StageInv
<1>3. MetricsInv'
  BY <1>1, <1>2, MetricsRest
<1>4. OnceInv' /\ ResultsInv'
  BY <1>1, <1>2, OnceFrame, ResultsInvFrame
<1>5. DeltaInv'
  BY <1>1, <1>2, DeltaFrame
<1>6. TypeOK' /\ ReportInv' /\ StageInv'
  BY <1>1, <1>2, <1>3 DEF TypeOK, ReportInv, MetricsInv, StageInv
<1> QED
  BY <1>3, <1>4, <1>5, <1>6 DEF IInv

LEMMA StutterPreserves == IInv /\ UNCHANGED vars => IInv'
<1> SUFFICES ASSUME IInv, UNCHANGED vars PROVE IInv'
  OBVIOUS
<1>1. /\ UNCHANGED metricsVars /\ UNCHANGED <<registry, server, outcome, reads, page>>
      /\ UNCHANGED <<stage, exit, jobs, worker, results, report, loadErr, pages, file>>
  BY DEF vars, metricsVars, toolVars
<1>2. TypeOK /\ MetricsInv /\ StageInv /\ OnceInv /\ ResultsInv /\ ReportInv /\ DeltaInv
  BY DEF IInv
<1>3. MetricsInv'
  BY <1>1, <1>2, MetricsRest
<1>4. OnceInv' /\ ResultsInv' /\ DeltaInv'
  BY <1>1, <1>2, OnceFrame, ResultsInvFrame, DeltaFrame
<1>5. TypeOK' /\ ReportInv' /\ StageInv'
  BY <1>1, <1>2, <1>3 DEF TypeOK, ReportInv, MetricsInv, StageInv
<1> QED
  BY <1>3, <1>4, <1>5 DEF IInv

LEMMA StepPreserves == IInv /\ [Next]_vars => IInv'
<1> SUFFICES ASSUME IInv, [Next]_vars PROVE IInv'
  OBVIOUS
<1>1. CASE Run
  BY <1>1, FetchBeforePreserves, RejectOptionsPreserves, StartWorkersPreserves, SummarizePreserves,
     FetchAfterPreserves, WritePreserves DEF Run
<1>2. CASE Serve
  <2>1. UNCHANGED toolVars
    BY <1>2 DEF Serve
  <2>2. ASSUME NEW c \in Calls, c \in Indices => c < jobs, Call(c) PROVE IInv'
    BY <2>1, <2>2, CallPreserves
  <2>3. CASE stage \in Scrapes /\ Scrape(stage)
    BY <2>1, <2>3, ScrapePreserves
  <2> QED
    BY <1>2, <2>2, <2>3 DEF Serve
<1>3. ASSUME NEW w \in Workers, Work(w) PROVE IInv'
  BY <1>3, WorkPreserves
<1>4. CASE UNCHANGED vars
  BY <1>4, StutterPreserves
<1> QED
  BY <1>1, <1>2, <1>3, <1>4 DEF Next
-----------------------------------------------------------------------------
(* Whatever the clients, the network and the tool's workers do, the load   *)
(* test and the service it runs against stay within the invariant.         *)
THEOREM LoadInv == Spec => []IInv
<1>1. Init => IInv
  BY LoadStarts
<1>2. IInv /\ [Next]_vars => IInv'
  BY StepPreserves
<1> QED
  BY <1>1, <1>2, PTL DEF Spec

(* The variables of the tool and of the registry keep their types.         *)
THEOREM LoadIsTyped == Spec => []TypeOK
<1>1. IInv => TypeOK
  BY DEF IInv
<1> QED
  BY <1>1, LoadInv, PTL

(* Every page of metrics shows each call at most once and counters that    *)
(* fit each other, for any number of calls and of pages being put together *)
(* beside them.                                                            *)
THEOREM EveryPageAddsUp == Spec => []PagesAddUp
<1>1. IInv => PagesAddUp
  BY PagesDoAddUp DEF IInv
<1> QED
  BY <1>1, LoadInv, PTL

(* What the report counts, as sets of results.                             *)
LEMMA SummaryOfResults ==
  ASSUME IInv, report # NoReport
  PROVE  /\ report.results = results /\ report.summary = Summary(results)
         /\ Len(results) = Requests /\ Requests \in Nat
         /\ report.summary.passed = Cardinality(Counted({"OK"}))
         /\ report.summary.passed \in 0 .. Requests
         /\ report.summary.failed = Requests - report.summary.passed
         /\ report.summary.bytes \in Nat /\ report.summary.bytes <= Cardinality(Counted({"OK"}))
         /\ report.summary.validation \in Nat
         /\ report.summary.validation <= Cardinality(Counted({"Unknown"}))
<1>1. /\ report = [results |-> results, summary |-> Summary(results)]
      /\ Len(results) = Requests /\ Requests \in Nat
  BY LoadConstants DEF IInv, ReportInv
<1> DEFINE sized == {k \in 1 .. Len(results) : results[k].status = "OK" /\ results[k].bytes = 1}
           invalid == {k \in 1 .. Len(results) : results[k].status # "OK" /\ results[k].flagged}
           passed == {k \in 1 .. Len(results) : results[k].status = "OK"}
<1>2. /\ Summary(results).passed = Cardinality(passed)
      /\ Summary(results).failed = Len(results) - Cardinality(passed)
      /\ Summary(results).bytes = Cardinality(sized)
      /\ Summary(results).validation = Cardinality(invalid)
  BY DEF Summary, Count
<1>3. passed = Counted({"OK"})
  BY DEF Counted
<1>4. /\ sized \in SUBSET passed /\ invalid \in SUBSET Counted({"Unknown"})
      /\ passed \in SUBSET (1 .. Len(results)) /\ Counted({"Unknown"}) \in SUBSET (1 .. Len(results))
  BY DEF IInv, ResultsInv, Counted
<1>5. IsFiniteSet(1 .. Requests) /\ Cardinality(1 .. Requests) = Requests
  BY <1>1, Intervals
<1> HIDE DEF sized, invalid, passed
<1>6. /\ IsFiniteSet(passed) /\ Cardinality(passed) \in Nat /\ Cardinality(passed) <= Requests
      /\ IsFiniteSet(Counted({"Unknown"}))
  <2>1. passed \in SUBSET (1 .. Requests) /\ Counted({"Unknown"}) \in SUBSET (1 .. Requests)
    BY ONLY <1>1, <1>4
  <2>2. IsFiniteSet(passed) /\ Cardinality(passed) <= Cardinality(1 .. Requests)
    BY ONLY <1>5, <2>1, FS_Subset
  <2>3. IsFiniteSet(Counted({"Unknown"}))
    BY ONLY <1>5, <2>1, FS_Subset
  <2>4. Cardinality(passed) \in Nat
    BY ONLY <2>2, FS_CardinalityType
  <2> QED
    BY ONLY <1>5, <2>2, <2>3, <2>4
<1>7. /\ Cardinality(sized) \in Nat /\ Cardinality(sized) <= Cardinality(passed)
      /\ Cardinality(invalid) \in Nat /\ Cardinality(invalid) <= Cardinality(Counted({"Unknown"}))
  BY <1>4, <1>6, FS_Subset, FS_CardinalityType
<1> QED
  BY <1>1, <1>2, <1>3, <1>6, <1>7

(* Whatever other clients do between the two pages, and however calls,     *)
(* answers and workers interleave, the difference of the pages covers      *)
(* every answered call of the load, for each was recorded before its       *)
(* answer left.                                                            *)
THEOREM DifferenceCoversTheLoad == Spec => []DeltaCoversAnswers
<1>1. ASSUME IInv PROVE DeltaCoversAnswers
  <2> SUFFICES ASSUME report # NoReport, pages["after"] # NoPage
               PROVE  LET delta    == DifferenceMetrics(pages["before"], pages["after"])
                          answered == Count(report.results,
                                            LAMBDA r : r.status \in {"OK", "Unknown", "failed"})
                          good     == Count(report.results, LAMBDA r : r.status \in {"OK", "Unknown"})
                      IN  /\ delta.requests >= answered
                          /\ delta.dependencies >= good /\ delta.calculations >= good
                          /\ delta.candles >= good
                          /\ delta.bytes >= report.summary.bytes
    BY DEF DeltaCoversAnswers
  <2>1. report.results = results /\ Len(results) = Requests
    BY <1>1, SummaryOfResults
  <2>2. /\ Count(report.results, LAMBDA r : r.status \in {"OK", "Unknown", "failed"})
              = Cardinality(Counted({"OK", "Unknown", "failed"}))
        /\ Count(report.results, LAMBDA r : r.status \in {"OK", "Unknown"})
              = Cardinality(Counted({"OK", "Unknown"}))
    BY <2>1 DEF Count, Counted
  <2>3. PICK b \in Figures, a \in Figures : b = pages["before"] /\ a = pages["after"]
    BY <1>1, LoadConstants DEF IInv, StageInv, ReportInv
  <2>4. CoversResults(b, a)
    BY <1>1, <2>3 DEF IInv, DeltaInv
  <2>5. PICK delta : delta = DifferenceMetrics(b, a)
    OBVIOUS
  <2>6. /\ delta.requests = a.requests - b.requests
        /\ delta.dependencies = a.dependencies - b.dependencies
        /\ delta.calculations = a.calculations - b.calculations
        /\ delta.candles = a.candles - b.candles
        /\ delta.bytes = a.bytes - b.bytes
    <3>1. DOMAIN a = {"requests", "dependencies", "calculations", "candles", "responses", "bytes",
                      "active"}
      BY DEF Figures
    <3> QED
      BY <2>5, <3>1 DEF DifferenceMetrics
  <2>7. /\ a.requests \in Nat /\ a.dependencies \in Nat /\ a.calculations \in Nat
        /\ a.candles \in Nat /\ a.bytes \in Nat
        /\ b.requests \in Nat /\ b.dependencies \in Nat /\ b.calculations \in Nat
        /\ b.candles \in Nat /\ b.bytes \in Nat
    BY DEF Figures
  <2>8. /\ report.summary.bytes \in Nat /\ report.summary.bytes <= Cardinality(Counted({"OK"}))
    BY <1>1, SummaryOfResults
  <2>9. /\ Cardinality(Counted({"OK", "Unknown", "failed"})) \in Nat
        /\ Cardinality(Counted({"OK", "Unknown"})) \in Nat
        /\ Cardinality(Counted({"OK"})) \in Nat
    <3>2. IsFiniteSet(1 .. Len(results))
      BY <2>1, Intervals, LoadConstants
    <3>1. \A statuses : Counted(statuses) \in SUBSET (1 .. Len(results))
      BY DEF Counted
    <3> QED
      BY <3>1, <3>2, FS_Subset, FS_CardinalityType
  <2>10. /\ delta.requests >= Cardinality(Counted({"OK", "Unknown", "failed"}))
         /\ delta.dependencies >= Cardinality(Counted({"OK", "Unknown"}))
         /\ delta.calculations >= Cardinality(Counted({"OK", "Unknown"}))
         /\ delta.candles >= Cardinality(Counted({"OK", "Unknown"}))
         /\ delta.bytes >= report.summary.bytes
    BY <2>4, <2>6, <2>7, <2>8, <2>9 DEF CoversResults
  <2> QED
    BY <2>2, <2>3, <2>5, <2>10
<1> QED
  BY <1>1, LoadInv, PTL
-----------------------------------------------------------------------------
(* The places of a list with no more than a bound.                         *)
UpTo(s, n, e) == {k \in 1 .. n : s[k] <= e}

(* Sorting a list moves them and keeps their number.                       *)
LEMMA SortingKeepsCounts ==
  ASSUME NEW n \in Nat, NEW latencies, NEW sorted, NEW o \in Orders(n), NEW e,
         \A k \in 1 .. n : sorted[k] = latencies[o[k]]
  PROVE  Cardinality(UpTo(latencies, n, e)) = Cardinality(UpTo(sorted, n, e))
<1> DEFINE C == UpTo(latencies, n, e)
           D == UpTo(sorted, n, e)
           f == [k \in D |-> o[k]]
<1>1. /\ \A k \in 1 .. n : o[k] \in 1 .. n
      /\ \A j, k \in 1 .. n : o[j] = o[k] => j = k
      /\ \A j \in 1 .. n : \E k \in 1 .. n : o[k] = j
  BY DEF Orders
<1>2. f \in Injection(D, C)
  BY <1>1 DEF Injection, IsInjective, UpTo
<1>3. f \in Surjection(D, C)
  <2>1. f \in [D -> C]
    BY <1>1 DEF UpTo
  <2>2. ASSUME NEW j \in C PROVE \E k \in D : f[k] = j
    BY <1>1, SMTT(30) DEF UpTo
  <2> QED
    BY <2>1, <2>2 DEF Surjection
<1>4. IsFiniteSet(D)
  <2>1. IsFiniteSet(1 .. n)
    BY Intervals
  <2>2. D \in SUBSET (1 .. n)
    BY DEF UpTo
  <2> HIDE DEF D
  <2> QED
    BY <2>1, <2>2, FS_Subset
<1> HIDE DEF C, D, f
<1>5. Cardinality(C) = Cardinality(D)
  BY <1>2, <1>3, <1>4, FS_Bijection DEF Bijection, ExistsBijection
<1> QED
  BY <1>5 DEF C, D

(* percentile gives the nearest rank, for a list of any length.            *)
LEMMA PercentileIsNearestRank ==
  ASSUME NEW n \in Nat \ {0}, NEW latencies \in [1 .. n -> Nat], NEW p \in 1 .. 100,
         NEW sorted \in Ascending(latencies)
  PROVE  IsNearestRank(Percentile(sorted, p), latencies, p)
<1>1. latencies \in Seq(Nat) /\ Len(latencies) = n
  OBVIOUS
<1>2. PICK o \in Orders(n) :
        /\ sorted = [k \in 1 .. n |-> latencies[o[k]]]
        /\ \A j, k \in 1 .. n : j < k => ~(sorted[k] < sorted[j])
  BY <1>1 DEF Ascending, Sorted
<1>3. /\ \A k \in 1 .. n : o[k] \in 1 .. n
      /\ \A j \in 1 .. n : \E k \in 1 .. n : o[k] = j
  BY DEF Orders
<1>4. /\ \A k \in 1 .. n : sorted[k] = latencies[o[k]] /\ sorted[k] \in Nat
      /\ \A j, k \in 1 .. n : j <= k => sorted[j] <= sorted[k]
  <2>1. \A k \in 1 .. n : sorted[k] = latencies[o[k]]
    BY <1>2
  <2>2. \A k \in 1 .. n : sorted[k] \in Nat
    BY <1>3, <2>1
  <2>3. ASSUME NEW j \in 1 .. n, NEW k \in 1 .. n, j <= k PROVE sorted[j] <= sorted[k]
    <3>1. CASE j = k
      BY <2>2, <3>1
    <3>2. CASE j < k
      <4>1. ~(sorted[k] < sorted[j])
        BY <1>2, <3>2
      <4>2. sorted[j] \in Nat /\ sorted[k] \in Nat
        BY <2>2
      <4> QED
        BY ONLY <4>1, <4>2
    <3> QED
      BY <2>3, <3>1, <3>2
  <2> QED
    BY <2>1, <2>2, <2>3
<1>5. sorted \in Seq(Nat) /\ Len(sorted) = n
  BY <1>2, <1>4
<1>6. PICK m \in Nat : m = n * p /\ m = p * n /\ m >= 1 /\ m <= 100 * n
  OBVIOUS
<1>7. PICK r \in 1 .. n : r = Rank(n, p) /\ 100 * r >= m /\ 100 * (r - 1) < m
  <2>1. PICK q \in Int : q = (m + 99) \div 100 /\ 100 * q <= m + 99 /\ m + 99 < 100 * (q + 1)
    OBVIOUS
  <2>2. q = Rank(n, p)
    BY <1>6, <2>1 DEF Rank
  <2> QED
    BY <1>6, <2>1, <2>2
<1>8. Percentile(sorted, p) = sorted[r]
  BY <1>5, <1>7 DEF Percentile
<1> DEFINE D(e) == UpTo(sorted, n, e)
           Reaching == {e \in Range(latencies) : 100 * Cardinality(D(e)) >= m}
<1>9. \A e : /\ IsFiniteSet(D(e)) /\ Cardinality(D(e)) \in Nat
              /\ Count(latencies, LAMBDA l : l <= e) = Cardinality(D(e))
  <2>1. ASSUME NEW e
        PROVE  /\ IsFiniteSet(D(e)) /\ Cardinality(D(e)) \in Nat
               /\ Count(latencies, LAMBDA l : l <= e) = Cardinality(D(e))
    <3>1. Count(latencies, LAMBDA l : l <= e) = Cardinality(UpTo(latencies, n, e))
      BY <1>1 DEF Count, UpTo
    <3>2. Cardinality(UpTo(latencies, n, e)) = Cardinality(D(e))
      <4>1. n \in Nat /\ o \in Orders(n) /\ \A k \in 1 .. n : sorted[k] = latencies[o[k]]
        BY <1>4
      <4> QED
        BY ONLY <4>1, SortingKeepsCounts
    <3>3. D(e) \in SUBSET (1 .. n) /\ IsFiniteSet(1 .. n)
      BY Intervals DEF UpTo
    <3> HIDE DEF D
    <3>4. IsFiniteSet(D(e)) /\ Cardinality(D(e)) \in Nat
      BY ONLY <3>3, FS_Subset, FS_CardinalityType
    <3> QED
      BY <3>1, <3>2, <3>4
  <2> QED
    BY <2>1
<1>10. /\ \A e \in Range(latencies) : e \in Nat
       /\ \A k \in 1 .. n : sorted[k] \in Range(latencies)
  <2>1. Range(latencies) = {latencies[k] : k \in 1 .. n}
    BY DEF Range
  <2>2. \A k \in 1 .. n : latencies[k] \in Nat
    OBVIOUS
  <2>3. \A k \in 1 .. n : sorted[k] \in {latencies[j] : j \in 1 .. n}
    <3>1. ASSUME NEW k \in 1 .. n PROVE sorted[k] \in {latencies[j] : j \in 1 .. n}
      <4>1. o[k] \in 1 .. n /\ sorted[k] = latencies[o[k]]
        BY <1>3, <1>4
      <4> QED
        BY <4>1
    <3> QED
      BY <3>1
  <2> QED
    BY <2>1, <2>2, <2>3
<1>11. sorted[r] \in Reaching
  <2>1. 1 .. r \subseteq D(sorted[r])
    <3>1. ASSUME NEW k \in 1 .. r PROVE k \in 1 .. n /\ sorted[k] <= sorted[r]
      <4>1. k \in 1 .. n /\ k <= r
        BY <1>7
      <4> QED
        BY <1>4, <4>1
    <3> QED
      BY <3>1 DEF UpTo
  <2>2. Cardinality(1 .. r) = r
    BY Intervals
  <2>3. r <= Cardinality(D(sorted[r]))
    <3> QED
      BY <1>9, <2>1, <2>2, FS_Subset
  <2>4. 100 * Cardinality(D(sorted[r])) >= m
    <3>1. PICK c \in Nat : c = Cardinality(D(sorted[r]))
      BY <1>9
    <3> QED
      BY <1>7, <2>3, <3>1
  <2> QED
    BY <1>10, <2>4
<1>12. ASSUME NEW e \in Reaching PROVE sorted[r] <= e
  <2>1. SUFFICES ASSUME e < sorted[r] PROVE FALSE
    BY <1>4, <1>10
  <2>2. D(e) \subseteq 1 .. (r - 1)
    <3>1. ASSUME NEW k \in D(e) PROVE k \in 1 .. (r - 1)
      <4>1. k \in 1 .. n /\ sorted[k] <= e /\ sorted[k] \in Nat /\ sorted[r] \in Nat /\ e \in Nat
        BY <1>4, <1>10 DEF UpTo
      <4>2. ~(sorted[r] <= sorted[k])
        BY <2>1, <4>1
      <4>3. ~(r <= k)
        BY <1>4, <4>1, <4>2
      <4> QED
        BY <4>1, <4>3
    <3> QED
      BY <3>1
  <2>3. IsFiniteSet(1 .. (r - 1)) /\ Cardinality(1 .. (r - 1)) = r - 1
    BY Intervals
  <2>4. Cardinality(D(e)) <= r - 1
    <3> QED
      BY <2>2, <2>3, FS_Subset
  <2>5. 100 * Cardinality(D(e)) >= m
    OBVIOUS
  <2>6. PICK c \in Nat : c = Cardinality(D(e))
    BY <1>9
  <2> QED
    BY <1>7, <2>4, <2>5, <2>6, SMTT(30)
<1>13. \A e \in Reaching : e \in Nat
  BY <1>10
<1>14. Min(Reaching) = sorted[r]
  <2> HIDE DEF Reaching
  <2> QED
    BY <1>11, <1>12, <1>13 DEF Min
<1>15. {e \in Range(latencies) :
          100 * Count(latencies, LAMBDA l : l <= e) >= p * Len(latencies)} = Reaching
  BY <1>1, <1>6, <1>9
<1> HIDE DEF Reaching
<1> QED
  BY <1>8, <1>14, <1>15 DEF IsNearestRank

LEMMA PercentilesHold == PercentilesAreNearestRanks
<1> SUFFICES ASSUME NEW n \in 1 .. 4, NEW latencies \in [1 .. n -> 1 .. n],
                    NEW p \in {25, 50, 95, 99}, NEW sorted \in Ascending(latencies)
             PROVE  IsNearestRank(Percentile(sorted, p), latencies, p)
  BY DEF PercentilesAreNearestRanks
<1>1. n \in Nat \ {0} /\ p \in 1 .. 100 /\ latencies \in [1 .. n -> Nat]
  OBVIOUS
<1> QED
  BY <1>1, PercentileIsNearestRank

(* For any number of calls and workers, and whichever worker ran which     *)
(* call when: a report names each call once, in order, passes only what    *)
(* the service finished OK, and the tool succeeds only with all passed.    *)
THEOREM ReportTellsTheTruth == Spec => []ReportIsExact
<1>1. ASSUME IInv PROVE ReportIsExact
  <2>1. /\ MetricsInv /\ StageInv /\ OnceInv /\ ResultsInv /\ ReportInv /\ DeltaInv /\ TypeOK
    BY <1>1 DEF IInv
  <2>2. ASSUME report # NoReport
        PROVE  LET rs == report.results
                   s  == report.summary
               IN  /\ [k \in DOMAIN rs |-> rs[k].index] = [k \in 1 .. Requests |-> k - 1]
                   /\ \A r \in Range(rs) :
                        r.status \in {"OK", "Unknown"} =>
                          server[r.index] = "finished" /\ outcome[r.index].status = "OK"
                   /\ s.passed + s.failed = Requests
                   /\ s.bytes <= responseBytes.sum
                   /\ s.validation <= Count(rs, LAMBDA r : r.status = "Unknown")
                   /\ loadErr <=> s.passed < Requests
    <3>1. /\ report.results = results /\ report.summary = Summary(results)
          /\ Len(results) = Requests /\ Requests \in Nat
          /\ report.summary.passed \in 0 .. Requests
          /\ report.summary.failed = Requests - report.summary.passed
          /\ report.summary.bytes \in Nat /\ report.summary.bytes <= Cardinality(Counted({"OK"}))
          /\ report.summary.validation <= Cardinality(Counted({"Unknown"}))
      BY <1>1, <2>2, SummaryOfResults
    <3>2. results \in Seq(ResultRecord) /\ DOMAIN results = 1 .. Requests
      BY <2>1, <3>1, ResultsAreTyped
    <3>3. \A k \in 1 .. Requests : results[k].index = k - 1
      BY <2>1, <2>2 DEF ReportInv
    <3>4. [k \in DOMAIN results |-> results[k].index] = [k \in 1 .. Requests |-> k - 1]
      BY <3>2, <3>3
    <3>5. ASSUME NEW r \in Range(results), r.status \in {"OK", "Unknown"}
          PROVE  server[r.index] = "finished" /\ outcome[r.index].status = "OK"
      <4>1. PICK k \in 1 .. Len(results) : r = results[k]
        BY <3>1, <3>2 DEF Range
      <4>2. r.index \in Good
        BY <2>1, <3>5, <4>1 DEF ResultsInv
      <4> QED
        BY <4>2 DEF Good
    <3>6. report.summary.passed + report.summary.failed = Requests
      BY <3>1
    <3>7. report.summary.bytes <= responseBytes.sum
      <4>1. PICK b \in Figures : b = pages["before"] /\ GrownSince(b)
        <5>1. pages["before"] # NoPage
          BY <2>1, <2>2 DEF ReportInv
        <5> QED
          BY <2>1, <5>1, LoadConstants DEF StageInv, DeltaInv
      <4>2. responseBytes.sum >= b.bytes + Cardinality(Counted({"OK"})) /\ responseBytes.sum \in Nat
        BY <2>1, <4>1, ResultsAreCounted, CountersAreNumbers DEF MetricsInv
      <4>3. b.bytes \in Nat
        BY DEF Figures
      <4>4. Cardinality(Counted({"OK"})) \in Nat
        <5>1. Counted({"OK"}) \in SUBSET (1 .. Len(results)) /\ IsFiniteSet(1 .. Len(results))
          BY <3>1, Intervals DEF Counted
        <5> QED
          BY <5>1, FS_Subset, FS_CardinalityType
      <4> QED
        BY <3>1, <4>2, <4>3, <4>4
    <3>8. Count(results, LAMBDA r : r.status = "Unknown") = Cardinality(Counted({"Unknown"}))
      <4>1. {k \in 1 .. Len(results) : results[k].status = "Unknown"} = Counted({"Unknown"})
        BY DEF Counted
      <4> QED
        BY <4>1 DEF Count
    <3>9. loadErr <=> report.summary.passed < Requests
      <4>1. loadErr <=> report.summary.failed > 0
        BY <2>1, <2>2, <3>1 DEF ReportInv
      <4>2. report.summary.failed > 0 <=> report.summary.passed < Requests
        BY <3>1
      <4> QED
        BY <4>1, <4>2
    <3> QED
      BY <3>1, <3>4, <3>5, <3>6, <3>7, <3>8, <3>9
  <2>3. ASSUME exit = "success"
        PROVE  /\ report # NoReport /\ report.summary.passed = Requests
               /\ pages["after"] # NoPage
               /\ file = "report"
    <3>1. report # NoReport /\ ~loadErr /\ pages["after"] # NoPage /\ file = "report"
      BY <2>1, <2>3 DEF ReportInv
    <3>2. /\ loadErr <=> report.summary.failed > 0
          /\ report.summary.failed = Requests - report.summary.passed
          /\ report.summary.passed \in 0 .. Requests /\ Requests \in Nat
      BY <1>1, <2>1, <3>1, SummaryOfResults DEF ReportInv
    <3>3. ~(report.summary.failed > 0)
      BY <3>1, <3>2
    <3> QED
      BY <3>1, <3>2, <3>3
  <2> QED
    BY <2>2, <2>3, PercentilesHold DEF ReportIsExact
<1> QED
  BY <1>1, LoadInv, PTL
=============================================================================
