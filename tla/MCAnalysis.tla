----------------------------- MODULE MCAnalysis -----------------------------
(* Small instances of Analysis: ten instants, four months, slots of two    *)
(* and of three seconds, the latter anchored at one.                       *)
EXTENDS Analysis

Even  == [seconds |-> 2, anchor |-> 0]
Week  == [seconds |-> 3, anchor |-> 1]
Month == [seconds |-> 0, anchor |-> 0]

FourMonths == <<0, 3, 5, 8>>

ARequest == [settings |-> "parsed", needs |-> 1, named |-> TRUE,
             interval |-> Even, to |-> 5, count |-> 1]

EveryRequest ==
  [settings : {"parsed"}, needs : {1, 2}, named : {TRUE},
   interval : {Even, Week, Month}, to : -1 .. 10, count : 0 .. 3]
  \cup {[ARequest EXCEPT !.settings = "malformed"], [ARequest EXCEPT !.named = FALSE]}

Slots == {<<0, 2>>, <<2, 4>>, <<4, 6>>, <<6, 8>>, <<1, 4>>, <<4, 7>>, <<0, 3>>, <<3, 5>>, <<5, 8>>}

Good(slot) == [parses |-> TRUE, sound |-> TRUE, open |-> slot[1], close |-> slot[2]]

Candles ==
  {Good(slot) : slot \in Slots \cup {<<2, 5>>}}
  \cup {[Good(<<2, 4>>) EXCEPT !.parses = FALSE], [Good(<<2, 4>>) EXCEPT !.sound = FALSE]}

Series == {<<>>} \cup {<<a>> : a \in Candles} \cup {<<a, b>> : a, b \in Candles}
          \cup {<<Good(<<0, 2>>), Good(<<2, 4>>), Good(<<4, 6>>)>>,
                <<Good(<<0, 3>>), Good(<<3, 5>>), Good(<<5, 8>>)>>}

EveryAnswer ==
  [matches : {TRUE}, candles : Series]
  \cup [matches : {FALSE}, candles : {<<a>> : a \in Candles}]

(* All of gRPC's codes but OK.                                             *)
EveryCode ==
  {"Canceled", "Unknown", "InvalidArgument", "DeadlineExceeded", "NotFound", "AlreadyExists",
   "PermissionDenied", "ResourceExhausted", "FailedPrecondition", "Aborted", "OutOfRange",
   "Unimplemented", "Internal", "Unavailable", "DataLoss", "Unauthenticated"}
=============================================================================
