------------------------ MODULE MCActiveInstruments ------------------------
(* Small instances of ActiveInstruments: two symbols, days of two seconds. *)
EXTENDS ActiveInstruments

TwoSeconds == [seconds |-> 2, anchor |-> 0]
OneMonth == <<0>>
Thresholds == {Absent, 0, 1}

EveryRequest ==
  [named : {TRUE}, plain : {TRUE}, minVolume : {Absent, 1}, minTrades : Thresholds,
   minNATR : {Absent, 1}, period : {Absent}]
  \cup [named : BOOLEAN, plain : BOOLEAN, minVolume : {Absent}, minTrades : {0},
        minNATR : {Absent, 0}, period : {Absent, 0, 1, 2, 3}]

Rows == [symbol : {1, 2}, own : {TRUE}, trading : BOOLEAN]
        \cup [symbol : {1}, own : {FALSE}, trading : {TRUE}]
EveryCatalog == {<<>>} \cup {<<a>> : a \in Rows} \cup {<<a, b>> : a, b \in Rows}

Stats == [symbol : {1, 2}, own : {TRUE}, volume : {0, 1}, trades : {Absent, 0, 1}]
         \cup [symbol : {3}, own : {FALSE}, volume : {1}, trades : {1}]
EverySnapshot == {<<>>} \cup {<<a>> : a \in Stats} \cup {<<a, b>> : a, b \in Stats}

NATRRequest ==
  {[named |-> TRUE, plain |-> TRUE, minVolume |-> Absent, minTrades |-> 0,
    minNATR |-> 1, period |-> 1]}
FewSnapshots == {<<>>} \cup {<<a>> : a \in Stats}

FailureKinds == {"incomplete_data", "market_data_unavailable"}
=============================================================================
