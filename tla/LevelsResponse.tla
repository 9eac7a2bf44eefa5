--------------------------- MODULE LevelsResponse ---------------------------
(***************************************************************************)
(* GetLevels as its callers and the release checks see it: the result of   *)
(* Zones, mapped by Server.GetLevels.                                      *)
(***************************************************************************)
EXTENDS Zones

Responses == INSTANCE Response

(* mapLevelsResponse, as analysisCase of the release checks takes it.      *)
LevelsView ==
  LET candles == Responses!MapCandles(request.series)
  IN  [candles    |-> candles,
       extrema    |-> Responses!MapExtrema(points, candles, request.extrema.source),
       zones      |-> [k \in DOMAIN zones |-> Responses!MapZone(zones[k])],
       source     |-> request.extrema.source,
       method     |-> request.extrema.method,
       minTouches |-> request.minTouches]

(***************************************************************************)
(* Every result of GetLevels has a response, and the response passes the   *)
(* release checks (releasevalidation/runner.go, validateResult): what it   *)
(* says of its points, zones and touches can be read off its own candles,  *)
(* text for text, whatever the order the points were sorted and grouped in.*)
(* Its extrema are those of GetExtrema with the same settings: the ATR     *)
(* sequence of the zones may save work, but not change a point.            *)
(***************************************************************************)
ResponsePassesChecks ==
  phase = "done" =>
    /\ Responses!Mappable(points, LevelsView.candles)
    /\ Responses!ValidResult(LevelsView)
    /\ points = Detection!DetectExtrema(request.series, request.extrema, Detection!NoSequence)
=============================================================================
