----------------------- MODULE MC_MonitoredItemService -----------------------
(* MonitoredItemService with two transaction objects of two response types, *)
(* each usable for two calls.                                              *)
EXTENDS MonitoredItemService

CONSTANTS ty1, ty2

MCTrx == {1, 2}
MCServiceTypes == {ty1, ty2}
MCRespType == [t \in MCTrx |-> IF t = 1 THEN ty1 ELSE ty2]

=============================================================================
