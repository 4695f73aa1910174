----------------------------- MODULE MC_Session -----------------------------
(* The Session with two transactions, one of each response type, two      *)
(* components' type ids, and one channel drop (so one reconnect).          *)
EXTENDS Session

CONSTANTS ty1, ty2

MCTrx == {1, 2}
MCServiceTypes == {ty1, ty2}
MCRespType == [t \in MCTrx |-> IF t = 1 THEN ty1 ELSE ty2]

=============================================================================
