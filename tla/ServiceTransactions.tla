------------------------- MODULE ServiceTransactions -------------------------
(***************************************************************************)
(* What the client Session promises the service components that send       *)
(* transactions through it (spec.md 4.4, 4.5): a transaction is issued     *)
(* once and is then outstanding; an outstanding transaction is either      *)
(* delivered back to its component, carrying the response to its own       *)
(* request, or abandoned (timed out, or no component takes it).  Nothing   *)
(* is delivered that is not outstanding, and a transaction is delivered at *)
(* most once per issue.                                                    *)
(***************************************************************************)
CONSTANTS Trx

VARIABLES
    outstanding,  \* transactions issued and neither delivered nor abandoned
    delivered     \* [trx, resp]: transaction trx handed back with resp's response

stVars == <<outstanding, delivered>>

STInit == outstanding = {} /\ delivered = {}

Issue(t) ==
    /\ t \notin outstanding
    /\ outstanding' = outstanding \cup {t}
    /\ UNCHANGED delivered

Deliver(t) ==
    /\ t \in outstanding
    /\ outstanding' = outstanding \ {t}
    /\ delivered' = delivered \cup {[trx |-> t, resp |-> t]}

Abandon(t) ==
    /\ t \in outstanding
    /\ outstanding' = outstanding \ {t}
    /\ UNCHANGED delivered

STNext == \E t \in Trx : Issue(t) \/ Deliver(t) \/ Abandon(t)

STSpec == STInit /\ [][STNext]_stVars

=============================================================================
