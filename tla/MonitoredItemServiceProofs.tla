--------------------- MODULE MonitoredItemServiceProofs ---------------------
(***************************************************************************)
(* Proofs about the MonitoredItemService composed with the client Session *)
(* (module MonitoredItemService): a sendSync caller is released only by   *)
(* the response of its own call, for every set of transactions, number of *)
(* uses, reconnects and server behaviour.                                 *)
(***************************************************************************)
EXTENDS MonitoredItemService, TLAPS

(***************************************************************************)
(* The strengthening of SyncReturnsOwnResponse.  A caller blocked in      *)
(* sendSync holds its transaction busy, so no other call can reuse the    *)
(* object and clear its answer; it set the sync() flag, which nothing      *)
(* clears, so receive signals its condition rather than calling the       *)
(* callback; and its condition is true only once receive has had the     *)
(* response of the current call, since sendSync's conditionInit() reset   *)
(* the one an earlier call left.                                          *)
(***************************************************************************)
WaitInv ==
    /\ waiting \subseteq busy
    /\ waiting \subseteq sync
    /\ \A t \in waiting : t \in cond => t \in answered

\* No caller is blocked initially.
LEMMA InitWaitInv == ServiceInit => WaitInv
BY DEF ServiceInit, WaitInv

\* Every step of the session and of the service keeps WaitInv.
LEMMA WaitInvStep == WaitInv /\ [ComposedNext]_allVars => WaitInv'
<1> SUFFICES ASSUME WaitInv, [ComposedNext]_allVars PROVE WaitInv'
    OBVIOUS
<1>1. CASE SessionNext /\ UNCHANGED serviceVars
    BY <1>1 DEF serviceVars, WaitInv
<1>2. ASSUME NEW t \in Trx, AsyncSend(t) PROVE WaitInv'
    \* t is not busy, so not waiting: dropping its answer concerns no caller.
    BY <1>2 DEF AsyncSend, CanCall, WaitInv
<1>3. ASSUME NEW t \in Trx, SendSync(t) PROVE WaitInv'
    BY <1>3 DEF SendSync, CanCall, WaitInv
<1>4. ASSUME NEW t \in Trx, WaitForCondition(t) PROVE WaitInv'
    BY <1>4 DEF WaitForCondition, WaitInv
<1>5. ASSUME NEW r \in routed, Receive(r) PROVE WaitInv'
    \* A waiting r.trx has its sync() flag set: receive signals it and keeps
    \* it busy, and it is answered.
    BY <1>5 DEF Receive, WaitInv
<1>6. CASE UNCHANGED allVars
    BY <1>6 DEF allVars, serviceVars, WaitInv
<1>7. QED
    BY <1>1, <1>2, <1>3, <1>4, <1>5, <1>6 DEF ComposedNext, ServiceNext

\* WaitInv is an invariant of the composed service and session.
THEOREM WaitInvHolds == ServiceSpec => []WaitInv
BY InitWaitInv, WaitInvStep, PTL DEF ServiceSpec

\* A caller leaves waitForCondition only in WaitForCondition, and only when
\* its condition is true; no other step releases one.
LEMMA ReleaseStep ==
    WaitInv /\ [ComposedNext]_allVars =>
       [\A t \in Trx : (t \in waiting /\ t \notin waiting') => t \in answered]_allVars
<1> SUFFICES ASSUME WaitInv, [ComposedNext]_allVars,
                    NEW t \in Trx, t \in waiting, t \notin waiting'
             PROVE  t \in answered
    BY DEF allVars
<1>1. CASE SessionNext /\ UNCHANGED serviceVars
    BY <1>1 DEF serviceVars
<1>2. ASSUME NEW u \in Trx, WaitForCondition(u) PROVE t \in answered
    BY <1>2 DEF WaitForCondition, WaitInv
<1>3. ASSUME NEW u \in Trx, AsyncSend(u) \/ SendSync(u) PROVE t \in answered
    BY <1>3 DEF AsyncSend, SendSync
<1>4. ASSUME NEW r \in routed, Receive(r) PROVE t \in answered
    BY <1>4 DEF Receive
<1>5. CASE UNCHANGED allVars
    BY <1>5 DEF allVars, serviceVars
<1>6. QED
    BY <1>1, <1>2, <1>3, <1>4, <1>5 DEF ComposedNext, ServiceNext

\* sendSync returns with its own answer (SyncReturnsOwnResponse, checked by
\* service_sync): a caller blocked in waitForCondition is released only after
\* receive has had the response of its current call, never by a condition
\* an earlier call of the same transaction object left true, whatever the
\* session, the channel and the server do.
THEOREM SyncReturnsOwnResponseHolds == ServiceSpec => SyncReturnsOwnResponse
BY WaitInvHolds, ReleaseStep, PTL DEF ServiceSpec, SyncReturnsOwnResponse

=============================================================================
