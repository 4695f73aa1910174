------------------------- MODULE MonitoredItemService -------------------------
(***************************************************************************)
(* The MonitoredItemService of                                            *)
(* src/src/OpcUaStackClient/ServiceSet/MonitoredItemService.cpp composed  *)
(* with the client Session.  Application threads call send (async) and    *)
(* sendSync (blocks on the transaction's ConditionBool); the session      *)
(* routes each response back to the service's receive, which signals the  *)
(* condition of a sync transaction or calls the MonitoredItemServiceIf    *)
(* callback of an async one.                                               *)
(*                                                                         *)
(* The five transaction types (CreateMonitoredItems, DeleteMonitoredItems, *)
(* ModifyMonitoredItems, SetMonitoringMode, SetTriggering) have identical *)
(* send/sendSync code and one receive case each; a transaction's type is  *)
(* RespType[t].  A transaction object may be reused for a new call once   *)
(* its previous call has returned, at most MaxUses times.                 *)
(***************************************************************************)
EXTENDS Session

CONSTANTS
    MaxUses,                  \* calls per transaction object
    CallerAwaitsActivation    \* callers call only after activateSessionComplete

ASSUME UsesAssumption == MaxUses \in Nat
ASSUME CallerAssumption == CallerAwaitsActivation \in BOOLEAN

VARIABLES
    sync,      \* transactions whose sync() flag is set
    cond,      \* transactions whose conditionBool() is true
    waiting,   \* transactions whose sendSync caller is blocked in waitForCondition
    busy,      \* transactions whose call has not yet returned to the application
    uses,      \* uses[t]: calls made with transaction t
    answered   \* transactions whose current call has had its response received

serviceVars == <<sync, cond, waiting, busy, uses, answered>>
allVars == <<vars, serviceVars>>

ServiceTypeOK ==
    /\ TypeOK
    /\ sync \subseteq Trx
    /\ cond \subseteq Trx
    /\ waiting \subseteq Trx
    /\ busy \subseteq Trx
    /\ uses \in [Trx -> 0..MaxUses]
    /\ answered \subseteq Trx

ServiceInit ==
    /\ Init
    /\ sync = {}
    /\ cond = {}
    /\ waiting = {}
    /\ busy = {}
    /\ uses = [t \in Trx |-> 0]
    /\ answered = {}

-----------------------------------------------------------------------------
(* Application calls *)

\* An application thread may start a call with t: t's previous call has
\* returned, and (when callers await activation) activateSessionComplete
\* has been delivered.
CanCall(t) ==
    /\ t \notin busy
    /\ uses[t] < MaxUses
    /\ CallerAwaitsActivation => "ActivateSession" \in completed

\* send: componentService(this), then componentSession_->sendAsync.
\* The sync() flag is left as it is.
AsyncSend(t) ==
    /\ CanCall(t)
    /\ componentService' = componentService \cup {t}
    /\ inbox' = inbox \cup {t}
    /\ posted' = posted \cup {t}
    /\ busy' = busy \cup {t}
    /\ uses' = [uses EXCEPT ![t] = @ + 1]
    /\ answered' = answered \ {t}
    /\ UNCHANGED <<sessionState, requestHandle, authToken, serviceSetMap, pending,
                   routed, completed, envVars, sync, cond, waiting>>

\* Mutant of SendSync: conditionInit() is not called, the condition keeps
\* the value the previous call left.
SendSyncNoInit(t) ==
    /\ CanCall(t)
    /\ sync' = sync \cup {t}
    /\ componentService' = componentService \cup {t}
    /\ inbox' = inbox \cup {t}
    /\ posted' = posted \cup {t}
    /\ waiting' = waiting \cup {t}
    /\ busy' = busy \cup {t}
    /\ uses' = [uses EXCEPT ![t] = @ + 1]
    /\ answered' = answered \ {t}
    /\ UNCHANGED <<sessionState, requestHandle, authToken, serviceSetMap, pending,
                   routed, completed, envVars, cond>>

\* sendSync: sync(true), conditionInit(), send(...), then the caller blocks.
\* The five overloads (CreateMonitoredItems, DeleteMonitoredItems,
\* ModifyMonitoredItems, SetMonitoringMode, SetTriggering) and the send each
\* one calls are the same code on a different transaction type; t is any one.
SendSync(t) ==
    /\ CanCall(t)
    /\ sync' = sync \cup {t}
    /\ cond' = cond \ {t}
    /\ componentService' = componentService \cup {t}
    /\ inbox' = inbox \cup {t}
    /\ posted' = posted \cup {t}
    /\ waiting' = waiting \cup {t}
    /\ busy' = busy \cup {t}
    /\ uses' = [uses EXCEPT ![t] = @ + 1]
    /\ answered' = answered \ {t}
    /\ UNCHANGED <<sessionState, requestHandle, authToken, serviceSetMap, pending,
                   routed, completed, envVars>>

\* waitForCondition returns once the condition is true; sendSync returns.
WaitForCondition(t) ==
    /\ t \in waiting
    /\ t \in cond
    /\ waiting' = waiting \ {t}
    /\ busy' = busy \ {t}
    /\ UNCHANGED <<vars, sync, cond, uses, answered>>

-----------------------------------------------------------------------------
(* receive: invoked with a transaction the session routed to the service *)

\* Mutant of Receive: the switch on the response type runs before the
\* sync() check, so a sync transaction gets the callback, not conditionTrue.
ReceiveDispatchFirst(r) ==
    /\ r \in routed
    /\ routed' = routed \ {r}
    /\ answered' = answered \cup {r.trx}
    /\ busy' = busy \ {r.trx}
    /\ UNCHANGED <<sessionState, requestHandle, authToken, serviceSetMap, pending,
                   inbox, componentService, posted, completed, envVars,
                   sync, cond, waiting, uses>>

\* A sync transaction has its condition set (conditionTrue) and receive
\* returns; otherwise the MonitoredItemServiceIf callback of its response
\* type is called, which returns the call to the application.
Receive(r) ==
    /\ r \in routed
    /\ routed' = routed \ {r}
    /\ answered' = answered \cup {r.trx}
    /\ IF r.trx \in sync
         THEN /\ cond' = cond \cup {r.trx}
              /\ busy' = busy
         ELSE /\ busy' = busy \ {r.trx}
              /\ cond' = cond
    /\ UNCHANGED <<sessionState, requestHandle, authToken, serviceSetMap, pending,
                   inbox, componentService, posted, completed, envVars,
                   sync, waiting, uses>>

-----------------------------------------------------------------------------

ServiceNext ==
    \/ \E t \in Trx : AsyncSend(t) \/ SendSync(t) \/ WaitForCondition(t)
    \/ \E r \in routed : Receive(r)

\* The session's own steps leave the service's variables alone.
ComposedNext ==
    \/ SessionNext /\ UNCHANGED serviceVars
    \/ ServiceNext

\* The reactor thread, the channel, the pending-queue timer, the server and
\* a woken caller all keep running: weak fairness on each of their steps.
\* Application calls (createSession, activateSession, send, sendSync),
\* channel drops and a server ignoring a request are never forced.
Fairness ==
    /\ WF_allVars(HandleSecureChannelConnect /\ UNCHANGED serviceVars)
    /\ \A t \in Trx :
          /\ WF_allVars((Send(t) \/ SendRejected(t) \/ PendingQueueTimeout(t))
                        /\ UNCHANGED serviceVars)
          /\ WF_allVars(WaitForCondition(t))
    /\ WF_allVars((\E m \in toClient :
                      \/ ReceiveCreateSessionResponse(m)
                      \/ ReceiveActivateSessionResponse(m)
                      \/ ReceiveMessage(m)
                      \/ ReceiveMessageDiscarded(m))
                  /\ UNCHANGED serviceVars)
    /\ WF_allVars((\E m \in toServer :
                      \/ ServerCreateSession(m)
                      \/ ServerActivateSession(m)
                      \/ ServerService(m))
                  /\ UNCHANGED serviceVars)
    /\ WF_allVars(\E r \in routed : Receive(r))

ServiceSpec == ServiceInit /\ [][ComposedNext]_allVars /\ Fairness

-----------------------------------------------------------------------------
(* Properties *)

\* sendSync returns with its answer: a blocked sendSync caller is released
\* only after the response of its current call has reached receive, never by
\* a condition left true by an earlier call of the same transaction object.
SyncReturnsOwnResponse ==
    [][\A t \in Trx : (t \in waiting /\ t \notin waiting') => t \in answered]_allVars

\* sendSync terminates: every application thread blocked in sendSync is
\* eventually released.
SyncCallReturns == \A t \in Trx : t \in waiting ~> t \notin waiting

\* send terminates: every asynchronous call (send) eventually has its
\* MonitoredItemServiceIf callback called, also when the transaction object
\* was used for a sendSync before.
AsyncCallReturns ==
    \A t \in Trx : (t \in busy /\ t \notin waiting) ~> t \notin busy

=============================================================================
