---------------------------- MODULE SessionProofs ----------------------------
(***************************************************************************)
(* Proofs about the client Session (module Session), for every value of   *)
(* the constants allowed by its assumptions.                              *)
(***************************************************************************)
EXTENDS Session, TLAPS


\* Messages of one kind on the wire, in either direction.
OnWire(k) == {m \in toServer \cup toClient : m.kind = k}

(***************************************************************************)
(* The strengthening of TokenCurrent.  It says where each handshake       *)
(* message can be: nothing is on the wire unless the channel is open; at  *)
(* most one CreateSession and one ActivateSession message is in flight,   *)
(* and only in the state that waits for it; once the session has its      *)
(* token it is the server's latest, and once activated the server's       *)
(* active one; service requests are sent only from an activated session.  *)
(***************************************************************************)
TokenInv ==
    /\ sessionState = "Close" => channel = "Closed"
    /\ channel # "Open" => toServer = {} /\ toClient = {}
    /\ \A m1, m2 \in OnWire("CreateSession") : m1 = m2
    /\ \A m \in OnWire("CreateSession") : sessionState = "SendCreateSession"
    /\ \A m \in toServer : m.kind = "CreateSession" => m.token = 0
    /\ \A m \in toClient : m.kind = "CreateSession" =>
          m.token = serverToken /\ serverToken # 0
    /\ \A m1, m2 \in OnWire("ActivateSession") : m1 = m2
    /\ \A m \in OnWire("ActivateSession") :
          sessionState = "SendActivateSession" /\ m.token = authToken
    /\ \A m \in toClient : m.kind = "ActivateSession" =>
          serverActive = authToken /\ m \notin toServer
    /\ sessionState \in {"ReceiveCreateSession", "SendActivateSession",
                         "ReceiveActivateSession"} => authToken = serverToken
    /\ sessionState = "ReceiveActivateSession" => serverActive = authToken
    /\ \A m \in toServer : m.kind = "Service" =>
          sessionState = "ReceiveActivateSession" /\ m.token = authToken

\* The strengthening of CorrelationCorrect: every service message on the
\* wire carries its transaction's id as its request handle.
HandleInv ==
    \A m \in toServer \cup toClient : m.kind = "Service" => m.handle = m.trx

\* Each posted transaction is in the session's inbox or has been sent, not
\* both: send takes it out of the inbox when it enters the pending queue.
TrxInv ==
    /\ inbox \subseteq posted
    /\ pending \subseteq posted
    /\ inbox \cap pending = {}

IInv == TypeOK /\ TokenInv /\ HandleInv /\ CorrelationCorrect /\ TrxInv

-----------------------------------------------------------------------------

\* The initial state of the session is well typed.
LEMMA InitTypeOK == Init => TypeOK
    BY BoundsAssumption DEF Init, TypeOK, SessionStates

\* Every step of the session, its channel, the server and the components
\* keeps the state well typed.
LEMMA TypeStep == TypeOK /\ [Next]_vars => TypeOK'
    <1> SUFFICES ASSUME TypeOK, [Next]_vars PROVE TypeOK'
        OBVIOUS
    <1> USE TrxAssumption, BoundsAssumption
        DEF TypeOK, SessionStates, Kinds, Msg, Routed, NoTrx, vars, sessionVars, envVars
    <1>1. CASE CreateSession
        BY <1>1 DEF CreateSession, TypeOK, SessionStates
    <1>2. CASE ActivateSession
        BY <1>2 DEF ActivateSession, ChannelWrite, TypeOK, SessionStates, Msg, NoTrx
    <1>3. CASE HandleSecureChannelConnect
        BY <1>3 DEF HandleSecureChannelConnect, TypeOK, SessionStates, Msg, NoTrx
    <1>4. CASE HandleSecureChannelDisconnect
        BY <1>4 DEF HandleSecureChannelDisconnect, TypeOK
    <1>5. ASSUME NEW ty \in ServiceTypes, RegisterService(ty) \/ DeregisterService(ty)
          PROVE TypeOK'
        BY <1>5 DEF RegisterService, DeregisterService, TypeOK
    <1>6. ASSUME NEW t \in Trx, Send(t) PROVE TypeOK'
        BY <1>6 DEF Send, ChannelWrite, TypeOK, Msg
    <1>7. ASSUME NEW t \in Trx, SendRejected(t) \/ PendingQueueTimeout(t) PROVE TypeOK'
        BY <1>7 DEF SendRejected, PendingQueueTimeout, TypeOK
    <1>8. ASSUME NEW m \in toClient,
                 \/ ReceiveCreateSessionResponse(m)
                 \/ ReceiveActivateSessionResponse(m)
          PROVE TypeOK'
        BY <1>8 DEF ReceiveCreateSessionResponse, ReceiveActivateSessionResponse,
                    TypeOK, SessionStates, Msg
    <1>9. ASSUME NEW m \in toClient, ReceiveMessage(m) PROVE TypeOK'
        <2>1. m.handle \in Trx /\ m.trx \in Trx \cup {NoTrx}
            BY <1>9 DEF ReceiveMessage
        <2>2. routed' \subseteq Routed
            BY <1>9, <2>1 DEF ReceiveMessage
        <2>3. QED
            BY <1>9, <2>2 DEF ReceiveMessage
    <1>10. ASSUME NEW m \in toClient, ReceiveMessageDiscarded(m) PROVE TypeOK'
        BY <1>10 DEF ReceiveMessageDiscarded, TypeOK
    <1>11. ASSUME NEW m \in toServer, ServerCreateSession(m) PROVE TypeOK'
        BY <1>11 DEF ServerCreateSession
    <1>15. ASSUME NEW m \in toServer, ServerActivateSession(m) PROVE TypeOK'
        <2>1. serverActive' \in Nat
            BY <1>15 DEF ServerActivateSession
        <2>2. toClient' \subseteq Msg
            BY <1>15 DEF ServerActivateSession
        <2>3. QED
            BY <1>15, <2>1, <2>2 DEF ServerActivateSession
    <1>16. ASSUME NEW m \in toServer, ServerService(m) \/ ServerIgnore(m) PROVE TypeOK'
        BY <1>16 DEF ServerService, ServerIgnore
    <1>12. ASSUME NEW t \in Trx, NEW b \in BOOLEAN, PostTransaction(t, b) PROVE TypeOK'
        BY <1>12 DEF PostTransaction, TypeOK
    <1>13. CASE UNCHANGED vars
        BY <1>13 DEF vars, sessionVars, envVars, TypeOK
    <1>14. QED
        BY <1>1, <1>2, <1>3, <1>4, <1>5, <1>6, <1>7, <1>8, <1>9, <1>10, <1>11,
           <1>12, <1>13, <1>15, <1>16 DEF Next, SessionNext

\* Session's state is well typed in every reachable state.
THEOREM TypeCorrect == Spec => []TypeOK
    BY InitTypeOK, TypeStep, PTL DEF Spec

-----------------------------------------------------------------------------
(* Tokens and correlation *)

\* The initial state satisfies the inductive invariant.
LEMMA InitIInv == Init => IInv
    BY InitTypeOK DEF Init, IInv, TokenInv, HandleInv, CorrelationCorrect, OnWire, TrxInv

\* Every step keeps the inductive invariant: one step per action.
LEMMA IInvStep == IInv /\ [Next]_vars => IInv'
<1> SUFFICES ASSUME IInv, [Next]_vars PROVE IInv'
    OBVIOUS
<1>0. TypeOK'
    BY TypeStep DEF IInv
<1> USE TrxAssumption DEF IInv, TokenInv, HandleInv, CorrelationCorrect, OnWire, TrxInv,
        TypeOK, Msg, Routed, Kinds, NoTrx, vars, sessionVars, envVars
<1>1. CASE CreateSession
    BY <1>0, <1>1 DEF CreateSession
<1>2. CASE ActivateSession
    BY <1>0, <1>2 DEF ActivateSession, ChannelWrite
<1>3. CASE HandleSecureChannelConnect
    BY <1>0, <1>3 DEF HandleSecureChannelConnect
<1>4. CASE HandleSecureChannelDisconnect
    BY <1>0, <1>4 DEF HandleSecureChannelDisconnect
<1>5. ASSUME NEW ty \in ServiceTypes, RegisterService(ty) \/ DeregisterService(ty)
      PROVE IInv'
    BY <1>0, <1>5 DEF RegisterService, DeregisterService
<1>6. ASSUME NEW t \in Trx, Send(t) PROVE IInv'
    BY <1>0, <1>6 DEF Send, ChannelWrite
<1>7. ASSUME NEW t \in Trx, SendRejected(t) \/ PendingQueueTimeout(t) PROVE IInv'
    BY <1>0, <1>7 DEF SendRejected, PendingQueueTimeout
<1>8. ASSUME NEW m \in toClient, ReceiveCreateSessionResponse(m) PROVE IInv'
    <2>1. sessionState = "SendCreateSession" /\ m.token = serverToken
        BY <1>8 DEF ReceiveCreateSessionResponse
    <2>2. \A m2 \in toServer \cup toClient : m2.kind = "CreateSession" => m2 = m
        BY <1>8 DEF ReceiveCreateSessionResponse
    <2>3. \A m2 \in toServer' \cup toClient' : m2.kind # "CreateSession"
        BY <2>2, <1>8 DEF ReceiveCreateSessionResponse
    <2>4. /\ \A m2 \in toServer \cup toClient : m2.kind # "ActivateSession"
          /\ \A m2 \in toServer : m2.kind # "Service"
        BY <2>1
    <2>5. /\ sessionState' = "ReceiveCreateSession" /\ authToken' = serverToken
          /\ UNCHANGED <<channel, toServer, serverToken, serverActive>>
          /\ toClient' = toClient \ {m}
          /\ routed' = routed
        BY <1>8, <2>1 DEF ReceiveCreateSessionResponse
    <2>6. TokenInv'
        BY <2>3, <2>4, <2>5
    <2>8. TrxInv'
        BY <1>8 DEF ReceiveCreateSessionResponse
    <2>7. QED
        BY <1>0, <2>5, <2>6, <2>8
<1>9. ASSUME NEW m \in toClient, ReceiveActivateSessionResponse(m) PROVE IInv'
    <2>1. sessionState = "SendActivateSession" /\ serverActive = authToken
        BY <1>9 DEF ReceiveActivateSessionResponse
    <2>2. \A m2 \in toServer \cup toClient : m2.kind = "ActivateSession" => m2 = m
        BY <1>9 DEF ReceiveActivateSessionResponse
    <2>5. /\ sessionState' = "ReceiveActivateSession"
          /\ UNCHANGED <<authToken, channel, toServer, serverToken, serverActive, routed>>
          /\ toClient' = toClient \ {m}
        BY <1>9, <2>1 DEF ReceiveActivateSessionResponse
    <2>3. \A m2 \in toServer' \cup toClient' : m2.kind # "ActivateSession"
        BY <1>9, <2>2, <2>5 DEF ReceiveActivateSessionResponse
    <2>4. /\ \A m2 \in toServer \cup toClient : m2.kind # "CreateSession"
          /\ \A m2 \in toServer : m2.kind # "Service"
        BY <2>1
    <2>6. TokenInv'
        BY <2>1, <2>3, <2>4, <2>5
    <2>8. TrxInv'
        BY <1>9 DEF ReceiveActivateSessionResponse
    <2>7. QED
        BY <1>0, <2>5, <2>6, <2>8
<1>10. ASSUME NEW m \in toClient, ReceiveMessage(m) PROVE IInv'
    <2>1. UNCHANGED <<inbox, posted>> /\ pending' = pending \ {m.handle}
        BY <1>10 DEF ReceiveMessage
    <2>2. TrxInv'
        BY <2>1
    <2>3. (TokenInv /\ HandleInv /\ CorrelationCorrect)'
        BY <1>10 DEF ReceiveMessage
    <2>4. QED
        BY <1>0, <2>2, <2>3
<1>11. ASSUME NEW m \in toClient, ReceiveMessageDiscarded(m) PROVE IInv'
    BY <1>0, <1>11 DEF ReceiveMessageDiscarded
<1>12. ASSUME NEW m \in toServer, ServerCreateSession(m) PROVE IInv'
    <2>1. sessionState = "SendCreateSession" /\ m.token = 0 /\ m.kind = "CreateSession"
        BY <1>12 DEF ServerCreateSession
    <2>2. \A m2 \in toServer \cup toClient : m2.kind = "CreateSession" => m2 = m
        BY <1>12 DEF ServerCreateSession
    <2>3. m \notin toClient
        BY <2>1, <1>12 DEF ServerCreateSession
    <2>4. \A m2 \in toServer \cup toClient : m2.kind # "ActivateSession"
        BY <2>1
    <2>5. \A m2 \in toServer \cup toClient : m2.kind # "Service" => m2 = m
        BY <2>2, <2>4
    <2> DEFINE r == [kind |-> "CreateSession", handle |-> m.handle,
                     token |-> serverToken + 1, trx |-> NoTrx]
    <2>6. /\ toServer' = toServer \ {m} /\ toClient' = toClient \cup {r}
          /\ serverToken' = serverToken + 1
          /\ UNCHANGED <<sessionVars, channel, serverActive>>
        BY <1>12 DEF ServerCreateSession
    <2>7. \A m2 \in toServer' \cup toClient' : m2.kind = "CreateSession" => m2 = r
        BY <2>2, <2>3, <2>6
    <2>8. QED
        BY <1>0, <2>1, <2>4, <2>5, <2>6, <2>7
<1>13. ASSUME NEW m \in toServer, ServerActivateSession(m) PROVE IInv'
    BY <1>0, <1>13 DEF ServerActivateSession
<1>14. ASSUME NEW m \in toServer, ServerService(m) \/ ServerIgnore(m) PROVE IInv'
    BY <1>0, <1>14 DEF ServerService, ServerIgnore
<1>15. ASSUME NEW t \in Trx, NEW b \in BOOLEAN, PostTransaction(t, b) PROVE IInv'
    BY <1>0, <1>15 DEF PostTransaction
<1>16. CASE UNCHANGED vars
    BY <1>0, <1>16
<1>17. QED
    BY <1>1, <1>2, <1>3, <1>4, <1>5, <1>6, <1>7, <1>8, <1>9, <1>10, <1>11,
       <1>12, <1>13, <1>14, <1>15, <1>16 DEF Next, SessionNext

\* The inductive invariant holds in every reachable state.
THEOREM IInvHolds == Spec => []IInv
    BY InitIInv, IInvStep, PTL DEF Spec

\* Every service request on its way to the server carries the token of the
\* session the server has activated (send stamps authToken only in
\* ReceiveActivateSession), for every number of transactions, handles and
\* channel drops.
THEOREM TokenCurrentHolds == Spec => []TokenCurrent
<1>1. IInv => TokenCurrent
    BY DEF IInv, TokenInv, TokenCurrent
<1>2. QED
    BY IInvHolds, <1>1, PTL

\* receiveMessage hands each component the response to its own request:
\* the request handle send stamps is the transaction id the pending queue
\* is keyed by, and the server echoes it.
THEOREM CorrelationHolds == Spec => []CorrelationCorrect
<1>1. IInv => CorrelationCorrect
    BY DEF IInv
<1>2. QED
    BY IInvHolds, <1>1, PTL


\* receiveActivateSessionResponse moves to ReceiveActivateSession only when
\* the server has activated the session whose token the client holds: the
\* one ActivateSession message on the wire carries authToken, and its
\* response exists only once the server activated that token.
THEOREM SessionActiveHolds == Spec => []SessionActiveOnServer
<1>1. IInv => SessionActiveOnServer
    BY DEF IInv, TokenInv, SessionActiveOnServer
<1>2. QED
    BY IInvHolds, <1>1, PTL

-----------------------------------------------------------------------------
(* Refinement of ServiceTransactions *)

\* The initial session has no pending and no routed transaction.
LEMMA InitRefines == Init => ST!STInit
    BY DEF Init, ST!STInit

\* Every step of the session is a step of ServiceTransactions or leaves the
\* pending queue and the routed transactions alone: send issues, a
\* receiveMessage for a pending handle delivers or abandons, the timer
\* abandons.
LEMMA StepRefines == IInv /\ [Next]_vars => [ST!STNext]_ST!stVars
<1> SUFFICES ASSUME IInv, [Next]_vars PROVE [ST!STNext]_<<pending, routed>>
    BY DEF ST!stVars
<1> USE DEF IInv, TypeOK, TrxInv, HandleInv
<1>1. ASSUME NEW t \in Trx, Send(t) PROVE ST!Issue(t)
    BY <1>1 DEF Send, ST!Issue
<1>2. ASSUME NEW t \in Trx, PendingQueueTimeout(t) PROVE ST!Abandon(t)
    BY <1>2 DEF PendingQueueTimeout, ST!Abandon
<1>3. ASSUME NEW m \in toClient, ReceiveMessage(m)
      PROVE ST!Deliver(m.handle) \/ ST!Abandon(m.handle)
    <2>1. m.kind = "Service" /\ m.handle \in pending /\ m.trx = m.handle
        BY <1>3 DEF ReceiveMessage
    <2>2. pending' = pending \ {m.handle} /\ routed' \in {routed, routed \cup {[trx |-> m.handle, resp |-> m.handle]}}
        BY <1>3, <2>1 DEF ReceiveMessage
    <2>3. QED
        BY <2>1, <2>2 DEF ST!Deliver, ST!Abandon
<1>4. ASSUME NEW m \in toClient, ReceiveMessage(m) PROVE m.handle \in Trx
    BY <1>4 DEF ReceiveMessage
<1>5. CASE \/ CreateSession \/ ActivateSession
           \/ HandleSecureChannelConnect \/ HandleSecureChannelDisconnect
           \/ \E ty \in ServiceTypes : RegisterService(ty) \/ DeregisterService(ty)
           \/ \E t \in Trx : SendRejected(t)
           \/ \E m \in toClient : \/ ReceiveCreateSessionResponse(m)
                                  \/ ReceiveActivateSessionResponse(m)
                                  \/ ReceiveMessageDiscarded(m)
           \/ \E m \in toServer : \/ ServerCreateSession(m) \/ ServerActivateSession(m)
                                  \/ ServerService(m) \/ ServerIgnore(m)
           \/ \E t \in Trx, b \in BOOLEAN : PostTransaction(t, b)
    BY <1>5 DEF CreateSession, ActivateSession, HandleSecureChannelConnect,
              HandleSecureChannelDisconnect, RegisterService, DeregisterService,
              SendRejected, ReceiveCreateSessionResponse,
              ReceiveActivateSessionResponse, ReceiveMessageDiscarded,
              ServerCreateSession, ServerActivateSession, ServerService,
              ServerIgnore, PostTransaction, vars, sessionVars
<1>6. CASE UNCHANGED vars
    BY <1>6 DEF vars, sessionVars
<1>7. QED
    BY <1>1, <1>2, <1>3, <1>4, <1>5, <1>6 DEF Next, SessionNext, ST!STNext

\* The session implements what it promises its service components: every
\* behaviour of Spec, seen through the pending queue and the routed
\* transactions, is a behaviour of ServiceTransactions.
THEOREM Refinement == Spec => ImplementsServiceTransactions
<1>1. Spec => []IInv
    BY IInvHolds
<1>2. QED
    BY <1>1, InitRefines, StepRefines, PTL DEF Spec, ImplementsServiceTransactions, ST!STSpec

=============================================================================
