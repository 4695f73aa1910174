------------------------------ MODULE Session ------------------------------
(***************************************************************************)
(* The client Session of src/src/OpcUaStackClient/ServiceSet/Session.cpp: *)
(* its state machine (sessionState_), the request-handle counter          *)
(* (requestHandle_), the pending queue keyed by transaction id, the       *)
(* service-set map, and the routing of decoded responses to components.   *)
(*                                                                         *)
(* The secure channel and the server are the environment.  They are not   *)
(* under src/ and are modelled from spec.md (sections 4.3, 4.4): the      *)
(* channel connects, may drop (losing what is in flight) and reconnects;  *)
(* the server answers each request, or, when ServerLossy, may never       *)
(* answer a service request.  Data is abstracted: a message is a record   *)
(* of its kind, its request handle, the session token it carries and,     *)
(* as a history field, the transaction whose request produced it.         *)
(***************************************************************************)
EXTENDS Naturals, FiniteSets

CONSTANTS
    Trx,                 \* transaction ids (ServiceTransaction::transactionId)
    ServiceTypes,        \* response type ids a component can register for
    RespType,            \* RespType[t]: response type id of transaction t
    MaxHandle,           \* bound on the uint32 counter requestHandle_
    MaxDrops,            \* bound on secure-channel drops
    ServerLossy,         \* the server may never answer a service request
    ReplyWithinDeadline  \* answers in flight always beat the 3000 ms timer

ASSUME TrxAssumption == Trx \subseteq Nat \ {0}
ASSUME RespTypeAssumption == RespType \in [Trx -> ServiceTypes]
ASSUME BoundsAssumption == MaxHandle \in Nat /\ MaxDrops \in Nat
ASSUME FlagsAssumption == ServerLossy \in BOOLEAN /\ ReplyWithinDeadline \in BOOLEAN

\* No transaction: the history field of messages that no transaction sent.
NoTrx == 0

\* SessionState enumeration of Session.h, in protocol order.
SessionStates == {"Close", "ConnectingToSecureChannel", "ConnectedToSecureChannel",
                  "SendCreateSession", "ReceiveCreateSession",
                  "SendActivateSession", "ReceiveActivateSession"}

Kinds == {"CreateSession", "ActivateSession", "Service"}

\* A request or response on the wire.  handle is the RequestHeader /
\* ResponseHeader requestHandle, token the authentication token, trx the
\* transaction whose request the message answers (history only: the
\* client never reads it).
Msg == [kind : Kinds, handle : Nat, token : Nat, trx : Trx \cup {NoTrx}]

\* A transaction handed to its component by Component::send, together with
\* the transaction whose response was decoded into it.
Routed == [trx : Trx, resp : Trx \cup {NoTrx}]

VARIABLES
    sessionState,      \* sessionState_
    requestHandle,     \* requestHandle_
    authToken,         \* createSessionResponseSPtr_->authenticationToken()
    serviceSetMap,     \* serviceSetMap_: registered response type ids
    pending,           \* pendingQueue_: transaction ids awaiting a response
    inbox,             \* transactions posted to the session by sendAsync
    componentService,  \* transactions whose componentService() is set
    routed,            \* transactions passed on to their component
    posted,            \* transactions ever posted to the session (history)
    completed,         \* SessionIf callbacks delivered to the application
    channel,           \* secure channel: "Closed", "Connecting", "Open"
    drops,             \* secure-channel drops so far
    toServer,          \* requests in flight to the server
    toClient,          \* responses in flight to the client
    serverToken,       \* token of the server's latest created session
    serverActive       \* token of the server's activated session (0: none)

sessionVars == <<sessionState, requestHandle, authToken, serviceSetMap, pending,
                 inbox, componentService, routed, posted, completed>>
envVars == <<channel, drops, toServer, toClient, serverToken, serverActive>>
vars == <<sessionVars, envVars>>

-----------------------------------------------------------------------------
(* Helpers *)

\* sessionSecureChannelIf_->...(sb): the secure channel writes the message
\* when it is connected and loses it otherwise.
ChannelWrite(m) ==
    toServer' = IF channel = "Open" THEN toServer \cup {m} ELSE toServer

\* A request or response of transaction t is still on the wire.
InFlight(t) ==
    \E m \in toServer \cup toClient : m.kind = "Service" /\ m.handle = t

TypeOK ==
    /\ sessionState \in SessionStates
    /\ requestHandle \in 0..MaxHandle
    /\ authToken \in Nat
    /\ serviceSetMap \subseteq ServiceTypes
    /\ pending \subseteq Trx
    /\ inbox \subseteq Trx
    /\ componentService \subseteq Trx
    /\ routed \subseteq Routed
    /\ posted \subseteq Trx
    /\ completed \subseteq {"CreateSession", "ActivateSession"}
    /\ channel \in {"Closed", "Connecting", "Open"}
    /\ drops \in 0..MaxDrops
    /\ toServer \subseteq Msg
    /\ toClient \subseteq Msg
    /\ serverToken \in Nat
    /\ serverActive \in Nat

Init ==
    /\ sessionState = "Close"
    /\ requestHandle = 0
    /\ authToken = 0
    /\ serviceSetMap = {}
    /\ pending = {}
    /\ inbox = {}
    /\ componentService = {}
    /\ routed = {}
    /\ posted = {}
    /\ completed = {}
    /\ channel = "Closed"
    /\ drops = 0
    /\ toServer = {}
    /\ toClient = {}
    /\ serverToken = 0
    /\ serverActive = 0

-----------------------------------------------------------------------------
(* Session operations (Session.cpp) *)

\* registerService: a type id already in the map is refused.
RegisterService(ty) ==
    /\ ty \notin serviceSetMap
    /\ serviceSetMap' = serviceSetMap \cup {ty}
    /\ UNCHANGED <<sessionState, requestHandle, authToken, pending, inbox,
                   componentService, routed, posted, completed, envVars>>

\* deregisterService: a type id not in the map is refused.
DeregisterService(ty) ==
    /\ ty \in serviceSetMap
    /\ serviceSetMap' = serviceSetMap \ {ty}
    /\ UNCHANGED <<sessionState, requestHandle, authToken, pending, inbox,
                   componentService, routed, posted, completed, envVars>>

\* createSession: valid only in Close; asks the channel to connect.
CreateSession ==
    /\ sessionState = "Close"
    /\ sessionState' = "ConnectingToSecureChannel"
    /\ channel' = "Connecting"
    /\ UNCHANGED <<requestHandle, authToken, serviceSetMap, pending, inbox,
                   componentService, routed, posted, completed,
                   drops, toServer, toClient, serverToken, serverActive>>

\* Mutant of ActivateSession: the request header's authenticationToken is
\* left unset (null token).
ActivateSessionNoToken ==
    /\ sessionState = "ReceiveCreateSession"
    /\ requestHandle < MaxHandle
    /\ requestHandle' = requestHandle + 1
    /\ sessionState' = "SendActivateSession"
    /\ ChannelWrite([kind |-> "ActivateSession", handle |-> requestHandle + 1,
                     token |-> 0, trx |-> NoTrx])
    /\ UNCHANGED <<authToken, serviceSetMap, pending, inbox, componentService,
                   routed, posted, completed,
                   channel, drops, toClient, serverToken, serverActive>>

\* activateSession: valid only in ReceiveCreateSession; stamps ++requestHandle_
\* and the stored authentication token, sends ActivateSessionRequest.
ActivateSession ==
    /\ sessionState = "ReceiveCreateSession"
    /\ requestHandle < MaxHandle
    /\ requestHandle' = requestHandle + 1
    /\ sessionState' = "SendActivateSession"
    /\ ChannelWrite([kind |-> "ActivateSession", handle |-> requestHandle + 1,
                     token |-> authToken, trx |-> NoTrx])
    /\ UNCHANGED <<authToken, serviceSetMap, pending, inbox, componentService,
                   routed, posted, completed,
                   channel, drops, toClient, serverToken, serverActive>>

\* Mutant of Send: the request header is stamped with the session's
\* requestHandle_ instead of the transaction id the pending queue is keyed by.
SendStampsCounter(t) ==
    /\ t \in inbox
    /\ sessionState = "ReceiveActivateSession"
    /\ inbox' = inbox \ {t}
    /\ pending' = pending \cup {t}
    /\ ChannelWrite([kind |-> "Service", handle |-> requestHandle, token |-> authToken, trx |-> t])
    /\ UNCHANGED <<sessionState, requestHandle, authToken, serviceSetMap,
                   componentService, routed, posted, completed,
                   channel, drops, toClient, serverToken, serverActive>>

\* Mutant of Send: the sessionState_ check at the top of send is missing.
SendUnchecked(t) ==
    /\ t \in inbox
    /\ inbox' = inbox \ {t}
    /\ pending' = pending \cup {t}
    /\ ChannelWrite([kind |-> "Service", handle |-> t, token |-> authToken, trx |-> t])
    /\ UNCHANGED <<sessionState, requestHandle, authToken, serviceSetMap,
                   componentService, routed, posted, completed,
                   channel, drops, toClient, serverToken, serverActive>>

\* send, valid state: requestHandle = transactionId, token stamped, the
\* transaction inserted into the pending queue, the request written.
Send(t) ==
    /\ t \in inbox
    /\ sessionState = "ReceiveActivateSession"
    /\ inbox' = inbox \ {t}
    /\ pending' = pending \cup {t}
    /\ ChannelWrite([kind |-> "Service", handle |-> t, token |-> authToken, trx |-> t])
    /\ UNCHANGED <<sessionState, requestHandle, authToken, serviceSetMap,
                   componentService, routed, posted, completed,
                   channel, drops, toClient, serverToken, serverActive>>

\* send, invalid state: sessionIf_->error() and return; the transaction is
\* neither queued nor completed.
SendRejected(t) ==
    /\ t \in inbox
    /\ sessionState # "ReceiveActivateSession"
    /\ inbox' = inbox \ {t}
    /\ UNCHANGED <<sessionState, requestHandle, authToken, serviceSetMap, pending,
                   componentService, routed, posted, completed, envVars>>

\* The channel reports a connection: handleSecureChannelConnect.  Its state
\* check logs an error but does not return, so in every state the session
\* moves on to SendCreateSession and sends a CreateSessionRequest.
HandleSecureChannelConnect ==
    /\ channel = "Connecting"
    /\ requestHandle < MaxHandle
    /\ channel' = "Open"
    /\ requestHandle' = requestHandle + 1
    /\ sessionState' = "SendCreateSession"
    /\ toServer' = toServer \cup {[kind |-> "CreateSession", handle |-> requestHandle + 1,
                                   token |-> 0, trx |-> NoTrx]}
    /\ UNCHANGED <<authToken, serviceSetMap, pending, inbox, componentService,
                   routed, posted, completed,
                   drops, toClient, serverToken, serverActive>>

\* The channel drops and starts reconnecting; what was in flight is lost.
\* handleSecureChannelDisconnect is empty: the session keeps its state and
\* its pending queue.
HandleSecureChannelDisconnect ==
    /\ channel = "Open"
    /\ drops < MaxDrops
    /\ channel' = "Connecting"
    /\ drops' = drops + 1
    /\ toServer' = {}
    /\ toClient' = {}
    /\ UNCHANGED <<sessionVars, serverToken, serverActive>>

\* receiveCreateSessionResponse: accepted only in SendCreateSession; stores
\* the token and calls createSessionComplete.  Otherwise the message is dropped.
ReceiveCreateSessionResponse(m) ==
    /\ m \in toClient
    /\ m.kind = "CreateSession"
    /\ toClient' = toClient \ {m}
    /\ IF sessionState = "SendCreateSession"
         THEN /\ sessionState' = "ReceiveCreateSession"
              /\ authToken' = m.token
              /\ completed' = completed \cup {"CreateSession"}
         ELSE UNCHANGED <<sessionState, authToken, completed>>
    /\ UNCHANGED <<requestHandle, serviceSetMap, pending, inbox, componentService,
                   routed, posted, channel, drops, toServer, serverToken, serverActive>>

\* receiveActivateSessionResponse: accepted only in SendActivateSession;
\* calls activateSessionComplete(Success) without reading the status.
ReceiveActivateSessionResponse(m) ==
    /\ m \in toClient
    /\ m.kind = "ActivateSession"
    /\ toClient' = toClient \ {m}
    /\ IF sessionState = "SendActivateSession"
         THEN /\ sessionState' = "ReceiveActivateSession"
              /\ completed' = completed \cup {"ActivateSession"}
         ELSE UNCHANGED <<sessionState, completed>>
    /\ UNCHANGED <<requestHandle, authToken, serviceSetMap, pending, inbox,
                   componentService, routed, posted,
                   channel, drops, toServer, serverToken, serverActive>>

\* Mutant of ReceiveMessage: the transaction is routed without checking
\* that the pending queue still held its request handle.
ReceiveMessageUnpending(m) ==
    /\ m \in toClient
    /\ m.kind = "Service"
    /\ sessionState = "ReceiveActivateSession"
    /\ toClient' = toClient \ {m}
    /\ pending' = pending \ {m.handle}
    /\ routed' = IF m.handle \in componentService \/ RespType[m.handle] \in serviceSetMap
                   THEN routed \cup {[trx |-> m.handle, resp |-> m.trx]}
                   ELSE routed
    /\ UNCHANGED <<sessionState, requestHandle, authToken, serviceSetMap, inbox,
                   componentService, posted, completed,
                   channel, drops, toServer, serverToken, serverActive>>

\* receiveMessage with a pending request handle: the transaction leaves the
\* pending queue and goes to its componentService, else to the component
\* registered for its response type, else it is dropped.
ReceiveMessage(m) ==
    /\ m \in toClient
    /\ m.kind = "Service"
    /\ sessionState = "ReceiveActivateSession"
    /\ m.handle \in pending
    /\ toClient' = toClient \ {m}
    /\ pending' = pending \ {m.handle}
    /\ routed' = IF m.handle \in componentService \/ RespType[m.handle] \in serviceSetMap
                   THEN routed \cup {[trx |-> m.handle, resp |-> m.trx]}
                   ELSE routed
    /\ UNCHANGED <<sessionState, requestHandle, authToken, serviceSetMap, inbox,
                   componentService, posted, completed,
                   channel, drops, toServer, serverToken, serverActive>>

\* receiveMessage that returns early: in an invalid state, or with a request
\* handle no longer pending (stale or late response); the bytes are discarded.
ReceiveMessageDiscarded(m) ==
    /\ m \in toClient
    /\ m.kind = "Service"
    /\ \/ sessionState # "ReceiveActivateSession"
       \/ m.handle \notin pending
    /\ toClient' = toClient \ {m}
    /\ UNCHANGED <<sessionVars, channel, drops, toServer, serverToken, serverActive>>

\* The pending queue's timer fires: the entry is removed and
\* pendingQueueTimeout is called, whose body is empty.
PendingQueueTimeout(t) ==
    /\ t \in pending
    /\ ReplyWithinDeadline => ~InFlight(t)
    /\ pending' = pending \ {t}
    /\ UNCHANGED <<sessionState, requestHandle, authToken, serviceSetMap, inbox,
                   componentService, routed, posted, completed, envVars>>

-----------------------------------------------------------------------------
(* The server (environment, from spec.md) *)

\* CreateSession: a new session with a fresh token.
ServerCreateSession(m) ==
    /\ m \in toServer
    /\ m.kind = "CreateSession"
    /\ serverToken' = serverToken + 1
    /\ toServer' = toServer \ {m}
    /\ toClient' = toClient \cup {[kind |-> "CreateSession", handle |-> m.handle,
                                   token |-> serverToken + 1, trx |-> NoTrx]}
    /\ UNCHANGED <<sessionVars, channel, drops, serverActive>>

\* ActivateSession: activates the session named by the token when it is the
\* latest one created.
ServerActivateSession(m) ==
    /\ m \in toServer
    /\ m.kind = "ActivateSession"
    /\ serverActive' = IF m.token = serverToken THEN m.token ELSE serverActive
    /\ toServer' = toServer \ {m}
    /\ toClient' = toClient \cup {[kind |-> m.kind, handle |-> m.handle,
                                   token |-> serverToken, trx |-> m.trx]}
    /\ UNCHANGED <<sessionVars, channel, drops, serverToken>>

\* ActivateSession refused (spec.md section 7, Service errors): the server
\* answers with a Bad serviceResult (an identity token it does not accept)
\* and activates nothing.
ServerActivateRefused(m) ==
    /\ m \in toServer
    /\ m.kind = "ActivateSession"
    /\ toServer' = toServer \ {m}
    /\ toClient' = toClient \cup {[kind |-> m.kind, handle |-> m.handle,
                                   token |-> serverToken, trx |-> m.trx]}
    /\ UNCHANGED <<sessionVars, channel, drops, serverToken, serverActive>>

\* A service request is answered with the handle it carried.
ServerService(m) ==
    /\ m \in toServer
    /\ m.kind = "Service"
    /\ toServer' = toServer \ {m}
    /\ toClient' = toClient \cup {m}
    /\ UNCHANGED <<sessionVars, channel, drops, serverToken, serverActive>>

\* A server that never answers (spec.md S5).
ServerIgnore(m) ==
    /\ ServerLossy
    /\ m \in toServer
    /\ m.kind = "Service"
    /\ toServer' = toServer \ {m}
    /\ UNCHANGED <<sessionVars, channel, drops, toClient, serverToken, serverActive>>

-----------------------------------------------------------------------------
(* The components of a standalone session: each posts a transaction once, *)
(* with or without a componentService.                                  *)

PostTransaction(t, viaComponent) ==
    /\ t \notin posted
    /\ posted' = posted \cup {t}
    /\ inbox' = inbox \cup {t}
    /\ componentService' = IF viaComponent THEN componentService \cup {t}
                                           ELSE componentService
    /\ UNCHANGED <<sessionState, requestHandle, authToken, serviceSetMap, pending,
                   routed, completed, envVars>>

-----------------------------------------------------------------------------

\* What the session, its channel and the server do.
SessionNext ==
    \/ CreateSession
    \/ ActivateSession
    \/ HandleSecureChannelConnect
    \/ HandleSecureChannelDisconnect
    \/ \E ty \in ServiceTypes : RegisterService(ty) \/ DeregisterService(ty)
    \/ \E t \in Trx : Send(t) \/ SendRejected(t) \/ PendingQueueTimeout(t)
    \/ \E m \in toClient :
          \/ ReceiveCreateSessionResponse(m)
          \/ ReceiveActivateSessionResponse(m)
          \/ ReceiveMessage(m)
          \/ ReceiveMessageDiscarded(m)
    \/ \E m \in toServer :
          \/ ServerCreateSession(m)
          \/ ServerActivateSession(m)
          \/ ServerService(m)
          \/ ServerIgnore(m)

Next ==
    \/ SessionNext
    \/ \E t \in Trx, b \in BOOLEAN : PostTransaction(t, b)

Spec == Init /\ [][Next]_vars

\* The session against a server that may refuse an activation.
RefusingSpec == Init /\ [][Next \/ \E m \in toServer : ServerActivateRefused(m)]_vars

-----------------------------------------------------------------------------
(* Properties *)

\* Correlation (receiveMessage, send): a transaction handed to a component
\* carries the response the server produced for that transaction's own
\* request, never the response to another request, however responses are
\* reordered, delayed past their timeout or lost.
CorrelationCorrect == \A r \in routed : r.resp = r.trx

\* Session tokens (send, activateSession, receiveCreateSessionResponse):
\* every service request on its way to the server carries the token of the
\* session the server has currently activated, also across channel drops,
\* reconnects and the re-creation of the session they cause.
TokenCurrent ==
    \A m \in toServer : m.kind = "Service" => m.token = serverActive

\* Activation is confirmed (receiveActivateSessionResponse,
\* activateSessionComplete): while the client is in ReceiveActivateSession,
\* where it sends service requests, the server has activated the very
\* session whose token the client holds, across reconnects and re-created
\* sessions.
SessionActiveOnServer ==
    sessionState = "ReceiveActivateSession" => serverActive = authToken

\* Invalid events change nothing (spec.md 4.4 and property 5): the
\* channel-connected event (handleSecureChannelConnect) is permitted only in
\* ConnectingToSecureChannel, and in any other state it leaves the session
\* state as it is.
ConnectStateSafety ==
    [][(channel = "Connecting" /\ channel' = "Open"
        /\ sessionState # "ConnectingToSecureChannel") => UNCHANGED sessionState]_vars

-----------------------------------------------------------------------------
(* Refinement: the pending queue is the set of outstanding transactions,  *)
(* the transactions routed to components the delivered ones.              *)

ST == INSTANCE ServiceTransactions WITH outstanding <- pending, delivered <- routed

\* The session implements ServiceTransactions (send, receiveMessage,
\* pendingQueueTimeout): a transaction is sent only while it is not
\* pending, and is handed to a component only while pending, once, with its
\* own response; a response arriving after its transaction timed out or was
\* already answered never reaches a component.
ImplementsServiceTransactions == ST!STSpec

=============================================================================
