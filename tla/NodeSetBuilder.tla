--------------------------- MODULE NodeSetBuilder ---------------------------
(***************************************************************************)
(* The client-side node-set builder ClientServiceNodeSet of              *)
(* src/src/OpcUaClient/ClientService/ClientServiceNodeSet.cpp.  The       *)
(* application thread runs run(): it inserts a Root node, starts a         *)
(* recursive asynchronous Browse and blocks on browseCompleted_.  The     *)
(* browse collaborator (ViewServiceBrowse, not under src/, modelled from  *)
(* spec.md 4.7) calls viewServiceBrowseResult once per browsed node on a  *)
(* reactor thread; for each reference that callback reads the target's   *)
(* attributes with readNodeAttributes, which sends an asynchronous Read   *)
(* and blocks that reactor thread on readCompleted_ until                 *)
(* attributeServiceNodeDone is delivered, again by a reactor thread.      *)
(* Node ids are model values; the address space of the server is the     *)
(* constant reference graph Refs with the node class of each target.      *)
(***************************************************************************)
EXTENDS Naturals, FiniteSets

CONSTANTS
    Nodes,            \* node ids of the server's address space
    Root,             \* the standard Root object (numeric node id 84)
    Refs,             \* Refs[n]: targets of the references a Browse of n returns
    NodeClassOf,      \* NodeClassOf[n]: node class a reference to n reports
    ReactorThreads    \* threads of the I/O reactor that deliver callbacks

\* The eight NodeClassType values readNodeAttributes constructs a node for.
NodeClasses == {"Object", "Variable", "Method", "ObjectType", "VariableType",
                "ReferenceType", "DataType", "View"}

ASSUME GraphAssumption ==
    /\ Root \in Nodes
    /\ Refs \in [Nodes -> SUBSET Nodes]
    /\ NodeClassOf \in [Nodes -> NodeClasses \cup {"Unspecified"}]
ASSUME ThreadsAssumption == ReactorThreads \in Nat \ {0}

Status == {"Success", "Bad"}

VARIABLES
    runPc,           \* application thread in run(): "Start", "Wait", "True", "False"
    model,           \* informationModel_: ids of the inserted nodes
    references,      \* references appended to nodes of the model (parent, target)
    browseCompleted, \* browseCompleted_.conditionBool
    browseStatus,    \* browseStatusCode_
    bPc,             \* browse collaborator: "Idle", "Requested", "Delivering", "Done"
    frontier,        \* node ids of the outstanding Browse request
    toDeliver,       \* nodes of the current Browse response not yet delivered
    browsed,         \* nodes already browsed
    browseFailed,    \* nodes whose browse result was a bad status (history)
    cbPc,            \* viewServiceBrowseResult: "Idle", "Loop", "Waiting"
    cbNode,          \* its nodeId argument
    cbRefs,          \* references of cbNode still to be processed
    readNodeId,      \* readNodeId_
    readPending,     \* an asyncReadNode request is outstanding
    readCompleted,   \* readCompleted_.conditionBool
    readStatus,      \* readStatusCode_
    readFailed,      \* nodes whose attribute read failed (history)
    readOk           \* nodes whose attribute read succeeded (history)

nsVars == <<runPc, model, references, browseCompleted, browseStatus, bPc, frontier,
            toDeliver, browsed, browseFailed, cbPc, cbNode, cbRefs, readNodeId,
            readPending, readCompleted, readStatus, readFailed, readOk>>

NodeSetTypeOK ==
    /\ runPc \in {"Start", "Wait", "True", "False"}
    /\ model \subseteq Nodes
    /\ references \subseteq Nodes \X Nodes
    /\ browseCompleted \in BOOLEAN
    /\ browseStatus \in Status
    /\ bPc \in {"Idle", "Requested", "Delivering", "Done"}
    /\ frontier \subseteq Nodes /\ toDeliver \subseteq Nodes
    /\ browsed \subseteq Nodes /\ browseFailed \subseteq Nodes
    /\ cbPc \in {"Idle", "Loop", "Waiting"}
    /\ cbNode \in Nodes /\ cbRefs \subseteq Nodes
    /\ readNodeId \in Nodes
    /\ readPending \in BOOLEAN /\ readCompleted \in BOOLEAN
    /\ readStatus \in Status
    /\ readFailed \subseteq Nodes /\ readOk \subseteq Nodes

\* The constructor: browseStatusCode_ and readStatusCode_ are Success, the
\* condition variables false, the information model empty.
NodeSetInit ==
    /\ runPc = "Start"
    /\ model = {} /\ references = {}
    /\ browseCompleted = FALSE /\ browseStatus = "Success"
    /\ bPc = "Idle" /\ frontier = {} /\ toDeliver = {}
    /\ browsed = {} /\ browseFailed = {}
    /\ cbPc = "Idle" /\ cbNode = Root /\ cbRefs = {}
    /\ readNodeId = Root /\ readPending = FALSE /\ readCompleted = FALSE
    /\ readStatus = "Success" /\ readFailed = {} /\ readOk = {}

\* Reactor threads held by a callback: a Browse response is delivered on
\* one thread, which stays in viewServiceBrowseResult while it waits.
BusyThreads == IF bPc = "Delivering" THEN 1 ELSE 0

-----------------------------------------------------------------------------
(* run(): the application thread *)

\* A lookup before the browse fails (no client access object, no session,
\* no attribute or view service): run returns false.
RunSetupFails ==
    /\ runPc = "Start"
    /\ runPc' = "False"
    /\ UNCHANGED <<model, references, browseCompleted, browseStatus, bPc, frontier,
                   toDeliver, browsed, browseFailed, cbPc, cbNode, cbRefs, readNodeId,
                   readPending, readCompleted, readStatus, readFailed, readOk>>

\* createRootNode: an ObjectNodeClass with node id 84, browse name "Root",
\* zeroed masks, is inserted into the information model.
CreateRootNode == model' = model \cup {Root}

\* createRootNode inserts Root; asyncBrowse({Root}) is sent with
\* recursive(true); the thread blocks in browseCompleted_.waitForCondition.
RunStart ==
    /\ runPc = "Start"
    /\ runPc' = "Wait"
    /\ CreateRootNode
    /\ bPc' = "Requested"
    /\ frontier' = {Root}
    /\ UNCHANGED <<references, browseCompleted, browseStatus, toDeliver, browsed,
                   browseFailed, cbPc, cbNode, cbRefs, readNodeId, readPending,
                   readCompleted, readStatus, readFailed, readOk>>

\* waitForCondition returns; run returns true iff browseStatusCode_ is Success.
RunReturn ==
    /\ runPc = "Wait"
    /\ browseCompleted
    /\ runPc' = IF browseStatus = "Success" THEN "True" ELSE "False"
    /\ UNCHANGED <<model, references, browseCompleted, browseStatus, bPc, frontier,
                   toDeliver, browsed, browseFailed, cbPc, cbNode, cbRefs, readNodeId,
                   readPending, readCompleted, readStatus, readFailed, readOk>>

-----------------------------------------------------------------------------
(* Callbacks of the browse collaborator and of the attribute read *)

\* Mutant of ViewServiceBrowseDone: the status is stored but
\* browseCompleted_.conditionTrue() is not called.
ViewServiceBrowseDoneNoSignal(status) ==
    /\ browseStatus' = status
    /\ browseCompleted' = browseCompleted

\* viewServiceBrowseDone: store the status, signal browseCompleted_.
ViewServiceBrowseDone(status) ==
    /\ browseStatus' = status
    /\ browseCompleted' = TRUE

\* viewServiceBrowseResult returning at once: the browse of the node failed,
\* or the node is not in the information model.
ViewServiceBrowseResultSkip(n) ==
    /\ bPc = "Delivering" /\ cbPc = "Idle"
    /\ n \in toDeliver
    /\ n \in browseFailed \/ n \notin model
    /\ toDeliver' = toDeliver \ {n}
    /\ UNCHANGED <<runPc, model, references, browseCompleted, browseStatus, bPc,
                   frontier, browsed, browseFailed, cbPc, cbNode, cbRefs, readNodeId,
                   readPending, readCompleted, readStatus, readFailed, readOk>>

\* viewServiceBrowseResult for a browsed node of the model: loop over its
\* reference descriptions.
ViewServiceBrowseResult(n) ==
    /\ bPc = "Delivering" /\ cbPc = "Idle"
    /\ n \in toDeliver
    /\ n \notin browseFailed /\ n \in model
    /\ toDeliver' = toDeliver \ {n}
    /\ cbPc' = "Loop"
    /\ cbNode' = n
    /\ cbRefs' = Refs[n]
    /\ UNCHANGED <<runPc, model, references, browseCompleted, browseStatus, bPc,
                   frontier, browsed, browseFailed, readNodeId, readPending,
                   readCompleted, readStatus, readFailed, readOk>>

\* The loop is over: viewServiceBrowseResult returns.  No reference was
\* appended to the node ("add reference to node" is an empty statement).
ViewServiceBrowseResultReturn ==
    /\ cbPc = "Loop"
    /\ cbRefs = {}
    /\ cbPc' = "Idle"
    /\ UNCHANGED <<runPc, model, references, browseCompleted, browseStatus, bPc,
                   frontier, toDeliver, browsed, browseFailed, cbNode, cbRefs,
                   readNodeId, readPending, readCompleted, readStatus, readFailed,
                   readOk>>

\* Mutant of ReadNodeAttributesRefused: the existence check looks up the
\* parent node id (the nodeId argument) instead of readNodeId_.
ReadNodeAttributesRefusedParent(t) ==
    /\ cbPc = "Loop"
    /\ t \in cbRefs
    /\ cbNode \in model \/ NodeClassOf[t] = "Unspecified"
    /\ readNodeId' = t
    /\ cbRefs' = cbRefs \ {t}
    /\ UNCHANGED <<runPc, model, references, browseCompleted, browseStatus, bPc,
                   frontier, toDeliver, browsed, browseFailed, cbPc, cbNode,
                   readPending, readCompleted, readStatus, readFailed, readOk>>

\* readNodeAttributes returning at once for the reference's target t:
\* BadNodeIdExists when t is in the model, BadViewParameterMismatch when its
\* node class is none of the eight.
ReadNodeAttributesRefused(t) ==
    /\ cbPc = "Loop"
    /\ t \in cbRefs
    /\ t \in model \/ NodeClassOf[t] = "Unspecified"
    /\ readNodeId' = t
    /\ cbRefs' = cbRefs \ {t}
    /\ UNCHANGED <<runPc, model, references, browseCompleted, browseStatus, bPc,
                   frontier, toDeliver, browsed, browseFailed, cbPc, cbNode,
                   readPending, readCompleted, readStatus, readFailed, readOk>>

\* Mutant of ReadNodeAttributes: the check that the node already exists in
\* the information model is missing; a valid target is always read.
ReadNodeAttributesNoExistsCheck(t) ==
    /\ cbPc = "Loop"
    /\ t \in cbRefs
    /\ NodeClassOf[t] # "Unspecified"
    /\ readNodeId' = t
    /\ cbRefs' = cbRefs \ {t}
    /\ readCompleted' = FALSE
    /\ readPending' = TRUE
    /\ cbPc' = "Waiting"
    /\ UNCHANGED <<runPc, model, references, browseCompleted, browseStatus, bPc,
                   frontier, toDeliver, browsed, browseFailed, cbNode, readStatus,
                   readFailed, readOk>>

\* readNodeAttributes for a new target t: construct the node object,
\* readCompleted_.conditionInit(), asyncReadNode(), and block the calling
\* (reactor) thread in readCompleted_.waitForCondition().
ReadNodeAttributes(t) ==
    /\ cbPc = "Loop"
    /\ t \in cbRefs
    /\ t \notin model /\ NodeClassOf[t] # "Unspecified"
    /\ readNodeId' = t
    /\ cbRefs' = cbRefs \ {t}
    /\ readCompleted' = FALSE
    /\ readPending' = TRUE
    /\ cbPc' = "Waiting"
    /\ UNCHANGED <<runPc, model, references, browseCompleted, browseStatus, bPc,
                   frontier, toDeliver, browsed, browseFailed, cbNode, readStatus,
                   readFailed, readOk>>

\* attributeServiceNodeDone, delivered by a free reactor thread with the
\* status of the Read: store it in readStatusCode_, signal readCompleted_.
AttributeServiceNodeDone ==
    /\ readPending
    /\ BusyThreads < ReactorThreads
    /\ \E s \in Status :
          /\ readStatus' = s
          /\ readFailed' = IF s = "Success" THEN readFailed ELSE readFailed \cup {readNodeId}
          /\ readOk' = IF s = "Success" THEN readOk \cup {readNodeId} ELSE readOk
    /\ readCompleted' = TRUE
    /\ readPending' = FALSE
    /\ UNCHANGED <<runPc, model, references, browseCompleted, browseStatus, bPc,
                   frontier, toDeliver, browsed, browseFailed, cbPc, cbNode, cbRefs,
                   readNodeId>>

\* waitForCondition returns in readNodeAttributes: on Success the node is
\* inserted under readNodeId_; the status is returned to the loop.
ReadNodeAttributesReturn ==
    /\ cbPc = "Waiting"
    /\ readCompleted
    /\ model' = IF readStatus = "Success" THEN model \cup {readNodeId} ELSE model
    /\ cbPc' = "Loop"
    /\ UNCHANGED <<runPc, references, browseCompleted, browseStatus, bPc, frontier,
                   toDeliver, browsed, browseFailed, cbNode, cbRefs, readNodeId,
                   readPending, readCompleted, readStatus, readFailed, readOk>>

-----------------------------------------------------------------------------
(* The browse collaborator (ViewServiceBrowse, from spec.md 4.7) *)

\* The server answers the Browse of the frontier; the browse of any of its
\* nodes may fail.  The response is delivered on one reactor thread.
BrowseRespond ==
    /\ bPc = "Requested"
    /\ \E failed \in SUBSET frontier : browseFailed' = browseFailed \cup failed
    /\ toDeliver' = frontier
    /\ browsed' = browsed \cup frontier
    /\ bPc' = "Delivering"
    /\ UNCHANGED <<runPc, model, references, browseCompleted, browseStatus, frontier,
                   cbPc, cbNode, cbRefs, readNodeId, readPending, readCompleted,
                   readStatus, readFailed, readOk>>

\* The Browse request fails as a whole: viewServiceBrowseDone(Bad).
BrowseRequestFails ==
    /\ bPc = "Requested"
    /\ bPc' = "Done"
    /\ ViewServiceBrowseDone("Bad")
    /\ UNCHANGED <<runPc, model, references, frontier, toDeliver, browsed,
                   browseFailed, cbPc, cbNode, cbRefs, readNodeId, readPending,
                   readCompleted, readStatus, readFailed, readOk>>

\* The nodes inserted while the response was delivered and not yet browsed.
NextFrontier ==
    {t \in UNION {Refs[n] : n \in frontier \ browseFailed} : t \in model \ browsed}

\* Every node of the response has been delivered: recurse into the newly
\* inserted nodes, or report viewServiceBrowseDone(Success).
BrowseRecurse ==
    /\ bPc = "Delivering" /\ toDeliver = {} /\ cbPc = "Idle"
    /\ IF NextFrontier = {}
         THEN /\ bPc' = "Done"
              /\ ViewServiceBrowseDone("Success")
              /\ frontier' = frontier
         ELSE /\ bPc' = "Requested"
              /\ frontier' = NextFrontier
              /\ UNCHANGED <<browseCompleted, browseStatus>>
    /\ UNCHANGED <<runPc, model, references, toDeliver, browsed, browseFailed, cbPc,
                   cbNode, cbRefs, readNodeId, readPending, readCompleted,
                   readStatus, readFailed, readOk>>

-----------------------------------------------------------------------------

NodeSetNext ==
    \/ RunSetupFails \/ RunStart \/ RunReturn
    \/ \E n \in Nodes : ViewServiceBrowseResultSkip(n) \/ ViewServiceBrowseResult(n)
    \/ ViewServiceBrowseResultReturn
    \/ \E t \in Nodes : ReadNodeAttributesRefused(t) \/ ReadNodeAttributes(t)
    \/ AttributeServiceNodeDone
    \/ ReadNodeAttributesReturn
    \/ BrowseRespond \/ BrowseRequestFails \/ BrowseRecurse

\* Every thread keeps running: the application thread, the reactor threads
\* delivering callbacks, the blocked callback once woken, and the server.
NodeSetFairness ==
    /\ WF_nsVars(RunSetupFails \/ RunStart)
    /\ WF_nsVars(RunReturn)
    /\ WF_nsVars(\E n \in Nodes : ViewServiceBrowseResultSkip(n) \/ ViewServiceBrowseResult(n))
    /\ WF_nsVars(ViewServiceBrowseResultReturn)
    /\ WF_nsVars(\E t \in Nodes : ReadNodeAttributesRefused(t) \/ ReadNodeAttributes(t))
    /\ WF_nsVars(AttributeServiceNodeDone)
    /\ WF_nsVars(ReadNodeAttributesReturn)
    /\ WF_nsVars(BrowseRespond \/ BrowseRequestFails)
    /\ WF_nsVars(BrowseRecurse)

NodeSetSpec == NodeSetInit /\ [][NodeSetNext]_nsVars /\ NodeSetFairness

-----------------------------------------------------------------------------
(* Properties *)

\* When run() returns true, the information model is closed under browsing:
\* every inserted node was browsed, and every reference of a node whose
\* browse succeeded leads to a node of the model, unless the target's
\* attribute read failed or its node class is invalid (spec.md 4.7 step 3
\* and the failure policy).
BuildComplete ==
    runPc = "True" =>
        /\ model \subseteq browsed
        /\ \A n \in model \ browseFailed : \A t \in Refs[n] :
              t \in model \/ t \in readFailed \/ NodeClassOf[t] = "Unspecified"

\* When run() returns true, every reference of every successfully browsed
\* node is appended to that node (spec.md 4.6 and 4.7 step 3: "Append the
\* reference to the parent regardless").
ReferencesRecorded ==
    runPc = "True" =>
        \A n \in model \ browseFailed : \A t \in Refs[n] : <<n, t>> \in references

\* run() terminates: the application thread blocked in
\* browseCompleted_.waitForCondition is eventually released.
RunTerminates == <>(runPc \in {"True", "False"})

\* No node is read twice: readNodeAttributes sends an attribute Read for a
\* reference target only if no earlier Read of that node succeeded, also
\* when the target is a child shared by several parents or closes a cycle.
\* The existence check at its start must find every node read before,
\* inserted under its own readNodeId_.
ReadOnce ==
    [][\A t \in Nodes :
          (~readPending /\ readPending' /\ readNodeId' = t) => t \notin readOk]_nsVars

=============================================================================
