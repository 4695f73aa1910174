------------------------ MODULE NodeSetBuilderProofs ------------------------
(***************************************************************************)
(* Proofs about the node-set builder of NodeSetBuilder.tla: its type      *)
(* invariant and BuildComplete, for every address space Refs, every       *)
(* NodeClassOf and every number of reactor threads.                       *)
(***************************************************************************)
EXTENDS NodeSetBuilder, TLAPS

\* The targets of the references of the nodes of S.
Children(S) == UNION {Refs[n] : n \in S}

\* A reference target that BuildComplete accepts: it is in the model, its
\* attribute read failed, or its node class is invalid.
Covered(t) == t \in model \/ t \in readFailed \/ NodeClassOf[t] = "Unspecified"

\* The reference (n, t) is still being processed by viewServiceBrowseResult:
\* it is left in the loop, or its readNodeAttributes is in progress.
InProgress(n, t) ==
    /\ cbPc # "Idle"
    /\ n = cbNode
    /\ t \in cbRefs \/ (cbPc = "Waiting" /\ t = readNodeId)

\* The phases of the three threads fit together: run() waits from the first
\* Browse on, a callback runs only while a response is delivered, and a Read
\* is outstanding only while a callback waits for it.
PhaseInv ==
    /\ runPc = "Start" => bPc = "Idle"
    /\ bPc = "Idle" => model = {} /\ browsed = {}
    /\ bPc # "Delivering" => toDeliver = {} /\ cbPc = "Idle"
    /\ browseCompleted => bPc = "Done"
    /\ runPc = "True" => browseCompleted /\ browseStatus = "Success"
    /\ readPending => cbPc = "Waiting" /\ ~readCompleted

\* Which nodes of the model are not yet browsed in each phase of the
\* recursive browse: at most the outstanding frontier while it is requested,
\* only targets of the frontier's references while it is delivered, none
\* once the browse succeeded.
FrontierInv ==
    /\ frontier \subseteq model /\ browsed \subseteq model
    /\ toDeliver \subseteq frontier
    /\ bPc = "Requested" => model \ browsed \subseteq frontier
    /\ bPc = "Delivering" =>
          /\ frontier \subseteq browsed
          /\ model \ browsed \subseteq Children(frontier \ browseFailed)
    /\ bPc = "Done" /\ browseStatus = "Success" => model \subseteq browsed

\* The callback in progress works on a delivered node of the frontier whose
\* browse succeeded; a completed Read either succeeded or is recorded failed.
CallbackInv ==
    /\ cbPc # "Idle" =>
          /\ cbNode \in frontier \ browseFailed
          /\ cbNode \notin toDeliver
          /\ cbRefs \subseteq Refs[cbNode]
    /\ cbPc = "Waiting" =>
          /\ readNodeId \in Refs[cbNode] \ cbRefs
          /\ readPending \/ readStatus = "Success" \/ readNodeId \in readFailed

\* Every reference of every delivered node whose browse succeeded is covered,
\* or still in progress in the callback.
CoverageInv ==
    \A n \in browsed \ (browseFailed \cup toDeliver) :
        \A t \in Refs[n] : Covered(t) \/ InProgress(n, t)

\* Every node read successfully is in the model, except the one whose Read
\* the callback waits on, which is inserted when readNodeAttributes wakes;
\* an outstanding Read is of a node not read before.
ReadOkInv ==
    /\ readOk \subseteq model \cup {x \in {readNodeId} : cbPc = "Waiting"}
    /\ cbPc = "Waiting" /\ readNodeId \in readOk =>
          readCompleted /\ readStatus = "Success"
    /\ readPending => readNodeId \notin readOk

\* The inductive invariant BuildComplete and ReadOnce follow from.
BInv == NodeSetTypeOK /\ PhaseInv /\ FrontierInv /\ CallbackInv /\ CoverageInv /\ ReadOkInv

USE GraphAssumption, ThreadsAssumption

-----------------------------------------------------------------------------
(* Type correctness *)

\* Every step of the builder keeps the variables in their types: the
\* targets it reads and inserts are nodes of the address space.
LEMMA TypeStep == NodeSetTypeOK /\ [NodeSetNext]_nsVars => NodeSetTypeOK'
<1> SUFFICES ASSUME NodeSetTypeOK, [NodeSetNext]_nsVars PROVE NodeSetTypeOK'
    OBVIOUS
<1>1. CASE RunSetupFails \/ RunStart \/ RunReturn
    BY <1>1 DEF RunSetupFails, RunStart, RunReturn, CreateRootNode, NodeSetTypeOK
<1>2. ASSUME NEW n \in Nodes, ViewServiceBrowseResultSkip(n) \/ ViewServiceBrowseResult(n)
      PROVE NodeSetTypeOK'
    BY <1>2 DEF ViewServiceBrowseResultSkip, ViewServiceBrowseResult, NodeSetTypeOK
<1>3. CASE ViewServiceBrowseResultReturn
    BY <1>3 DEF ViewServiceBrowseResultReturn, NodeSetTypeOK
<1>4. ASSUME NEW t \in Nodes, ReadNodeAttributesRefused(t) \/ ReadNodeAttributes(t)
      PROVE NodeSetTypeOK'
    BY <1>4 DEF ReadNodeAttributesRefused, ReadNodeAttributes, NodeSetTypeOK
<1>5. CASE AttributeServiceNodeDone
    BY <1>5 DEF AttributeServiceNodeDone, Status, NodeSetTypeOK
<1>6. CASE ReadNodeAttributesReturn
    BY <1>6 DEF ReadNodeAttributesReturn, NodeSetTypeOK
<1>7. CASE BrowseRespond \/ BrowseRequestFails
    BY <1>7 DEF BrowseRespond, BrowseRequestFails, ViewServiceBrowseDone, Status,
                NodeSetTypeOK
<1>8. CASE BrowseRecurse
    BY <1>8 DEF BrowseRecurse, NextFrontier, ViewServiceBrowseDone, Status,
                NodeSetTypeOK
<1>9. CASE UNCHANGED nsVars
    BY <1>9 DEF nsVars, NodeSetTypeOK
<1>10. QED
    BY <1>1, <1>2, <1>3, <1>4, <1>5, <1>6, <1>7, <1>8, <1>9 DEF NodeSetNext

\* The builder's variables always have their types (NodeSetTypeOK, checked
\* by nodeset_build), for every address space and number of threads.
THEOREM NodeSetTypeCorrect == NodeSetSpec => []NodeSetTypeOK
<1>1. NodeSetInit => NodeSetTypeOK
    BY DEF NodeSetInit, NodeSetTypeOK, Status
<1>2. QED
    BY <1>1, TypeStep, PTL DEF NodeSetSpec

-----------------------------------------------------------------------------
(* BuildComplete *)

\* BInv holds initially: nothing is browsed and no callback runs.
LEMMA InitBInv == NodeSetInit => BInv
BY DEF NodeSetInit, BInv, NodeSetTypeOK, Status, PhaseInv, FrontierInv,
       CallbackInv, CoverageInv, ReadOkInv

\* Every step of run(), of the callbacks and of the browse collaborator
\* keeps BInv.
LEMMA BInvStep == BInv /\ [NodeSetNext]_nsVars => BInv'
<1> SUFFICES ASSUME BInv, [NodeSetNext]_nsVars PROVE BInv'
    OBVIOUS
<1> USE DEF BInv
<1>0. NodeSetTypeOK'
    BY TypeStep
<1> DEFINE Invs == PhaseInv /\ FrontierInv /\ CallbackInv /\ CoverageInv /\ ReadOkInv
<1> HIDE DEF Invs
<1> SUFFICES Invs'
    BY <1>0 DEF Invs
<1> USE DEF Invs, PhaseInv, FrontierInv, CallbackInv, CoverageInv, ReadOkInv,
             NodeSetTypeOK
<1>1. CASE RunSetupFails
    BY <1>1 DEF RunSetupFails, Covered, InProgress
<1>2. CASE RunStart
    BY <1>2 DEF RunStart, CreateRootNode, Covered, InProgress
<1>3. CASE RunReturn
    BY <1>3 DEF RunReturn, Covered, InProgress
<1>4. ASSUME NEW n \in Nodes, ViewServiceBrowseResultSkip(n)
      PROVE Invs'
    BY <1>4 DEF ViewServiceBrowseResultSkip, Covered, InProgress
<1>5. ASSUME NEW n \in Nodes, ViewServiceBrowseResult(n)
      PROVE Invs'
    BY <1>5 DEF ViewServiceBrowseResult, Covered, InProgress
<1>6. CASE ViewServiceBrowseResultReturn
    BY <1>6 DEF ViewServiceBrowseResultReturn, Covered, InProgress
<1>7. ASSUME NEW t \in Nodes, ReadNodeAttributesRefused(t)
      PROVE Invs'
    BY <1>7 DEF ReadNodeAttributesRefused, Covered, InProgress
<1>8. ASSUME NEW t \in Nodes, ReadNodeAttributes(t)
      PROVE Invs'
    BY <1>8 DEF ReadNodeAttributes, Covered, InProgress
<1>9. CASE AttributeServiceNodeDone
    BY <1>9 DEF AttributeServiceNodeDone, Covered, InProgress
<1>10. CASE ReadNodeAttributesReturn
    BY <1>10 DEF ReadNodeAttributesReturn, Covered, InProgress, Children
<1>11. CASE BrowseRespond
    BY <1>11 DEF BrowseRespond, Covered, InProgress, Children
<1>12. CASE BrowseRequestFails
    BY <1>12 DEF BrowseRequestFails, ViewServiceBrowseDone, Covered, InProgress
<1>13. CASE BrowseRecurse
    BY <1>13 DEF BrowseRecurse, ViewServiceBrowseDone, NextFrontier, Covered,
                 InProgress, Children
<1>14. CASE UNCHANGED nsVars
    BY <1>14 DEF nsVars, Covered, InProgress, Children
<1>15. QED
    BY <1>1, <1>2, <1>3, <1>4, <1>5, <1>6, <1>7, <1>8, <1>9, <1>10, <1>11,
       <1>12, <1>13, <1>14 DEF NodeSetNext

\* BInv is an invariant of the builder.
THEOREM BInvHolds == NodeSetSpec => []BInv
BY InitBInv, BInvStep, PTL DEF NodeSetSpec

\* When run() returns true, the browse succeeded and no callback is left:
\* every node of the model was browsed and each of its references covered.
LEMMA BInvBuildComplete == BInv => BuildComplete
<1> SUFFICES ASSUME BInv, runPc = "True" PROVE BuildComplete
    BY DEF BuildComplete
<1>1. bPc = "Done" /\ browseStatus = "Success"
    BY DEF BInv, PhaseInv
<1>2. model \subseteq browsed /\ toDeliver = {} /\ cbPc = "Idle"
    BY <1>1 DEF BInv, PhaseInv, FrontierInv
<1>3. \A n \in model \ browseFailed : \A t \in Refs[n] : Covered(t)
    BY <1>2 DEF BInv, CoverageInv, InProgress
<1>4. QED
    BY <1>2, <1>3 DEF BuildComplete, Covered

\* When run() returns true, the information model holds every node that was
\* browsed and read (BuildComplete, checked by nodeset_build), for every
\* address space, node classes and number of reactor threads: browsing
\* recursively from Root with failing browses and reads never returns true
\* with a reference to a new, readable node left out.
THEOREM BuildCompleteHolds == NodeSetSpec => []BuildComplete
BY BInvHolds, BInvBuildComplete, PTL

-----------------------------------------------------------------------------
(* ReadOnce *)

\* Only readNodeAttributes sends a Read, and it sends one for a target that
\* is not in the model; outside a Read every node read before is there.
LEMMA ReadOnceStep ==
    BInv /\ [NodeSetNext]_nsVars =>
       [\A t \in Nodes :
           (~readPending /\ readPending' /\ readNodeId' = t) => t \notin readOk]_nsVars
<1> SUFFICES ASSUME BInv, [NodeSetNext]_nsVars,
                    NEW t \in Nodes, ~readPending, readPending', readNodeId' = t
             PROVE  t \notin readOk
    BY DEF nsVars
<1>1. ASSUME NEW u \in Nodes, ReadNodeAttributes(u) PROVE t \notin readOk
    <2>1. u = t /\ u \notin model /\ cbPc = "Loop"
        BY <1>1 DEF ReadNodeAttributes
    <2>2. QED
        BY <2>1 DEF BInv, ReadOkInv
<1>2. CASE UNCHANGED nsVars
    BY <1>2 DEF nsVars
<1>3. QED
    \* Every other step leaves readPending FALSE or sets it to FALSE.
    BY <1>1, <1>2 DEF NodeSetNext, RunSetupFails, RunStart, RunReturn,
       ViewServiceBrowseResultSkip, ViewServiceBrowseResult,
       ViewServiceBrowseResultReturn, ReadNodeAttributesRefused,
       AttributeServiceNodeDone, ReadNodeAttributesReturn, BrowseRespond,
       BrowseRequestFails, BrowseRecurse, ViewServiceBrowseDone

\* No node is read twice (ReadOnce, checked by nodeset_build): a Read is
\* sent only for a target whose earlier Reads all failed, for every
\* address space with shared children and cycles and every number of
\* reactor threads; the existence check of readNodeAttributes sees every
\* node read before because it was inserted under its own readNodeId_.
THEOREM ReadOnceHolds == NodeSetSpec => ReadOnce
BY BInvHolds, ReadOnceStep, PTL DEF NodeSetSpec, ReadOnce

=============================================================================
