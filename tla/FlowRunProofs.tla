--------------------------- MODULE FlowRunProofs ---------------------------
(***************************************************************************)
(* Proofs about FlowRun, for every set of runs, every graph and every      *)
(* value of the limits: first the life cycle of runs, then, on top of its  *)
(* invariant, why runs are cancelled, which runs can be found, how many    *)
(* are active, retained and archived, and what a succeeded run did.        *)
(***************************************************************************)
EXTENDS FlowRun, TLAPS, FiniteSetTheorems, FunctionTheorems

(* The executor is at a node, and a request that is under way has a run.   *)
AtNode == {"mark", "attempt", "backoff", "after", "record"}

Targets ==
    /\ \A r \in Run : pc[r] \in AtNode => cur[r] \in Node
    /\ \A c \in Canceller : cpc[c] # "idle" => crun[c] \in Run
    /\ \A k \in Caller : kpc[k] = "running" => krun[k] \in Run
    /\ dpc = "signal" => drun \in Run

TypeInv == TypeOK /\ Targets

USE DEF Terminal, Active, RunStatus, Reason, NodeStatus, ExecPC, FinalPC, AtNode,
        NodeOutcome, flowVars, regVars, stateVars, execVars, archVars,
        cancelVars, callVars, deleteVars, boundVars

(* The record of a run without a file is a record. *)
LEMMA NoRecType == NoRec \in Record
  BY DEF NoRec, Record

(* Initially every variable has its type. *)
LEMMA InitType == Init => TypeInv
<1> SUFFICES ASSUME Init PROVE TypeInv
  OBVIOUS
<1>1. RegType
  BY DEF Init, RegType
<1>2. StateType
  BY DEF Init, StateType
<1>3. ExecType
  BY GraphAssumption DEF Init, ExecType
<1>4. ArchType
  BY NoRecType DEF Init, ArchType
<1>5. RequestType
  BY LimitAssumption DEF Init, RequestType
<1>6. Targets
  BY DEF Init, Targets
<1> QED BY <1>1, <1>2, <1>3, <1>4, <1>5, <1>6 DEF TypeInv, TypeOK

(* Cancelling a run keeps the type of its state. *)
LEMMA WriteCancelledType ==
    ASSUME StateType, NEW r \in Run, NEW why \in Reason, WriteCancelled(r, why)
    PROVE  StateType'
<1>1. CancelNodes(nodes[r]) \in [Node -> NodeStatus]
  BY DEF CancelNodes, StateType
<1>2. FirstReason(r, why) \in Reason
  BY DEF FirstReason, StateType
<1> QED BY <1>1, <1>2 DEF WriteCancelled, StateType

(* So does cancelRunState, which may leave the run alone. *)
LEMMA CancelRunStateType ==
    ASSUME StateType, NEW r \in Run, NEW why \in Reason, CancelRunState(r, why)
    PROVE  StateType'
  BY WriteCancelledType DEF CancelRunState, StateType

(* So does leaving executeGraph, for the executor's locals. *)
LEMMA LeaveType ==
    ASSUME ExecType, NEW r \in Run, Leave(r), UNCHANGED ctxDone
    PROVE  ExecType'
  BY GraphAssumption DEF Leave, Goto, ExecType

(* Writing one node's status, or its selected case. *)
LEMMA NodeWriteType ==
    ASSUME StateType, NEW r \in Run, NEW n \in Node, NEW v \in NodeStatus,
           NEW c \in Case
    PROVE  /\ [nodes EXCEPT ![r][n] = v] \in [Run -> [Node -> NodeStatus]]
           /\ [sel EXCEPT ![r][n] = c] \in [Run -> [Node -> Case \cup {NoCase}]]
<1>1. [nodes[r] EXCEPT ![n] = v] \in [Node -> NodeStatus]
  BY DEF StateType
<1>2. [sel[r] EXCEPT ![n] = c] \in [Node -> Case \cup {NoCase}]
  BY DEF StateType
<1> QED BY <1>1, <1>2 DEF StateType

(* The same, where no case is selected. *)
LEMMA NodeMarkType ==
    ASSUME StateType, NEW r \in Run, NEW n \in Node, NEW v \in NodeStatus
    PROVE  [nodes EXCEPT ![r][n] = v] \in [Run -> [Node -> NodeStatus]]
<1>1. [nodes[r] EXCEPT ![n] = v] \in [Node -> NodeStatus]
  BY DEF StateType
<1> QED BY <1>1 DEF StateType

(* The node after n is a place the executor may be at. *)
LEMMA NextNode ==
    ASSUME NEW n \in Node
    PROVE  n + 1 \in 1..NumNodes + 1
  BY GraphAssumption DEF Node

(* A place that is not behind the last node is a node. *)
LEMMA NotLast ==
    ASSUME NEW n \in 1..NumNodes + 1, ~(n > NumNodes)
    PROVE  n \in Node
  BY GraphAssumption DEF Node

(* StartRun keeps the types. *)
LEMMA StartRunType ==
    ASSUME TypeInv, NEW r \in Run, NEW t \in BOOLEAN, StartRun(r, t)
    PROVE  TypeInv'
<1>1. RegType'
  BY DEF TypeInv, TypeOK, RegType, StartRun, RecordRun
<1>2. StateType'
  BY DEF TypeInv, TypeOK, StateType, StartRun, RecordRun
<1>3. ExecType'
  BY DEF TypeInv, TypeOK, ExecType, StartRun, RecordRun
<1>4. ArchType'
  BY DEF TypeInv, TypeOK, ArchType, StartRun, RecordRun
<1>5. RequestType'
  BY DEF TypeInv, TypeOK, RequestType, StartRun, RecordRun
<1>6. Targets'
  BY DEF TypeInv, TypeOK, Targets, ExecType, RequestType, StartRun, RecordRun
<1> QED BY <1>1, <1>2, <1>3, <1>4, <1>5, <1>6 DEF TypeInv, TypeOK

(* ExecBegin keeps the types. *)
LEMMA ExecBeginType ==
    ASSUME TypeInv, NEW r \in Run, ExecBegin(r)
    PROVE  TypeInv'
<1>1. RegType'
  BY DEF TypeInv, TypeOK, RegType, ExecBegin, ExecFrame
<1>2. StateType'
  BY WriteCancelledType DEF TypeInv, TypeOK, StateType, ExecBegin
<1>3. ExecType'
  BY LeaveType DEF TypeInv, TypeOK, ExecType, Goto, ExecFrame, ExecBegin
<1>4. ArchType'
  BY DEF TypeInv, TypeOK, ArchType, ExecBegin, ExecFrame
<1>5. RequestType'
  BY DEF TypeInv, TypeOK, RequestType, ExecBegin, ExecFrame
<1>6. Targets'
  BY DEF TypeInv, TypeOK, Targets, ExecType, RequestType, ExecBegin, Leave, Goto, ExecFrame
<1> QED BY <1>1, <1>2, <1>3, <1>4, <1>5, <1>6 DEF TypeInv, TypeOK

(* ExecHead keeps the types. *)
LEMMA ExecHeadType ==
    ASSUME TypeInv, NEW r \in Run, ExecHead(r)
    PROVE  TypeInv'
<1>1. RegType'
  BY DEF TypeInv, TypeOK, RegType, ExecHead, ExecFrame
<1>2. StateType'
  BY CancelRunStateType DEF TypeInv, TypeOK, StateType, ExecHead
<1>3. ExecType'
  BY LeaveType DEF TypeInv, TypeOK, ExecType, Goto, ExecFrame, ExecHead
<1>4. ArchType'
  BY DEF TypeInv, TypeOK, ArchType, ExecHead, ExecFrame
<1>5. RequestType'
  BY DEF TypeInv, TypeOK, RequestType, ExecHead, ExecFrame
<1>6. Targets'
  BY NotLast DEF TypeInv, TypeOK, Targets, ExecType, RequestType, ExecHead, Leave,
     Goto, ExecFrame
<1> QED BY <1>1, <1>2, <1>3, <1>4, <1>5, <1>6 DEF TypeInv, TypeOK

(* ExecMark keeps the types. *)
LEMMA ExecMarkType ==
    ASSUME TypeInv, NEW r \in Run, ExecMark(r)
    PROVE  TypeInv'
<1>1. RegType'
  BY DEF TypeInv, TypeOK, RegType, ExecMark, ExecFrame
<1>2. StateType'
  <2>1. cur[r] \in Node
    BY DEF TypeInv, TypeOK, Targets, ExecMark
  <2>2. nodes' \in [Run -> [Node -> NodeStatus]]
    <3>1. PICK v \in {"running", "skipped"} : nodes' = [nodes EXCEPT ![r][cur[r]] = v]
      BY DEF ExecMark
    <3>2. StateType /\ v \in NodeStatus
      BY DEF TypeInv, TypeOK, NodeStatus
    <3> QED BY <2>1, <3>1, <3>2, NodeMarkType
  <2>3. UNCHANGED <<status, reason, sel, ctxDone>>
    BY DEF ExecMark, ExecFrame
  <2> QED BY <2>2, <2>3 DEF TypeInv, TypeOK, StateType
<1>3. ExecType'
  <2>1. cur[r] \in Node
    BY DEF TypeInv, TypeOK, Targets, ExecMark
  <2> QED BY <2>1, NextNode DEF TypeInv, TypeOK, ExecType, ExecMark, Goto, ExecFrame
<1>4. ArchType'
  BY DEF TypeInv, TypeOK, ArchType, ExecMark, ExecFrame
<1>5. RequestType'
  BY DEF TypeInv, TypeOK, RequestType, ExecMark, ExecFrame
<1>6. Targets'
  BY DEF TypeInv, TypeOK, Targets, ExecType, RequestType, ExecMark, Goto, ExecFrame
<1> QED BY <1>1, <1>2, <1>3, <1>4, <1>5, <1>6 DEF TypeInv, TypeOK

(* ExecAttempt keeps the types. *)
LEMMA ExecAttemptType ==
    ASSUME TypeInv, NEW r \in Run, ExecAttempt(r)
    PROVE  TypeInv'
<1>1. RegType'
  BY DEF TypeInv, TypeOK, RegType, ExecAttempt, Goto, ExecFrame
<1>2. StateType'
  BY DEF TypeInv, TypeOK, StateType, ExecAttempt, Goto, ExecFrame
<1>3. ExecType'
  BY DEF TypeInv, TypeOK, ExecType, ExecAttempt, Goto, ExecFrame
<1>4. ArchType'
  BY DEF TypeInv, TypeOK, ArchType, ExecAttempt, Goto, ExecFrame
<1>5. RequestType'
  BY DEF TypeInv, TypeOK, RequestType, ExecAttempt, Goto, ExecFrame
<1>6. Targets'
  BY DEF TypeInv, TypeOK, Targets, ExecType, RequestType, ExecAttempt, Goto, ExecFrame
<1> QED BY <1>1, <1>2, <1>3, <1>4, <1>5, <1>6 DEF TypeInv, TypeOK

(* ExecBackoff keeps the types. *)
LEMMA ExecBackoffType ==
    ASSUME TypeInv, NEW r \in Run, ExecBackoff(r)
    PROVE  TypeInv'
<1>1. RegType'
  BY DEF TypeInv, TypeOK, RegType, ExecBackoff, Goto, ExecFrame
<1>2. StateType'
  BY DEF TypeInv, TypeOK, StateType, ExecBackoff, Goto, ExecFrame
<1>3. ExecType'
  BY DEF TypeInv, TypeOK, ExecType, ExecBackoff, Goto, ExecFrame
<1>4. ArchType'
  BY DEF TypeInv, TypeOK, ArchType, ExecBackoff, Goto, ExecFrame
<1>5. RequestType'
  BY DEF TypeInv, TypeOK, RequestType, ExecBackoff, Goto, ExecFrame
<1>6. Targets'
  BY DEF TypeInv, TypeOK, Targets, ExecType, RequestType, ExecBackoff, Goto, ExecFrame
<1> QED BY <1>1, <1>2, <1>3, <1>4, <1>5, <1>6 DEF TypeInv, TypeOK

(* ExecAfter keeps the types. *)
LEMMA ExecAfterType ==
    ASSUME TypeInv, NEW r \in Run, ExecAfter(r)
    PROVE  TypeInv'
<1>1. RegType'
  BY DEF TypeInv, TypeOK, RegType, ExecAfter, ExecFrame
<1>2. StateType'
  BY CancelRunStateType DEF TypeInv, TypeOK, StateType, ExecAfter
<1>3. ExecType'
  BY LeaveType DEF TypeInv, TypeOK, ExecType, Goto, ExecFrame, ExecAfter
<1>4. ArchType'
  BY DEF TypeInv, TypeOK, ArchType, ExecAfter, ExecFrame
<1>5. RequestType'
  BY DEF TypeInv, TypeOK, RequestType, ExecAfter, ExecFrame
<1>6. Targets'
  BY DEF TypeInv, TypeOK, Targets, ExecType, RequestType, ExecAfter, Leave, Goto, ExecFrame
<1> QED BY <1>1, <1>2, <1>3, <1>4, <1>5, <1>6 DEF TypeInv, TypeOK

(* ExecRecord keeps the types. *)
LEMMA ExecRecordType ==
    ASSUME TypeInv, NEW r \in Run, ExecRecord(r)
    PROVE  TypeInv'
<1>1. RegType'
  BY DEF TypeInv, TypeOK, RegType, ExecRecord, ExecFrame
<1>2. StateType'
  <2>1. CASE status[r] = "cancelled"
    BY <2>1, WriteCancelledType DEF TypeInv, TypeOK, ExecRecord
  <2>2. CASE status[r] # "cancelled"
    <3>1. cur[r] \in Node
      BY DEF TypeInv, TypeOK, Targets, ExecRecord
    <3>2. nodes' \in [Run -> [Node -> NodeStatus]]
      <4> DEFINE v == IF last[r] = "ok" THEN "succeeded" ELSE "failed"
      <4>1. nodes' = [nodes EXCEPT ![r][cur[r]] = v]
        BY <2>2 DEF ExecRecord
      <4>2. v \in NodeStatus
        OBVIOUS
      <4> QED BY <3>1, <4>1, <4>2, NodeMarkType DEF TypeInv, TypeOK
    <3>3. sel' \in [Run -> [Node -> Case \cup {NoCase}]]
      <4>1. CASE UNCHANGED sel
        BY <4>1 DEF TypeInv, TypeOK, StateType
      <4>2. CASE \E c \in BranchCases[cur[r]] : sel' = [sel EXCEPT ![r][cur[r]] = c]
        <5>1. PICK c \in BranchCases[cur[r]] : sel' = [sel EXCEPT ![r][cur[r]] = c]
          BY <4>2
        <5>2. c \in Case
          BY <3>1, <5>1 DEF Case
        <5> QED BY <3>1, <5>1, <5>2, NodeWriteType DEF TypeInv, TypeOK
      <4> QED BY <2>2, <4>1, <4>2 DEF ExecRecord
    <3> QED BY <2>2, <3>2, <3>3 DEF TypeInv, TypeOK, StateType, ExecRecord
  <2> QED BY <2>1, <2>2
<1>3. ExecType'
  <2>1. CASE status[r] = "cancelled"
    BY <2>1, LeaveType DEF TypeInv, TypeOK, ExecRecord, ExecFrame
  <2>2. CASE status[r] # "cancelled"
    <3>1. cur[r] \in Node
      BY DEF TypeInv, TypeOK, Targets, ExecRecord
    <3> QED BY <2>2, <3>1, NextNode DEF TypeInv, TypeOK, ExecType, ExecRecord, Goto, ExecFrame
  <2> QED BY <2>1, <2>2
<1>4. ArchType'
  BY DEF TypeInv, TypeOK, ArchType, ExecRecord, ExecFrame
<1>5. RequestType'
  BY DEF TypeInv, TypeOK, RequestType, ExecRecord, ExecFrame
<1>6. Targets'
  BY DEF TypeInv, TypeOK, Targets, ExecType, RequestType, ExecRecord, Leave, Goto, ExecFrame
<1> QED BY <1>1, <1>2, <1>3, <1>4, <1>5, <1>6 DEF TypeInv, TypeOK

(* ExecFail keeps the types. *)
LEMMA ExecFailType ==
    ASSUME TypeInv, NEW r \in Run, ExecFail(r)
    PROVE  TypeInv'
<1>1. RegType'
  BY DEF TypeInv, TypeOK, RegType, ExecFail, ExecFrame
<1>2. StateType'
  BY DEF TypeInv, TypeOK, StateType, ExecFail, ExecFrame
<1>3. ExecType'
  BY LeaveType DEF TypeInv, TypeOK, ExecType, Goto, ExecFrame, ExecFail
<1>4. ArchType'
  BY DEF TypeInv, TypeOK, ArchType, ExecFail, ExecFrame
<1>5. RequestType'
  BY DEF TypeInv, TypeOK, RequestType, ExecFail, ExecFrame
<1>6. Targets'
  BY DEF TypeInv, TypeOK, Targets, ExecType, RequestType, ExecFail, Leave, Goto, ExecFrame
<1> QED BY <1>1, <1>2, <1>3, <1>4, <1>5, <1>6 DEF TypeInv, TypeOK

(* ExecFinish keeps the types. *)
LEMMA ExecFinishType ==
    ASSUME TypeInv, NEW r \in Run, ExecFinish(r)
    PROVE  TypeInv'
<1>1. RegType'
  BY DEF TypeInv, TypeOK, RegType, ExecFinish, ExecFrame
<1>2. StateType'
  BY WriteCancelledType DEF TypeInv, TypeOK, StateType, ExecFinish
<1>3. ExecType'
  BY LeaveType DEF TypeInv, TypeOK, ExecType, Goto, ExecFrame, ExecFinish
<1>4. ArchType'
  BY DEF TypeInv, TypeOK, ArchType, ExecFinish, ExecFrame
<1>5. RequestType'
  BY DEF TypeInv, TypeOK, RequestType, ExecFinish, ExecFrame
<1>6. Targets'
  BY DEF TypeInv, TypeOK, Targets, ExecType, RequestType, ExecFinish, Leave, Goto, ExecFrame
<1> QED BY <1>1, <1>2, <1>3, <1>4, <1>5, <1>6 DEF TypeInv, TypeOK

(* Snapshot keeps the types. *)
LEMMA SnapshotType ==
    ASSUME TypeInv, NEW r \in Run, Snapshot(r)
    PROVE  TypeInv'
<1>1. RegType'
  BY DEF TypeInv, TypeOK, RegType, Snapshot, Goto, FinalFrame
<1>2. StateType'
  BY DEF TypeInv, TypeOK, StateType, Snapshot, Goto, FinalFrame
<1>3. ExecType'
  BY DEF TypeInv, TypeOK, ExecType, Snapshot, Goto, FinalFrame
<1>4. ArchType'
  <2>1. CASE Archiving /\ status[r] \in Terminal
    <3> DEFINE rec == [status |-> status[r], reason |-> reason[r], nodes |-> nodes[r],
                       sel |-> sel[r], at |-> clock + 1]
    <3>1. rec \in Record
      BY <2>1 DEF TypeInv, TypeOK, RegType, StateType, Record
    <3>2. snap' = [snap EXCEPT ![r] = rec]
      BY <2>1 DEF Snapshot
    <3> QED BY <3>1, <3>2 DEF TypeInv, TypeOK, ArchType, Snapshot
  <2>2. CASE ~(Archiving /\ status[r] \in Terminal)
    BY <2>2 DEF TypeInv, TypeOK, ArchType, Snapshot
  <2> QED BY <2>1, <2>2
<1>5. RequestType'
  BY DEF TypeInv, TypeOK, RequestType, Snapshot, Goto, FinalFrame
<1>6. Targets'
  BY DEF TypeInv, TypeOK, Targets, ExecType, RequestType, Snapshot, Goto, FinalFrame
<1> QED BY <1>1, <1>2, <1>3, <1>4, <1>5, <1>6 DEF TypeInv, TypeOK

(* SaveArchive keeps the types. *)
LEMMA SaveArchiveType ==
    ASSUME TypeInv, NEW r \in Run, SaveArchive(r)
    PROVE  TypeInv'
<1>1. RegType'
  BY DEF TypeInv, TypeOK, RegType, SaveArchive, Goto, FinalFrame
<1>2. StateType'
  BY DEF TypeInv, TypeOK, StateType, SaveArchive, Goto, FinalFrame
<1>3. ExecType'
  BY DEF TypeInv, TypeOK, ExecType, SaveArchive, Goto, FinalFrame
<1>4. ArchType'
  BY NoRecType DEF TypeInv, TypeOK, ArchType, SaveArchive, FinalFrame
<1>5. RequestType'
  BY DEF TypeInv, TypeOK, RequestType, SaveArchive, Goto, FinalFrame
<1>6. Targets'
  BY DEF TypeInv, TypeOK, Targets, ExecType, RequestType, SaveArchive, Goto, FinalFrame
<1> QED BY <1>1, <1>2, <1>3, <1>4, <1>5, <1>6 DEF TypeInv, TypeOK

(* PruneRuns keeps the types. *)
LEMMA PruneRunsType ==
    ASSUME TypeInv, NEW r \in Run, PruneRuns(r)
    PROVE  TypeInv'
<1>1. RegType'
  BY DEF TypeInv, TypeOK, RegType, PruneRuns, Goto, FinalFrame
<1>2. StateType'
  BY DEF TypeInv, TypeOK, StateType, PruneRuns, Goto, FinalFrame
<1>3. ExecType'
  BY DEF TypeInv, TypeOK, ExecType, PruneRuns, Goto, FinalFrame
<1>4. ArchType'
  BY DEF TypeInv, TypeOK, RegType, ArchType, PruneRuns, Pruned, FinalFrame
<1>5. RequestType'
  BY DEF TypeInv, TypeOK, RequestType, PruneRuns, Goto, FinalFrame
<1>6. Targets'
  BY DEF TypeInv, TypeOK, Targets, ExecType, RequestType, PruneRuns, Goto, FinalFrame
<1> QED BY <1>1, <1>2, <1>3, <1>4, <1>5, <1>6 DEF TypeInv, TypeOK

(* RemoveArchived keeps the types. *)
LEMMA RemoveArchivedType ==
    ASSUME TypeInv, NEW r \in Run, RemoveArchived(r)
    PROVE  TypeInv'
<1>1. RegType'
  BY DEF TypeInv, TypeOK, RegType, RemoveArchived, Goto, FinalFrame
<1>2. StateType'
  BY DEF TypeInv, TypeOK, StateType, RemoveArchived, Goto, FinalFrame
<1>3. ExecType'
  BY DEF TypeInv, TypeOK, ExecType, RemoveArchived, Goto, FinalFrame
<1>4. ArchType'
  BY NoRecType DEF TypeInv, TypeOK, ArchType, RemoveArchived, FinalFrame
<1>5. RequestType'
  BY DEF TypeInv, TypeOK, RequestType, RemoveArchived, Goto, FinalFrame
<1>6. Targets'
  BY DEF TypeInv, TypeOK, Targets, ExecType, RequestType, RemoveArchived, Goto, FinalFrame
<1> QED BY <1>1, <1>2, <1>3, <1>4, <1>5, <1>6 DEF TypeInv, TypeOK

(* CapabilityLookup keeps the types. *)
LEMMA CapabilityLookupType ==
    ASSUME TypeInv, NEW k \in Caller, CapabilityLookup(k)
    PROVE  TypeInv'
<1>1. RegType'
  BY DEF TypeInv, TypeOK, RegType, CapabilityLookup
<1>2. StateType'
  BY DEF TypeInv, TypeOK, StateType, CapabilityLookup
<1>3. ExecType'
  BY DEF TypeInv, TypeOK, ExecType, CapabilityLookup
<1>4. ArchType'
  BY DEF TypeInv, TypeOK, ArchType, CapabilityLookup
<1>5. RequestType'
  BY DEF TypeInv, TypeOK, RequestType, CapabilityLookup
<1>6. Targets'
  BY DEF TypeInv, TypeOK, Targets, ExecType, RequestType, CapabilityLookup
<1> QED BY <1>1, <1>2, <1>3, <1>4, <1>5, <1>6 DEF TypeInv, TypeOK

(* CapabilityReturn keeps the types. *)
LEMMA CapabilityReturnType ==
    ASSUME TypeInv, NEW k \in Caller, CapabilityReturn(k)
    PROVE  TypeInv'
<1>1. RegType'
  BY DEF TypeInv, TypeOK, RegType, CapabilityReturn
<1>2. StateType'
  BY DEF TypeInv, TypeOK, StateType, CapabilityReturn
<1>3. ExecType'
  BY DEF TypeInv, TypeOK, Targets, ExecType, CapabilityReturn
<1>4. ArchType'
  BY DEF TypeInv, TypeOK, ArchType, CapabilityReturn
<1>5. RequestType'
  BY DEF TypeInv, TypeOK, RequestType, CapabilityReturn
<1>6. Targets'
  BY DEF TypeInv, TypeOK, Targets, ExecType, RequestType, CapabilityReturn
<1> QED BY <1>1, <1>2, <1>3, <1>4, <1>5, <1>6 DEF TypeInv, TypeOK

(* CapabilityEnqueue keeps the types. *)
LEMMA CapabilityEnqueueType ==
    ASSUME TypeInv, NEW k \in Caller, NEW r \in Run, CapabilityEnqueue(k, r)
    PROVE  TypeInv'
<1>1. RegType'
  BY DEF TypeInv, TypeOK, RegType, CapabilityEnqueue, RecordRun
<1>2. StateType'
  BY DEF TypeInv, TypeOK, StateType, CapabilityEnqueue, RecordRun
<1>3. ExecType'
  BY DEF TypeInv, TypeOK, ExecType, CapabilityEnqueue, RecordRun
<1>4. ArchType'
  BY DEF TypeInv, TypeOK, ArchType, CapabilityEnqueue, RecordRun
<1>5. RequestType'
  BY DEF TypeInv, TypeOK, RequestType, CapabilityEnqueue, RecordRun
<1>6. Targets'
  BY DEF TypeInv, TypeOK, Targets, ExecType, RequestType, CapabilityEnqueue, RecordRun
<1> QED BY <1>1, <1>2, <1>3, <1>4, <1>5, <1>6 DEF TypeInv, TypeOK

(* CancelState keeps the types. *)
LEMMA CancelStateType ==
    ASSUME TypeInv, NEW c \in Canceller, CancelState(c)
    PROVE  TypeInv'
<1>1. RegType'
  BY DEF TypeInv, TypeOK, RegType, CancelState
<1>2. StateType'
  <2>1. crun[c] \in Run
    BY DEF TypeInv, TypeOK, RequestType, Targets, CancelState
  <2> QED BY <2>1, CancelRunStateType DEF TypeInv, TypeOK, CancelState
<1>3. ExecType'
  BY DEF TypeInv, TypeOK, ExecType, CancelState
<1>4. ArchType'
  BY DEF TypeInv, TypeOK, ArchType, CancelState
<1>5. RequestType'
  BY DEF TypeInv, TypeOK, RequestType, CancelState
<1>6. Targets'
  BY DEF TypeInv, TypeOK, Targets, ExecType, RequestType, CancelState
<1> QED BY <1>1, <1>2, <1>3, <1>4, <1>5, <1>6 DEF TypeInv, TypeOK

(* CancelSignal keeps the types. *)
LEMMA CancelSignalType ==
    ASSUME TypeInv, NEW c \in Canceller, CancelSignal(c)
    PROVE  TypeInv'
<1>1. RegType'
  BY DEF TypeInv, TypeOK, RegType, CancelSignal
<1>2. StateType'
  BY DEF TypeInv, TypeOK, StateType, CancelSignal
<1>3. ExecType'
  BY DEF TypeInv, TypeOK, Targets, RequestType, ExecType, CancelSignal
<1>4. ArchType'
  BY DEF TypeInv, TypeOK, ArchType, CancelSignal
<1>5. RequestType'
  BY DEF TypeInv, TypeOK, RequestType, CancelSignal
<1>6. Targets'
  BY DEF TypeInv, TypeOK, Targets, ExecType, RequestType, CancelSignal
<1> QED BY <1>1, <1>2, <1>3, <1>4, <1>5, <1>6 DEF TypeInv, TypeOK

(* CancelLookup keeps the types. *)
LEMMA CancelLookupType ==
    ASSUME TypeInv, NEW c \in Canceller, NEW r \in Run, CancelLookup(c, r)
    PROVE  TypeInv'
<1>1. RegType'
  BY DEF TypeInv, TypeOK, RegType, CancelLookup
<1>2. StateType'
  BY DEF TypeInv, TypeOK, StateType, CancelLookup
<1>3. ExecType'
  BY DEF TypeInv, TypeOK, ExecType, CancelLookup
<1>4. ArchType'
  BY DEF TypeInv, TypeOK, ArchType, CancelLookup
<1>5. RequestType'
  BY DEF TypeInv, TypeOK, RequestType, CancelLookup
<1>6. Targets'
  BY DEF TypeInv, TypeOK, Targets, ExecType, RequestType, CancelLookup
<1> QED BY <1>1, <1>2, <1>3, <1>4, <1>5, <1>6 DEF TypeInv, TypeOK

(* SetFlow keeps the types. *)
LEMMA SetFlowType ==
    ASSUME TypeInv, SetFlow
    PROVE  TypeInv'
<1>1. RegType'
  BY DEF TypeInv, TypeOK, RegType, SetFlow
<1>2. StateType'
  BY DEF TypeInv, TypeOK, StateType, SetFlow
<1>3. ExecType'
  BY DEF TypeInv, TypeOK, ExecType, SetFlow
<1>4. ArchType'
  BY DEF TypeInv, TypeOK, ArchType, SetFlow
<1>5. RequestType'
  BY DEF TypeInv, TypeOK, RequestType, SetFlow
<1>6. Targets'
  BY DEF TypeInv, TypeOK, Targets, ExecType, RequestType, SetFlow
<1> QED BY <1>1, <1>2, <1>3, <1>4, <1>5, <1>6 DEF TypeInv, TypeOK

(* DeleteLookup keeps the types. *)
LEMMA DeleteLookupType ==
    ASSUME TypeInv, DeleteLookup
    PROVE  TypeInv'
<1>1. RegType'
  BY DEF TypeInv, TypeOK, RegType, DeleteLookup
<1>2. StateType'
  BY DEF TypeInv, TypeOK, StateType, DeleteLookup
<1>3. ExecType'
  BY DEF TypeInv, TypeOK, ExecType, DeleteLookup
<1>4. ArchType'
  BY DEF TypeInv, TypeOK, ArchType, DeleteLookup
<1>5. RequestType'
  BY LimitAssumption DEF TypeInv, TypeOK, RequestType, DeleteLookup
<1>6. Targets'
  BY DEF TypeInv, TypeOK, Targets, ExecType, RequestType, DeleteLookup
<1> QED BY <1>1, <1>2, <1>3, <1>4, <1>5, <1>6 DEF TypeInv, TypeOK

(* DeleteStoreFails keeps the types. *)
LEMMA DeleteStoreFailsType ==
    ASSUME TypeInv, DeleteStoreFails
    PROVE  TypeInv'
<1>1. RegType'
  BY DEF TypeInv, TypeOK, RegType, DeleteStoreFails
<1>2. StateType'
  BY DEF TypeInv, TypeOK, StateType, DeleteStoreFails
<1>3. ExecType'
  BY DEF TypeInv, TypeOK, ExecType, DeleteStoreFails
<1>4. ArchType'
  BY DEF TypeInv, TypeOK, ArchType, DeleteStoreFails
<1>5. RequestType'
  BY DEF TypeInv, TypeOK, RequestType, DeleteStoreFails
<1>6. Targets'
  BY DEF TypeInv, TypeOK, Targets, ExecType, RequestType, DeleteStoreFails
<1> QED BY <1>1, <1>2, <1>3, <1>4, <1>5, <1>6 DEF TypeInv, TypeOK

(* DeleteCommit keeps the types. *)
LEMMA DeleteCommitType ==
    ASSUME TypeInv, DeleteCommit
    PROVE  TypeInv'
<1>1. RegType'
  BY DEF TypeInv, TypeOK, RegType, DeleteCommit
<1>2. StateType'
  BY DEF TypeInv, TypeOK, StateType, DeleteCommit
<1>3. ExecType'
  BY DEF TypeInv, TypeOK, ExecType, DeleteCommit
<1>4. ArchType'
  BY DEF TypeInv, TypeOK, ArchType, DeleteCommit
<1>5. RequestType'
  BY DEF TypeInv, TypeOK, RegType, RequestType, DeleteCommit
<1>6. Targets'
  BY DEF TypeInv, TypeOK, Targets, ExecType, RequestType, DeleteCommit
<1> QED BY <1>1, <1>2, <1>3, <1>4, <1>5, <1>6 DEF TypeInv, TypeOK

(* DeleteCancel keeps the types. *)
LEMMA DeleteCancelType ==
    ASSUME TypeInv, DeleteCancel
    PROVE  TypeInv'
<1>1. RegType'
  BY DEF TypeInv, TypeOK, RegType, DeleteCancel
<1>2. StateType'
  BY CancelRunStateType DEF TypeInv, TypeOK, StateType, RequestType, DeleteCancel
<1>3. ExecType'
  BY DEF TypeInv, TypeOK, ExecType, DeleteCancel
<1>4. ArchType'
  BY DEF TypeInv, TypeOK, ArchType, DeleteCancel
<1>5. RequestType'
  BY DEF TypeInv, TypeOK, RequestType, DeleteCancel
<1>6. Targets'
  BY DEF TypeInv, TypeOK, Targets, ExecType, RequestType, DeleteCancel
<1> QED BY <1>1, <1>2, <1>3, <1>4, <1>5, <1>6 DEF TypeInv, TypeOK

(* DeleteSignal keeps the types. *)
LEMMA DeleteSignalType ==
    ASSUME TypeInv, DeleteSignal
    PROVE  TypeInv'
<1>1. RegType'
  BY DEF TypeInv, TypeOK, RegType, DeleteSignal
<1>2. StateType'
  BY DEF TypeInv, TypeOK, StateType, DeleteSignal
<1>3. ExecType'
  BY DEF TypeInv, TypeOK, Targets, ExecType, DeleteSignal
<1>4. ArchType'
  BY DEF TypeInv, TypeOK, ArchType, DeleteSignal
<1>5. RequestType'
  BY DEF TypeInv, TypeOK, RequestType, DeleteSignal
<1>6. Targets'
  BY DEF TypeInv, TypeOK, Targets, ExecType, RequestType, DeleteSignal
<1> QED BY <1>1, <1>2, <1>3, <1>4, <1>5, <1>6 DEF TypeInv, TypeOK

(* DeleteUnlock keeps the types. *)
LEMMA DeleteUnlockType ==
    ASSUME TypeInv, DeleteUnlock
    PROVE  TypeInv'
<1>1. RegType'
  BY DEF TypeInv, TypeOK, RegType, DeleteUnlock
<1>2. StateType'
  BY DEF TypeInv, TypeOK, StateType, DeleteUnlock
<1>3. ExecType'
  BY DEF TypeInv, TypeOK, ExecType, DeleteUnlock
<1>4. ArchType'
  BY DEF TypeInv, TypeOK, ArchType, DeleteUnlock
<1>5. RequestType'
  BY DEF TypeInv, TypeOK, RequestType, DeleteUnlock
<1>6. Targets'
  BY DEF TypeInv, TypeOK, Targets, ExecType, RequestType, DeleteUnlock
<1> QED BY <1>1, <1>2, <1>3, <1>4, <1>5, <1>6 DEF TypeInv, TypeOK

(* Restart keeps the types. *)
LEMMA RestartType ==
    ASSUME TypeInv, Restart
    PROVE  TypeInv'
<1>1. RegType'
  BY DEF TypeInv, TypeOK, RegType, ArchType, Record, Restart, Archived, Pruned
<1>2. StateType'
  <2>1. NoRec.nodes \in [Node -> NodeStatus] /\ NoRec.sel \in [Node -> Case \cup {NoCase}]
    BY NoRecType DEF Record
  <2>2. \A r \in Run : archive[r] \in Record
    BY DEF TypeInv, TypeOK, ArchType
  <2> QED BY <2>1, <2>2 DEF StateType, Record, Restart
<1>3. ExecType'
  BY GraphAssumption DEF TypeInv, TypeOK, ExecType, Restart
<1>4. ArchType'
  BY NoRecType DEF TypeInv, TypeOK, ArchType, Restart
<1>5. RequestType'
  BY LimitAssumption DEF TypeInv, TypeOK, RequestType, Restart
<1>6. Targets'
  BY DEF TypeInv, TypeOK, Targets, ExecType, RequestType, Restart
<1> QED BY <1>1, <1>2, <1>3, <1>4, <1>5, <1>6 DEF TypeInv, TypeOK

(* Every step keeps the types. *)
LEMMA StepType == TypeInv /\ [Next]_vars => TypeInv'
<1> SUFFICES ASSUME TypeInv, [Next]_vars PROVE TypeInv'
  OBVIOUS
<1>1. CASE UNCHANGED vars
  BY <1>1 DEF TypeInv, TypeOK, Targets, vars, RegType, StateType, ExecType, ArchType,
     RequestType
<1>2. CASE \E r \in Run : RunLocal(r) \/ TryStartRunWithTrigger(r)
  BY <1>2, StartRunType DEF RunLocal, TryStartRunWithTrigger
<1>3. CASE \E r \in Run : ExecStep(r)
  BY <1>3, ExecBeginType, ExecHeadType, ExecMarkType, ExecAttemptType, ExecBackoffType,
     ExecAfterType, ExecRecordType, ExecFailType, ExecFinishType, SnapshotType,
     SaveArchiveType, PruneRunsType, RemoveArchivedType DEF ExecStep
<1>4. CASE \E k \in Caller : \/ CapabilityLookup(k) \/ CapabilityReturn(k)
                            \/ \E r \in Run : CapabilityEnqueue(k, r)
  BY <1>4, CapabilityLookupType, CapabilityReturnType, CapabilityEnqueueType
<1>5. CASE \E c \in Canceller : \/ CancelState(c) \/ CancelSignal(c)
                               \/ \E r \in Run : CancelLookup(c, r)
  BY <1>5, CancelStateType, CancelSignalType, CancelLookupType
<1>6. CASE SetFlow \/ DeleteLookup \/ DeleteStoreFails \/ DeleteCommit
           \/ DeleteCancel \/ DeleteSignal \/ DeleteUnlock
  BY <1>6, SetFlowType, DeleteLookupType, DeleteStoreFailsType, DeleteCommitType,
     DeleteCancelType, DeleteSignalType, DeleteUnlockType
<1>7. CASE Restart
  BY <1>7, RestartType
<1> QED BY <1>1, <1>2, <1>3, <1>4, <1>5, <1>6, <1>7 DEF Next

(* Every variable keeps its type, for every instance. *)
THEOREM TypeCorrect == Spec => []TypeOK
<1>1. TypeInv => TypeOK
  BY DEF TypeInv
<1> QED BY InitType, StepType, <1>1, PTL DEF Spec

----------------------------------------------------------------------------
(* The life of a run.  A run that is not registered has no state; a run    *)
(* that a request has in hand is registered; only an executor on its way   *)
(* out makes a run succeeded or failed, and it leaves no run active; what  *)
(* is saved, and what is about to be saved, is the state the run ended in. *)

Matches(rec, r) ==
    /\ rec.status = status[r] /\ rec.reason = reason[r]
    /\ rec.nodes = nodes[r] /\ rec.sel = sel[r]

Unborn ==
    /\ \A r \in Run : pc[r] = "unborn" => status[r] = "none"
    /\ \A r \in known : pc[r] # "unborn"
    /\ \A r \in dtodo : pc[r] # "unborn"
    /\ \A c \in Canceller : cpc[c] # "idle" => pc[crun[c]] # "unborn"

Ends == ExecutorEndsTerminal

Saved ==
    /\ \A r \in Run : pc[r] = "save" => Matches(snap[r], r)
    /\ \A r \in Run : archive[r].status # "none" =>
          pc[r] \in {"prune", "remove", "done"} /\ Matches(archive[r], r)

LifeInv == TypeInv /\ Unborn /\ Ends /\ Saved

(* What a step may do to a settled run: nothing.                           *)
Settled(r) == pc[r] \in FinalPC => /\ status'[r] = status[r] /\ reason'[r] = reason[r]
                                   /\ nodes'[r] = nodes[r] /\ sel'[r] = sel[r]

(* Init: the life-cycle invariant is kept, and no settled run is touched. *)
LEMMA InitLife == Init => LifeInv
  BY InitType DEF Init, LifeInv, Unborn, Ends, ExecutorEndsTerminal, Saved, NoRec

(* StartRun: the life-cycle invariant is kept, and no settled run is touched. *)
LEMMA StartRunLife ==
    ASSUME LifeInv, NEW r \in Run, NEW t \in BOOLEAN, StartRun(r, t)
    PROVE  Unborn' /\ Ends' /\ Saved' /\ \A q \in Run : Settled(q)
<1> USE DEF LifeInv, TypeInv, TypeOK, StateType, ExecType, RegType, RequestType,
            StartRun, RecordRun
<1>1. Unborn'
  BY DEF Unborn, Targets
<1>2. Ends'
  BY DEF Unborn, Ends, ExecutorEndsTerminal
<1>3. Saved'
  BY DEF Saved, Matches
<1>4. \A q \in Run : Settled(q)
  BY DEF Settled
<1> QED BY <1>1, <1>2, <1>3, <1>4

(* A step of the executor of r changes nothing of another run. *)
OthersKept(r) == \A q \in Run \ {r} :
    /\ pc'[q] = pc[q] /\ status'[q] = status[q] /\ reason'[q] = reason[q]
    /\ nodes'[q] = nodes[q] /\ sel'[q] = sel[q]

Executing == {"begin", "head", "mark", "attempt", "backoff", "after", "record",
              "fail", "finish"}

(* An executor inside executeGraph that stays there, leaving its run       *)
(* undecided, or returns with its run terminal.                            *)
ExecEffect(r) ==
    /\ pc[r] \in Executing
    /\ OthersKept(r)
    /\ \/ pc'[r] \in Executing /\ status'[r] \notin {"succeeded", "failed"}
       \/ pc'[r] = "snapshot" /\ status'[r] \in Terminal

(* Exec: the life-cycle invariant is kept, and no settled run is touched. *)
LEMMA ExecLife ==
    ASSUME LifeInv, NEW r \in Run, ExecEffect(r), ExecFrame
    PROVE  Unborn' /\ Ends' /\ Saved' /\ \A q \in Run : Settled(q)
<1> USE DEF ExecEffect, OthersKept, Executing, ExecFrame
<1>1. Unborn'
  BY DEF LifeInv, TypeInv, TypeOK, ExecType, RegType, RequestType, Targets, Unborn
<1>2. Ends'
  BY DEF LifeInv, Ends, ExecutorEndsTerminal
<1>3. Saved'
  BY DEF LifeInv, Saved, Matches
<1>4. \A q \in Run : Settled(q)
  BY DEF Settled
<1> QED BY <1>1, <1>2, <1>3, <1>4

(* What cancelling a run does to the runs. *)
LEMMA WriteCancelledEffect ==
    ASSUME StateType, NEW r \in Run, NEW why \in Reason, WriteCancelled(r, why)
    PROVE  /\ status'[r] = "cancelled"
           /\ \A q \in Run \ {r} : /\ status'[q] = status[q] /\ reason'[q] = reason[q]
                                   /\ nodes'[q] = nodes[q] /\ sel'[q] = sel[q]
  BY DEF WriteCancelled, StateType

(* cancelRunState: the run is terminal afterwards, and a terminal run is kept. *)
LEMMA CancelRunStateEffect ==
    ASSUME StateType, NEW r \in Run, NEW why \in Reason, CancelRunState(r, why)
    PROVE  /\ status'[r] \in Terminal
           /\ status[r] \in Terminal => UNCHANGED stateVars
           /\ status'[r] = status[r] \/ status'[r] = "cancelled"
           /\ \A q \in Run \ {r} : /\ status'[q] = status[q] /\ reason'[q] = reason[q]
                                   /\ nodes'[q] = nodes[q] /\ sel'[q] = sel[q]
  BY WriteCancelledEffect DEF CancelRunState

(* A request that cancels a registered run. *)
LEMMA CancelLife ==
    ASSUME LifeInv, NEW r \in Run, NEW why \in Reason, CancelRunState(r, why),
           pc[r] # "unborn", UNCHANGED <<regVars, execVars, archVars>>
    PROVE  /\ \A q \in Run : pc'[q] = "unborn" => status'[q] = "none"
           /\ Ends' /\ Saved' /\ \A q \in Run : Settled(q)
<1>1. /\ status[r] \in Terminal => UNCHANGED stateVars
      /\ status'[r] = status[r] \/ status'[r] = "cancelled"
      /\ status'[r] \in Terminal
      /\ \A q \in Run \ {r} : /\ status'[q] = status[q] /\ reason'[q] = reason[q]
                              /\ nodes'[q] = nodes[q] /\ sel'[q] = sel[q]
  BY CancelRunStateEffect DEF LifeInv, TypeInv, TypeOK
<1>2. \A q \in Run : pc'[q] = "unborn" => status'[q] = "none"
  BY <1>1 DEF LifeInv, Unborn
<1>3. Ends'
  BY <1>1 DEF LifeInv, Ends, ExecutorEndsTerminal
<1>4. \A q \in Run : Settled(q)
  BY <1>1 DEF LifeInv, Ends, ExecutorEndsTerminal, Settled
<1>5. Saved'
  BY <1>4 DEF LifeInv, Saved, Matches, Settled
<1> QED BY <1>2, <1>3, <1>4, <1>5

(* ExecBegin: the life-cycle invariant is kept, and no settled run is touched. *)
LEMMA ExecBeginLife ==
    ASSUME LifeInv, NEW r \in Run, ExecBegin(r)
    PROVE  Unborn' /\ Ends' /\ Saved' /\ \A q \in Run : Settled(q)
<1>1. ExecEffect(r)
  BY WriteCancelledEffect DEF LifeInv, TypeInv, TypeOK, StateType, ExecType, Ends,
     ExecutorEndsTerminal, ExecEffect, OthersKept, Executing, ExecBegin, Leave, Goto
<1>2. ExecFrame
  BY DEF ExecBegin
<1> QED BY <1>1, <1>2, ExecLife

(* ExecHead: the life-cycle invariant is kept, and no settled run is touched. *)
LEMMA ExecHeadLife ==
    ASSUME LifeInv, NEW r \in Run, ExecHead(r)
    PROVE  Unborn' /\ Ends' /\ Saved' /\ \A q \in Run : Settled(q)
<1>1. ExecEffect(r)
  BY CancelRunStateEffect DEF LifeInv, TypeInv, TypeOK, StateType, ExecType, Ends,
     ExecutorEndsTerminal, ExecEffect, OthersKept, Executing, ExecHead, Leave, Goto
<1>2. ExecFrame
  BY DEF ExecHead
<1> QED BY <1>1, <1>2, ExecLife

(* ExecMark: the life-cycle invariant is kept, and no settled run is touched. *)
LEMMA ExecMarkLife ==
    ASSUME LifeInv, NEW r \in Run, ExecMark(r)
    PROVE  Unborn' /\ Ends' /\ Saved' /\ \A q \in Run : Settled(q)
<1>1. ExecEffect(r)
  <2>1. pc[r] = "mark" /\ UNCHANGED <<status, reason, sel>>
    BY DEF ExecMark
  <2>2. pc'[r] \in {"attempt", "head"} /\ \A q \in Run \ {r} : pc'[q] = pc[q]
    BY DEF LifeInv, TypeInv, TypeOK, ExecType, ExecMark, Goto
  <2>3. \A q \in Run \ {r} : nodes'[q] = nodes[q]
    BY DEF LifeInv, TypeInv, TypeOK, StateType, ExecMark
  <2>4. status[r] \notin {"succeeded", "failed"}
    BY <2>1 DEF LifeInv, Ends, ExecutorEndsTerminal
  <2> QED BY <2>1, <2>2, <2>3, <2>4 DEF ExecEffect, OthersKept, Executing
<1>2. ExecFrame
  BY DEF ExecMark
<1> QED BY <1>1, <1>2, ExecLife

(* ExecAttempt: the life-cycle invariant is kept, and no settled run is touched. *)
LEMMA ExecAttemptLife ==
    ASSUME LifeInv, NEW r \in Run, ExecAttempt(r)
    PROVE  Unborn' /\ Ends' /\ Saved' /\ \A q \in Run : Settled(q)
<1>1. ExecEffect(r)
  BY DEF LifeInv, TypeInv, TypeOK, StateType, ExecType, Ends, ExecutorEndsTerminal,
     ExecEffect, OthersKept, Executing, ExecAttempt, Goto
<1>2. ExecFrame
  BY DEF ExecAttempt
<1> QED BY <1>1, <1>2, ExecLife

(* ExecBackoff: the life-cycle invariant is kept, and no settled run is touched. *)
LEMMA ExecBackoffLife ==
    ASSUME LifeInv, NEW r \in Run, ExecBackoff(r)
    PROVE  Unborn' /\ Ends' /\ Saved' /\ \A q \in Run : Settled(q)
<1>1. ExecEffect(r)
  BY DEF LifeInv, TypeInv, TypeOK, StateType, ExecType, Ends, ExecutorEndsTerminal,
     ExecEffect, OthersKept, Executing, ExecBackoff, Goto
<1>2. ExecFrame
  BY DEF ExecBackoff
<1> QED BY <1>1, <1>2, ExecLife

(* ExecAfter: the life-cycle invariant is kept, and no settled run is touched. *)
LEMMA ExecAfterLife ==
    ASSUME LifeInv, NEW r \in Run, ExecAfter(r)
    PROVE  Unborn' /\ Ends' /\ Saved' /\ \A q \in Run : Settled(q)
<1>1. ExecEffect(r)
  BY CancelRunStateEffect DEF LifeInv, TypeInv, TypeOK, StateType, ExecType, Ends,
     ExecutorEndsTerminal, ExecEffect, OthersKept, Executing, ExecAfter, Leave, Goto
<1>2. ExecFrame
  BY DEF ExecAfter
<1> QED BY <1>1, <1>2, ExecLife

(* ExecRecord: the life-cycle invariant is kept, and no settled run is touched. *)
LEMMA ExecRecordLife ==
    ASSUME LifeInv, NEW r \in Run, ExecRecord(r)
    PROVE  Unborn' /\ Ends' /\ Saved' /\ \A q \in Run : Settled(q)
<1>1. ExecEffect(r)
  <2>1. CASE status[r] = "cancelled"
    BY <2>1, WriteCancelledEffect DEF LifeInv, TypeInv, TypeOK, StateType, ExecType,
       ExecEffect, OthersKept, Executing, ExecRecord, Leave, Goto
  <2>2. CASE status[r] # "cancelled"
    <3>1. /\ UNCHANGED <<status, reason>>
          /\ \A q \in Run \ {r} : nodes'[q] = nodes[q] /\ sel'[q] = sel[q]
          /\ pc[r] = "record" /\ (Goto(r, "head") \/ Goto(r, "fail"))
      BY <2>2 DEF LifeInv, TypeInv, TypeOK, StateType, ExecRecord
    <3> QED BY <3>1 DEF LifeInv, TypeInv, TypeOK, ExecType, Ends, ExecutorEndsTerminal,
               ExecEffect, OthersKept, Executing, Goto
  <2> QED BY <2>1, <2>2
<1>2. ExecFrame
  BY DEF ExecRecord
<1> QED BY <1>1, <1>2, ExecLife

(* ExecFail: the life-cycle invariant is kept, and no settled run is touched. *)
LEMMA ExecFailLife ==
    ASSUME LifeInv, NEW r \in Run, ExecFail(r)
    PROVE  Unborn' /\ Ends' /\ Saved' /\ \A q \in Run : Settled(q)
<1>1. ExecEffect(r)
  BY DEF LifeInv, TypeInv, TypeOK, StateType, ExecType, Ends, ExecutorEndsTerminal,
     ExecEffect, OthersKept, Executing, ExecFail, Leave, Goto
<1>2. ExecFrame
  BY DEF ExecFail
<1> QED BY <1>1, <1>2, ExecLife

(* ExecFinish: the life-cycle invariant is kept, and no settled run is touched. *)
LEMMA ExecFinishLife ==
    ASSUME LifeInv, NEW r \in Run, ExecFinish(r)
    PROVE  Unborn' /\ Ends' /\ Saved' /\ \A q \in Run : Settled(q)
<1>1. ExecEffect(r)
  BY WriteCancelledEffect DEF LifeInv, TypeInv, TypeOK, StateType, ExecType, Ends,
     ExecutorEndsTerminal, ExecEffect, OthersKept, Executing, ExecFinish, Leave, Goto
<1>2. ExecFrame
  BY DEF ExecFinish
<1> QED BY <1>1, <1>2, ExecLife

(* Snapshot: the life-cycle invariant is kept, and no settled run is touched. *)
LEMMA SnapshotLife ==
    ASSUME LifeInv, NEW r \in Run, Snapshot(r)
    PROVE  Unborn' /\ Ends' /\ Saved' /\ \A q \in Run : Settled(q)
<1> USE DEF LifeInv, TypeInv, TypeOK, ExecType, ArchType
<1>1. Unborn'
  BY DEF RegType, RequestType, Targets, Unborn, Snapshot, Goto, FinalFrame
<1>2. Ends'
  BY DEF Ends, ExecutorEndsTerminal, Snapshot, Goto, FinalFrame
<1>3. Saved'
  BY DEF Saved, Matches, Snapshot, Goto, FinalFrame
<1>4. \A q \in Run : Settled(q)
  BY DEF Settled, Snapshot, FinalFrame
<1> QED BY <1>1, <1>2, <1>3, <1>4

(* SaveArchive: the life-cycle invariant is kept, and no settled run is touched. *)
LEMMA SaveArchiveLife ==
    ASSUME LifeInv, NEW r \in Run, SaveArchive(r)
    PROVE  Unborn' /\ Ends' /\ Saved' /\ \A q \in Run : Settled(q)
<1> USE DEF LifeInv, TypeInv, TypeOK, ExecType, ArchType
<1>1. Unborn'
  BY DEF RegType, RequestType, Targets, Unborn, SaveArchive, Goto, FinalFrame
<1>2. Ends'
  BY DEF Ends, ExecutorEndsTerminal, SaveArchive, Goto, FinalFrame
<1>3. Saved'
  BY DEF Saved, Matches, SaveArchive, Goto, FinalFrame
<1>4. \A q \in Run : Settled(q)
  BY DEF Settled, SaveArchive, FinalFrame
<1> QED BY <1>1, <1>2, <1>3, <1>4

(* PruneRuns: the life-cycle invariant is kept, and no settled run is touched. *)
LEMMA PruneRunsLife ==
    ASSUME LifeInv, NEW r \in Run, PruneRuns(r)
    PROVE  Unborn' /\ Ends' /\ Saved' /\ \A q \in Run : Settled(q)
<1> USE DEF LifeInv, TypeInv, TypeOK, ExecType, ArchType
<1>1. Unborn'
  BY DEF RegType, RequestType, Targets, Unborn, PruneRuns, Goto, FinalFrame
<1>2. Ends'
  BY DEF Ends, ExecutorEndsTerminal, PruneRuns, Goto, FinalFrame
<1>3. Saved'
  BY DEF Saved, Matches, PruneRuns, Goto, FinalFrame
<1>4. \A q \in Run : Settled(q)
  BY DEF Settled, PruneRuns, FinalFrame
<1> QED BY <1>1, <1>2, <1>3, <1>4

(* RemoveArchived: the life-cycle invariant is kept, and no settled run is touched. *)
LEMMA RemoveArchivedLife ==
    ASSUME LifeInv, NEW r \in Run, RemoveArchived(r)
    PROVE  Unborn' /\ Ends' /\ Saved' /\ \A q \in Run : Settled(q)
<1> USE DEF LifeInv, TypeInv, TypeOK, ExecType, ArchType
<1>1. Unborn'
  BY DEF RegType, RequestType, Targets, Unborn, RemoveArchived, NoRec, Goto, FinalFrame
<1>2. Ends'
  BY DEF Ends, ExecutorEndsTerminal, RemoveArchived, NoRec, Goto, FinalFrame
<1>3. Saved'
  BY DEF Saved, Matches, RemoveArchived, NoRec, Goto, FinalFrame
<1>4. \A q \in Run : Settled(q)
  BY DEF Settled, RemoveArchived, FinalFrame
<1> QED BY <1>1, <1>2, <1>3, <1>4

(* A step that leaves the runs and their executors alone. *)
LEMMA FrameLife ==
    ASSUME LifeInv, UNCHANGED <<stateVars, execVars, archVars>>,
           known' \subseteq known, dtodo' \subseteq known \cup dtodo,
           \A c \in Canceller : cpc'[c] # "idle" =>
               \/ crun'[c] \in known
               \/ cpc[c] # "idle" /\ crun'[c] = crun[c]
    PROVE  Unborn' /\ Ends' /\ Saved' /\ \A q \in Run : Settled(q)
<1>1. Unborn'
  BY DEF LifeInv, Unborn
<1>2. Ends'
  BY DEF LifeInv, Ends, ExecutorEndsTerminal
<1>3. Saved'
  BY DEF LifeInv, Saved, Matches
<1>4. \A q \in Run : Settled(q)
  BY DEF Settled
<1> QED BY <1>1, <1>2, <1>3, <1>4

(* Request: the life-cycle invariant is kept, and no settled run is touched. *)
LEMMA RequestLife ==
    ASSUME LifeInv,
           \/ \E k \in Caller : CapabilityLookup(k) \/ CapabilityReturn(k)
           \/ \E c \in Canceller : CancelSignal(c) \/ \E r \in Run : CancelLookup(c, r)
           \/ SetFlow \/ DeleteLookup \/ DeleteStoreFails \/ DeleteCommit
           \/ DeleteSignal \/ DeleteUnlock
    PROVE  Unborn' /\ Ends' /\ Saved' /\ \A q \in Run : Settled(q)
<1>1. UNCHANGED <<stateVars, execVars, archVars, known>>
  BY DEF CapabilityLookup, CapabilityReturn, CancelSignal, CancelLookup, SetFlow,
     DeleteLookup, DeleteStoreFails, DeleteCommit, DeleteSignal, DeleteUnlock
<1>2. dtodo' \subseteq known \cup dtodo
  BY DEF CapabilityLookup, CapabilityReturn, CancelSignal, CancelLookup, SetFlow,
     DeleteLookup, DeleteStoreFails, DeleteCommit, DeleteSignal, DeleteUnlock
<1>3. \A c \in Canceller : cpc'[c] # "idle" =>
           crun'[c] \in known \/ (cpc[c] # "idle" /\ crun'[c] = crun[c])
  BY DEF LifeInv, TypeInv, TypeOK, RequestType, CapabilityLookup, CapabilityReturn,
     CancelSignal, CancelLookup, SetFlow, DeleteLookup, DeleteStoreFails, DeleteCommit,
     DeleteSignal, DeleteUnlock
<1> QED BY <1>1, <1>2, <1>3, FrameLife

(* CapabilityEnqueue: the life-cycle invariant is kept, and no settled run is touched. *)
LEMMA CapabilityEnqueueLife ==
    ASSUME LifeInv, NEW k \in Caller, NEW r \in Run, CapabilityEnqueue(k, r)
    PROVE  Unborn' /\ Ends' /\ Saved' /\ \A q \in Run : Settled(q)
<1> USE DEF LifeInv, TypeInv, TypeOK, StateType, ExecType, RegType, RequestType,
            CapabilityEnqueue, RecordRun
<1>1. Unborn'
  BY DEF Unborn, Targets
<1>2. Ends'
  BY DEF Unborn, Ends, ExecutorEndsTerminal
<1>3. Saved'
  BY DEF Saved, Matches
<1>4. \A q \in Run : Settled(q)
  BY DEF Settled
<1> QED BY <1>1, <1>2, <1>3, <1>4

(* CancelState: the life-cycle invariant is kept, and no settled run is touched. *)
LEMMA CancelStateLife ==
    ASSUME LifeInv, NEW c \in Canceller, CancelState(c)
    PROVE  Unborn' /\ Ends' /\ Saved' /\ \A q \in Run : Settled(q)
<1>1. crun[c] \in Run /\ pc[crun[c]] # "unborn"
  BY DEF LifeInv, TypeInv, TypeOK, RequestType, Targets, Unborn, CancelState
<1>2. /\ \A q \in Run : pc'[q] = "unborn" => status'[q] = "none"
      /\ Ends' /\ Saved' /\ \A q \in Run : Settled(q)
  BY <1>1, CancelLife DEF CancelState
<1>3. Unborn'
  BY <1>2 DEF LifeInv, TypeInv, TypeOK, RequestType, Unborn, CancelState
<1> QED BY <1>2, <1>3

(* DeleteCancel: the life-cycle invariant is kept, and no settled run is touched. *)
LEMMA DeleteCancelLife ==
    ASSUME LifeInv, DeleteCancel
    PROVE  Unborn' /\ Ends' /\ Saved' /\ \A q \in Run : Settled(q)
<1>1. PICK r \in dtodo : CancelRunState(r, "deleted") /\ dtodo' = dtodo \ {r}
  BY DEF DeleteCancel
<1>2. r \in Run /\ pc[r] # "unborn"
  BY <1>1 DEF LifeInv, TypeInv, TypeOK, RequestType, Unborn
<1>3. /\ \A q \in Run : pc'[q] = "unborn" => status'[q] = "none"
      /\ Ends' /\ Saved' /\ \A q \in Run : Settled(q)
  BY <1>1, <1>2, CancelLife DEF DeleteCancel
<1>4. Unborn'
  BY <1>1, <1>3 DEF LifeInv, Unborn, DeleteCancel
<1> QED BY <1>3, <1>4

(* A restart: what it registers is what was archived, and that is how the  *)
(* runs had ended.                                                         *)
LEMMA RestartLife ==
    ASSUME LifeInv, Restart
    PROVE  /\ Unborn' /\ Ends' /\ Saved'
           /\ \A q \in Run : q \in known' => Settled(q)
           /\ \A q \in Run : status'[q] = status[q] \/ status'[q] = "none"
<1> DEFINE at == [r \in Run |-> archive[r].at]
           st == [r \in Run |-> archive[r].status]
           kept == Archived \ Pruned(Archived, at, st)
<1>1. /\ known' = kept
      /\ pc' = [r \in Run |-> CASE pc[r] = "unborn" -> "unborn"
                                [] r \in kept -> "done"
                                [] OTHER -> "lost"]
      /\ status' = [r \in Run |-> IF r \in kept THEN st[r] ELSE "none"]
      /\ reason' = [r \in Run |-> IF r \in kept THEN archive[r].reason ELSE "none"]
      /\ nodes' = [r \in Run |-> IF r \in kept THEN archive[r].nodes ELSE NoRec.nodes]
      /\ sel' = [r \in Run |-> IF r \in kept THEN archive[r].sel ELSE NoRec.sel]
      /\ archive' = [r \in Run |-> IF r \in Pruned(Archived, at, st) THEN NoRec ELSE archive[r]]
      /\ dtodo' = {} /\ cpc' = [c \in Canceller |-> "idle"]
  BY DEF Restart
<1> HIDE DEF at
<1>2. kept \subseteq Archived /\ Archived \subseteq Run
  BY DEF Archived
<1>3. \A r \in Archived : /\ archive[r].status \in Terminal
                          /\ pc[r] # "unborn" /\ Matches(archive[r], r)
  BY DEF LifeInv, TypeInv, TypeOK, ArchType, Record, Saved, Archived
<1>4. \A r \in Run : r \in kept => pc'[r] = "done" /\ status'[r] \in Terminal
  BY <1>1, <1>2, <1>3
<1>5. \A r \in Run : r \notin kept => status'[r] = "none" /\ pc'[r] \in {"unborn", "lost"}
  BY <1>1
<1>6. Unborn'
  BY <1>1, <1>2, <1>4, <1>5 DEF Unborn
<1>7. Ends'
  BY <1>4, <1>5 DEF Ends, ExecutorEndsTerminal
<1>8. \A r \in Run : archive'[r].status # "none" => r \in kept /\ archive'[r] = archive[r]
  BY <1>1, <1>2 DEF NoRec, Archived
<1>9. \A r \in kept : Matches(archive[r], r)'
  <2>1. \A r \in kept : /\ status'[r] = archive[r].status /\ reason'[r] = archive[r].reason
                        /\ nodes'[r] = archive[r].nodes /\ sel'[r] = archive[r].sel
                        /\ archive'[r] = archive[r]
    BY <1>1, <1>2
  <2> QED BY <2>1 DEF Matches
<1>10. Saved'
  BY <1>4, <1>5, <1>8, <1>9 DEF Saved
<1>11. \A q \in Run : q \in known' => Settled(q)
  BY <1>1, <1>2, <1>3 DEF Settled, Matches
<1>12. \A q \in Run : status'[q] = status[q] \/ status'[q] = "none"
  BY <1>1, <1>2, <1>3 DEF Matches
<1> QED BY <1>6, <1>7, <1>10, <1>11, <1>12

(* The inductive step. *)
LEMMA StepLife ==
    ASSUME LifeInv, [Next]_vars
    PROVE  LifeInv' /\ \A q \in Run : q \in known' => Settled(q)
<1>0. TypeInv'
  BY StepType DEF LifeInv
<1> SUFFICES Unborn' /\ Ends' /\ Saved' /\ \A q \in Run : q \in known' => Settled(q)
  BY <1>0 DEF LifeInv
<1>1. CASE UNCHANGED vars
  BY <1>1 DEF vars, LifeInv, Unborn, Ends, ExecutorEndsTerminal, Saved, Matches, Settled
<1>2. CASE \E r \in Run : RunLocal(r) \/ TryStartRunWithTrigger(r)
  BY <1>2, StartRunLife DEF RunLocal, TryStartRunWithTrigger
<1>3. CASE \E r \in Run : ExecStep(r)
  BY <1>3, ExecBeginLife, ExecHeadLife, ExecMarkLife, ExecAttemptLife, ExecBackoffLife,
     ExecAfterLife, ExecRecordLife, ExecFailLife, ExecFinishLife, SnapshotLife,
     SaveArchiveLife, PruneRunsLife, RemoveArchivedLife DEF ExecStep
<1>4. CASE \E k \in Caller : \/ CapabilityLookup(k) \/ CapabilityReturn(k)
                            \/ \E r \in Run : CapabilityEnqueue(k, r)
  BY <1>4, RequestLife, CapabilityEnqueueLife
<1>5. CASE \E c \in Canceller : \/ CancelState(c) \/ CancelSignal(c)
                               \/ \E r \in Run : CancelLookup(c, r)
  BY <1>5, CancelStateLife, RequestLife
<1>6. CASE SetFlow \/ DeleteLookup \/ DeleteStoreFails \/ DeleteCommit
           \/ DeleteCancel \/ DeleteSignal \/ DeleteUnlock
  BY <1>6, RequestLife, DeleteCancelLife
<1>7. CASE Restart
  BY <1>7, RestartLife
<1> QED BY <1>1, <1>2, <1>3, <1>4, <1>5, <1>6, <1>7 DEF Next

(* Every executor that is done, and only such an executor, has decided its *)
(* run: the invariant ExecutorEndsTerminal of the runs.                    *)
THEOREM ExecutorEnds == Spec => []ExecutorEndsTerminal
<1>1. LifeInv /\ [Next]_vars => LifeInv'
  BY StepLife
<1>2. LifeInv => ExecutorEndsTerminal
  BY DEF LifeInv, Ends
<1> QED BY InitLife, <1>1, <1>2, PTL DEF Spec

(* What can be queried of a finished run never changes, neither by late    *)
(* requests nor by a restart: the action property SettledStays.            *)
THEOREM SettledForever == Spec => SettledStays
<1>1. LifeInv /\ [Next]_vars => LifeInv'
  BY StepLife
<1>2. LifeInv /\ [Next]_vars =>
        [\A r \in Run : pc[r] \in FinalPC /\ r \in known' =>
          /\ status'[r] = status[r] /\ reason'[r] = reason[r]
          /\ nodes'[r] = nodes[r] /\ sel'[r] = sel[r]]_vars
  BY StepLife DEF Settled
<1> QED BY InitLife, <1>1, <1>2, PTL DEF Spec, SettledStays

----------------------------------------------------------------------------
USE DEF Executing

(* Reasons and registrations.  Whoever ends the context of a run has given *)
(* the run a reason before, or is the capability call that registered it;  *)
(* a run inside executeGraph has a status.                                 *)

Reasons ==
    /\ \A r \in Run : status[r] = "cancelled" => reason[r] # "none"
    /\ \A r \in Run : reason[r] = "cancelled" => r \in called
    /\ \A r \in ctxDone : reason[r] # "none" \/ r \in called
    /\ \A k \in Caller : kpc[k] = "running" => krun[k] \in called
    /\ \A c \in Canceller : cpc[c] = "signal" => reason[crun[c]] # "none"
    /\ dpc = "signal" => reason[drun] # "none"

Started == \A r \in Run : pc[r] \in Executing => status[r] # "none"

(* The runs the start gate counts and nobody has cancelled.                *)
Gated == {r \in ActiveRuns \ called : reason[r] = "none"}

SafeInv == LifeInv /\ Reasons /\ Started /\ ActiveRunsAreKnown /\ DeletedFlowIsQuiet

(* What any step but a start or a restart does: a run keeps its reason,    *)
(* becomes cancelled only with one, and active only if it was active or    *)
(* has one; no executor enters executeGraph; ...                           *)
Benign ==
    \A q \in Run :
        /\ reason[q] # "none" => reason'[q] = reason[q]
        /\ status'[q] \in Active => status[q] \in Active \/ reason'[q] # "none"
        /\ status'[q] = "cancelled" => reason'[q] # "none"
        /\ reason'[q] = "cancelled" => q \in called
        /\ pc'[q] \in Executing => pc[q] \in Executing /\ status'[q] # "none"

(* ... no run is registered, and none that is active is dropped; a context *)
(* ends for a run with a reason or for a called one; a request that is     *)
(* about to end one has given a reason; and delete takes a run off its     *)
(* list only when it is no longer active or has a reason.                  *)
Orderly ==
    /\ called' = called /\ known' \subseteq known
    /\ \A q \in known \ known' : status'[q] \notin Active
    /\ \A q \in ctxDone' : q \in ctxDone \/ reason[q] # "none" \/ q \in called
    /\ \A k \in Caller : kpc'[k] = "running" => kpc[k] = "running" /\ krun'[k] = krun[k]
    /\ \A c \in Canceller : cpc'[c] = "signal" => reason'[crun'[c]] # "none"
    /\ dpc' = "signal" => reason'[drun'] # "none"
    /\ ~flowSet' => \/ known \subseteq dtodo'
                    \/ /\ ~flowSet
                       /\ \A q \in dtodo \ dtodo' : status'[q] \in Active => reason'[q] # "none"

(* Such a step keeps the invariant, and no run joins the gated ones. *)
LEMMA OrderlySafe ==
    ASSUME SafeInv, TypeInv', Benign, Orderly
    PROVE  /\ Reasons' /\ Started' /\ ActiveRunsAreKnown' /\ DeletedFlowIsQuiet'
           /\ Gated' \subseteq Gated
<1> USE DEF SafeInv, LifeInv, TypeInv, TypeOK, RegType, ExecType, RequestType, Benign, Orderly
<1>1. Reasons'
  BY DEF Reasons
<1>2. Started'
  BY DEF Started
<1>3. ActiveRunsAreKnown'
  BY DEF ActiveRunsAreKnown
<1>4. DeletedFlowIsQuiet'
  BY DEF DeletedFlowIsQuiet, ActiveRuns
<1>5. Gated' \subseteq Gated
  BY DEF Gated, ActiveRuns
<1> QED BY <1>1, <1>2, <1>3, <1>4, <1>5

(* cancelRunState gives a reason to the run it cancels and to no other. *)
LEMMA CancelReason ==
    ASSUME StateType, NEW r \in Run, NEW why \in Reason \ {"none"}, CancelRunState(r, why)
    PROVE  /\ \A q \in Run : \/ reason'[q] = reason[q]
                             \/ q = r /\ reason[q] = "none" /\ reason'[q] = why
           /\ \A q \in Run : \/ status'[q] = status[q]
                             \/ q = r /\ status'[q] = "cancelled" /\ reason'[q] # "none"
           /\ status[r] \notin Terminal => reason'[r] # "none"
  BY DEF CancelRunState, WriteCancelled, FirstReason, StateType

(* The same of the executor's writes. *)
LEMMA WriteReason ==
    ASSUME StateType, NEW r \in Run, NEW why \in Reason \ {"none"}, WriteCancelled(r, why)
    PROVE  /\ \A q \in Run : \/ reason'[q] = reason[q]
                             \/ q = r /\ reason[q] = "none" /\ reason'[q] = why
           /\ \A q \in Run : \/ status'[q] = status[q]
                             \/ q = r /\ status'[q] = "cancelled" /\ reason'[q] # "none"
  BY DEF WriteCancelled, FirstReason, StateType

(* A step inside executeGraph. *)
LEMMA ExecGraphSafe ==
    ASSUME SafeInv, NEW r \in Run,
           \/ ExecBegin(r) \/ ExecHead(r) \/ ExecMark(r) \/ ExecAttempt(r) \/ ExecBackoff(r)
           \/ ExecAfter(r) \/ ExecRecord(r) \/ ExecFail(r) \/ ExecFinish(r)
    PROVE  Benign /\ Orderly
<1> USE DEF SafeInv, LifeInv, TypeInv, TypeOK, StateType, ExecType
<1>1. ASSUME ExecBegin(r) PROVE Benign
  <2>1. CASE r \in ctxDone
    BY <1>1, <2>1, WriteReason DEF Benign, Reasons, Started, ExecBegin, Leave, Goto, ExecFrame
  <2>2. CASE r \notin ctxDone
    <3>1. status[r] \in {"queued", "running", "cancelled"}
      BY <1>1 DEF Started, Ends, ExecutorEndsTerminal, ExecBegin
    <3> QED BY <1>1, <2>2, <3>1 DEF Benign, Reasons, Started, ExecBegin, Goto
  <2> QED BY <2>1, <2>2
<1>2. ASSUME ExecHead(r) PROVE Benign
  BY <1>2, CancelReason DEF Benign, Reasons, Started, ExecHead, Leave, Goto, ExecFrame
<1>3. ASSUME ExecMark(r) PROVE Benign
  BY <1>3 DEF Benign, Reasons, Started, ExecMark, Goto, ExecFrame
<1>4. ASSUME ExecAttempt(r) PROVE Benign
  BY <1>4 DEF Benign, Reasons, Started, ExecAttempt, Goto, ExecFrame
<1>5. ASSUME ExecBackoff(r) PROVE Benign
  BY <1>5 DEF Benign, Reasons, Started, ExecBackoff, Goto, ExecFrame
<1>6. ASSUME ExecAfter(r) PROVE Benign
  BY <1>6, CancelReason DEF Benign, Reasons, Started, ExecAfter, Leave, Goto, ExecFrame
<1>7. ASSUME ExecRecord(r) PROVE Benign
  <2>1. CASE status[r] = "cancelled"
    BY <1>7, <2>1, WriteReason DEF Benign, Reasons, Started, ExecRecord, Leave, Goto, ExecFrame
  <2>2. CASE status[r] # "cancelled"
    <3>1. UNCHANGED <<status, reason>> /\ (Goto(r, "head") \/ Goto(r, "fail"))
      BY <1>7, <2>2 DEF ExecRecord
    <3> QED BY <1>7, <3>1 DEF Benign, Reasons, Started, Goto, ExecRecord
  <2> QED BY <2>1, <2>2
<1>8. ASSUME ExecFail(r) PROVE Benign
  BY <1>8 DEF Benign, Reasons, Started, ExecFail, Leave, Goto, ExecFrame
<1>9. ASSUME ExecFinish(r) PROVE Benign
  BY <1>9, WriteReason DEF Benign, Reasons, Started, ExecFinish, Leave, Goto, ExecFrame
<1>10. Benign
  BY <1>1, <1>2, <1>3, <1>4, <1>5, <1>6, <1>7, <1>8, <1>9
<1>11. ExecFrame
  BY DEF ExecBegin, ExecHead, ExecMark, ExecAttempt, ExecBackoff, ExecAfter, ExecRecord,
     ExecFail, ExecFinish
<1>12. Orderly
  BY <1>10, <1>11 DEF Benign, Orderly, Reasons, ExecFrame, RequestType, Targets
<1> QED BY <1>10, <1>12

(* A step of finalizeRun: pruning drops only terminal runs. *)
LEMMA FinalizeSafe ==
    ASSUME SafeInv, NEW r \in Run,
           Snapshot(r) \/ SaveArchive(r) \/ PruneRuns(r) \/ RemoveArchived(r)
    PROVE  Benign /\ Orderly
<1> USE DEF SafeInv, LifeInv, TypeInv, TypeOK, StateType, ExecType
<1>1. /\ FinalFrame
      /\ \A q \in Run : pc'[q] \in Executing => pc[q] \in Executing
  BY DEF Snapshot, SaveArchive, PruneRuns, RemoveArchived, Goto
<1>2. known' \subseteq known /\ \A q \in known \ known' : status[q] \in Terminal
  BY DEF Snapshot, SaveArchive, PruneRuns, Pruned, RemoveArchived
<1>3. Benign
  BY <1>1 DEF Benign, Reasons, Started, FinalFrame
<1>4. Orderly
  BY <1>1, <1>2 DEF Orderly, Reasons, FinalFrame
<1> QED BY <1>3, <1>4

(* Requests that leave the runs alone. *)
LEMMA RequestSafe ==
    ASSUME SafeInv,
           \/ \E k \in Caller : CapabilityLookup(k) \/ CapabilityReturn(k)
           \/ \E c \in Canceller : CancelSignal(c) \/ \E r \in Run : CancelLookup(c, r)
           \/ SetFlow \/ DeleteLookup \/ DeleteStoreFails \/ DeleteCommit
           \/ DeleteSignal \/ DeleteUnlock \/ UNCHANGED vars
    PROVE  Benign /\ Orderly
<1> USE DEF SafeInv, LifeInv, TypeInv, TypeOK, RequestType
<1>1. UNCHANGED <<stateVars, execVars, known, called>>
  BY DEF CapabilityLookup, CapabilityReturn, CancelSignal, CancelLookup, SetFlow,
     DeleteLookup, DeleteStoreFails, DeleteCommit, DeleteSignal, DeleteUnlock, vars
<1>2. Benign
  BY <1>1 DEF Benign, Reasons, Started
<1>3. \A q \in ctxDone' : q \in ctxDone \/ reason[q] # "none" \/ q \in called
  BY DEF Reasons, CapabilityLookup, CapabilityReturn, CancelSignal, CancelLookup, SetFlow,
     DeleteLookup, DeleteStoreFails, DeleteCommit, DeleteSignal, DeleteUnlock, vars
<1>4. \A k \in Caller : kpc'[k] = "running" => kpc[k] = "running" /\ krun'[k] = krun[k]
  BY DEF CapabilityLookup, CapabilityReturn, CancelSignal, CancelLookup, SetFlow,
     DeleteLookup, DeleteStoreFails, DeleteCommit, DeleteSignal, DeleteUnlock, vars
<1>5. \A c \in Canceller : cpc'[c] = "signal" => cpc[c] = "signal" /\ crun'[c] = crun[c]
  BY DEF CapabilityLookup, CapabilityReturn, CancelSignal, CancelLookup, SetFlow,
     DeleteLookup, DeleteStoreFails, DeleteCommit, DeleteSignal, DeleteUnlock, vars
<1>6. /\ dpc' = "signal" => dpc = "signal" /\ drun' = drun
      /\ ~flowSet' => known \subseteq dtodo' \/ (~flowSet /\ dtodo' = dtodo)
  BY DEF CapabilityLookup, CapabilityReturn, CancelSignal, CancelLookup, SetFlow,
     DeleteLookup, DeleteStoreFails, DeleteCommit, DeleteSignal, DeleteUnlock, vars
<1>7. Orderly
  BY <1>1, <1>3, <1>4, <1>5, <1>6 DEF Orderly, Reasons
<1> QED BY <1>2, <1>7

(* cancel_run and delete cancel a run with their reason. *)
LEMMA CancelSafe ==
    ASSUME SafeInv, (\E c \in Canceller : CancelState(c)) \/ DeleteCancel
    PROVE  Benign /\ Orderly
<1> USE DEF SafeInv, LifeInv, TypeInv, TypeOK, RequestType
<1>1. ASSUME NEW c \in Canceller, CancelState(c)
      PROVE  Benign /\ Orderly
  <2>1. crun[c] \in Run
    BY <1>1 DEF Targets, CancelState
  <2>2. Benign
    BY <1>1, <2>1, CancelReason DEF Benign, Reasons, Started, CancelState
  <2>3. \A b \in Canceller : cpc'[b] = "signal" => reason'[crun'[b]] # "none"
    BY <1>1, <2>1, <2>2, CancelReason DEF Benign, Reasons, Targets, CancelState
  <2>4. dpc' = "signal" => reason'[drun'] # "none"
    BY <1>1, <2>2 DEF Benign, Reasons, Targets, CancelState
  <2>5. Orderly
    BY <1>1, <2>3, <2>4 DEF Orderly, CancelState
  <2> QED BY <2>2, <2>5
<1>2. ASSUME DeleteCancel PROVE Benign /\ Orderly
  <2>1. PICK r \in dtodo : /\ CancelRunState(r, "deleted") /\ dtodo' = dtodo \ {r}
                           /\ IF status[r] \in Terminal THEN UNCHANGED <<dpc, drun>>
                              ELSE dpc' = "signal" /\ drun' = r
    BY <1>2 DEF DeleteCancel
  <2>2. Benign
    BY <1>2, <2>1, CancelReason DEF Benign, Reasons, Started, DeleteCancel
  <2>3. \A b \in Canceller : cpc'[b] = "signal" => reason'[crun'[b]] # "none"
    BY <1>2, <2>2 DEF Benign, Reasons, Targets, DeleteCancel
  <2>4. dpc' = "signal" => reason'[drun'] # "none"
    BY <1>2, <2>1, CancelReason DEF DeleteCancel
  <2>5. status'[r] \in Active => reason'[r] # "none"
    BY <2>1, CancelReason
  <2>6. Orderly
    BY <1>2, <2>1, <2>3, <2>4, <2>5 DEF Orderly, DeleteCancel
  <2> QED BY <2>2, <2>6
<1> QED BY <1>1, <1>2

(* A start registers a run: StartRun for a flow that is there, a           *)
(* capability call as a called run.                                        *)
LEMMA RegisterSafe ==
    ASSUME SafeInv, NEW r \in Run, RecordRun(r),
           \/ called' = called /\ callVars' = callVars /\ flowSet
           \/ /\ called' = called \cup {r}
              /\ \A k \in Caller : kpc'[k] = "running" =>
                    \/ krun'[k] = r
                    \/ kpc[k] = "running" /\ krun'[k] = krun[k]
    PROVE  /\ Reasons' /\ Started' /\ ActiveRunsAreKnown' /\ DeletedFlowIsQuiet'
           /\ Gated' \subseteq Gated \cup {r}
           /\ r \in called' => Gated' \subseteq Gated
<1> USE DEF SafeInv, LifeInv, TypeInv, TypeOK, RegType, StateType, ExecType, RecordRun
<1>1. Reasons'
  BY DEF Reasons, RequestType
<1>2. Started'
  BY DEF Started
<1>3. ActiveRunsAreKnown'
  BY DEF ActiveRunsAreKnown
<1>4. DeletedFlowIsQuiet'
  BY DEF DeletedFlowIsQuiet, ActiveRuns
<1>5. Gated' \subseteq Gated \cup {r} /\ (r \in called' => Gated' \subseteq Gated)
  BY DEF Gated, ActiveRuns
<1> QED BY <1>1, <1>2, <1>3, <1>4, <1>5

(* A restart leaves no run active, and keeps the reasons that are on disk. *)
LEMMA RestartSafe ==
    ASSUME SafeInv, LifeInv', Restart
    PROVE  /\ Reasons' /\ Started' /\ ActiveRunsAreKnown' /\ DeletedFlowIsQuiet'
           /\ Gated' = {}
<1>1. \A q \in Run : /\ q \in known' => status'[q] = status[q] /\ reason'[q] = reason[q]
                     /\ q \notin known' => status'[q] = "none" /\ reason'[q] = "none"
  <2>1. \A q \in Run : q \in known' => archive[q].status # "none"
    BY DEF Restart, Archived
  <2>2. \A q \in Run : q \in known' => Settled(q) /\ pc[q] \in FinalPC
    BY <2>1, RestartLife DEF SafeInv, LifeInv, Saved
  <2>3. \A q \in Run : q \notin known' => status'[q] = "none" /\ reason'[q] = "none"
    BY DEF Restart
  <2> QED BY <2>2, <2>3 DEF Settled
<1>2. \A q \in Run : pc'[q] \notin Executing /\ status'[q] \notin Active
  BY <1>1 DEF LifeInv, TypeInv, TypeOK, RegType, Unborn, Ends, ExecutorEndsTerminal, Restart
<1>3. Reasons'
  BY <1>1 DEF SafeInv, Reasons, Restart
<1>4. Started' /\ ActiveRunsAreKnown'
  BY <1>2 DEF Started, ActiveRunsAreKnown
<1>5. DeletedFlowIsQuiet' /\ Gated' = {}
  BY <1>2 DEF DeletedFlowIsQuiet, Gated, ActiveRuns, LifeInv, TypeInv, TypeOK, RegType
<1> QED BY <1>3, <1>4, <1>5

(* Initially there is no run. *)
LEMMA InitSafe == Init => SafeInv /\ Gated = {}
  BY InitLife DEF Init, SafeInv, Reasons, Started, ActiveRunsAreKnown, DeletedFlowIsQuiet,
     Gated, ActiveRuns

(* The inductive step; and a run joins the gated ones only through the     *)
(* start gate.                                                             *)
LEMMA StepSafe ==
    ASSUME SafeInv, [Next]_vars
    PROVE  /\ SafeInv'
           /\ \/ Gated' \subseteq Gated
              \/ \E r \in Run, t \in BOOLEAN : StartAllowed(t) /\ Gated' \subseteq Gated \cup {r}
<1>0. LifeInv' /\ TypeInv'
  BY StepLife DEF SafeInv, LifeInv
<1>1. ASSUME NEW r \in Run, NEW t \in BOOLEAN, StartRun(r, t)
      PROVE  /\ SafeInv' /\ StartAllowed(t) /\ Gated' \subseteq Gated \cup {r}
  BY <1>0, <1>1, RegisterSafe DEF StartRun, SafeInv
<1>2. ASSUME NEW k \in Caller, NEW r \in Run, CapabilityEnqueue(k, r)
      PROVE  SafeInv' /\ Gated' \subseteq Gated
  <2>1. /\ called' = called \cup {r}
        /\ \A i \in Caller : kpc'[i] = "running" =>
              krun'[i] = r \/ (kpc[i] = "running" /\ krun'[i] = krun[i])
    BY <1>2 DEF SafeInv, LifeInv, TypeInv, TypeOK, RequestType, CapabilityEnqueue
  <2> QED BY <1>0, <1>2, <2>1, RegisterSafe DEF CapabilityEnqueue, SafeInv
<1>3. ASSUME Restart PROVE SafeInv' /\ Gated' \subseteq Gated
  BY <1>0, <1>3, RestartSafe DEF SafeInv
<1>4. ASSUME Benign, Orderly PROVE SafeInv' /\ Gated' \subseteq Gated
  BY <1>0, <1>4, OrderlySafe DEF SafeInv
<1>5. CASE \E r \in Run : RunLocal(r) \/ TryStartRunWithTrigger(r)
  BY <1>1, <1>5 DEF RunLocal, TryStartRunWithTrigger
<1>6. CASE \E r \in Run : ExecStep(r)
  BY <1>4, <1>6, ExecGraphSafe, FinalizeSafe DEF ExecStep
<1>7. CASE \E k \in Caller : \/ CapabilityLookup(k) \/ CapabilityReturn(k)
                            \/ \E r \in Run : CapabilityEnqueue(k, r)
  BY <1>2, <1>4, <1>7, RequestSafe
<1>8. CASE \E c \in Canceller : \/ CancelState(c) \/ CancelSignal(c)
                               \/ \E r \in Run : CancelLookup(c, r)
  BY <1>4, <1>8, CancelSafe, RequestSafe
<1>9. CASE SetFlow \/ DeleteLookup \/ DeleteStoreFails \/ DeleteCommit
           \/ DeleteCancel \/ DeleteSignal \/ DeleteUnlock \/ UNCHANGED vars
  BY <1>4, <1>9, CancelSafe, RequestSafe
<1> QED BY <1>3, <1>5, <1>6, <1>7, <1>8, <1>9 DEF Next

(* A cancelled run says why, and an executor that finds its context ended  *)
(* never hides a cancel_run or a delete: CancelReasonFaithful.             *)
THEOREM ReasonsFaithful == Spec => []CancelReasonFaithful
<1>1. Init => SafeInv
  BY InitSafe
<1>2. SafeInv /\ [Next]_vars => SafeInv'
  BY StepSafe
<1>3. SafeInv => CancelReasonFaithful
  BY DEF SafeInv, Reasons, CancelReasonFaithful
<1> QED BY <1>1, <1>2, <1>3, PTL DEF Spec

(* A run that is active and that nobody has cancelled can be found by      *)
(* queries, cancel_run and the start gate: ActiveRunsAreKnown.             *)
THEOREM ActiveRunsFound == Spec => []ActiveRunsAreKnown
<1>1. Init => SafeInv
  BY InitSafe
<1>2. SafeInv /\ [Next]_vars => SafeInv'
  BY StepSafe
<1>3. SafeInv => ActiveRunsAreKnown
  BY DEF SafeInv
<1> QED BY <1>1, <1>2, <1>3, PTL DEF Spec

(* What is still active of a deleted flow was cancelled, or was called by  *)
(* a capability call that had found the flow: DeletedFlowIsQuiet.          *)
THEOREM DeleteQuietens == Spec => []DeletedFlowIsQuiet
<1>1. Init => SafeInv
  BY InitSafe
<1>2. SafeInv /\ [Next]_vars => SafeInv'
  BY StepSafe
<1>3. SafeInv => DeletedFlowIsQuiet
  BY DEF SafeInv
<1> QED BY <1>1, <1>2, <1>3, PTL DEF Spec

----------------------------------------------------------------------------
(* The limit of active runs.                                               *)

(* The gate admits a run only while fewer than MaxActive runs are active,  *)
(* and the gated ones are among these.                                     *)
LEMMA LimitKept ==
    ASSUME SafeInv, LimitHoldsForUncancelled, [Next]_vars
    PROVE  LimitHoldsForUncancelled'
<1> SUFFICES ASSUME MaxActive \in Nat \ {0}
             PROVE  Cardinality(Gated') <= MaxActive
  BY Zenon DEF LimitHoldsForUncancelled, Gated
<1>1. Gated \subseteq ActiveRuns /\ ActiveRuns \subseteq Run /\ Cardinality(Gated) <= MaxActive
  BY DEF LimitHoldsForUncancelled, Gated, ActiveRuns, SafeInv, LifeInv, TypeInv, TypeOK, RegType
<1>2. /\ IsFiniteSet(ActiveRuns) /\ IsFiniteSet(Gated)
      /\ Cardinality(ActiveRuns) \in Nat /\ Cardinality(Gated) \in Nat
      /\ Cardinality(Gated) <= Cardinality(ActiveRuns)
  BY <1>1, LimitAssumption, FS_Subset, FS_CardinalityType
<1>3. CASE Gated' \subseteq Gated
  <2>1. Cardinality(Gated') <= Cardinality(Gated) /\ IsFiniteSet(Gated')
    BY <1>2, <1>3, FS_Subset
  <2> QED BY <1>1, <1>2, <2>1, FS_CardinalityType
<1>4. ASSUME NEW r \in Run, NEW t \in BOOLEAN, StartAllowed(t), Gated' \subseteq Gated \cup {r}
      PROVE  Cardinality(Gated') <= MaxActive
  <2>1. Cardinality(ActiveRuns) < MaxActive
    BY <1>4, LimitAssumption DEF StartAllowed, EffectiveMaxActive
  <2>2. /\ IsFiniteSet(Gated \cup {r}) /\ Cardinality(Gated \cup {r}) <= Cardinality(Gated) + 1
        /\ Cardinality(Gated \cup {r}) \in Nat
    <3>1. /\ IsFiniteSet(Gated \cup {r})
          /\ Cardinality(Gated \cup {r}) =
                IF r \in Gated THEN Cardinality(Gated) ELSE Cardinality(Gated) + 1
      BY <1>2, FS_AddElement
    <3> QED BY <1>2, <3>1
  <2>3. Cardinality(Gated') <= Cardinality(Gated \cup {r}) /\ IsFiniteSet(Gated')
    BY <1>4, <2>2, FS_Subset
  <2>4. Cardinality(Gated') \in Nat
    BY <2>3, FS_CardinalityType
  <2> QED BY <1>2, <2>1, <2>2, <2>3, <2>4
<1> QED BY <1>3, <1>4, StepSafe

(* max_active_runs holds for the runs that passed the gate and that nobody *)
(* has cancelled, for every number of runs: LimitHoldsForUncancelled.      *)
THEOREM LimitHolds == Spec => []LimitHoldsForUncancelled
<1>1. Init => SafeInv /\ LimitHoldsForUncancelled
  BY InitSafe, FS_EmptySet DEF LimitHoldsForUncancelled, Gated
<1>2. SafeInv /\ LimitHoldsForUncancelled /\ [Next]_vars => (SafeInv /\ LimitHoldsForUncancelled)'
  BY StepSafe, LimitKept
<1> QED BY <1>1, <1>2, PTL DEF Spec

----------------------------------------------------------------------------
(* What becomes of a cancelled run.                                        *)

(* Past its first step the executor of a cancelled run writes no status    *)
(* but cancelled, or failed for a failure it has recorded.                 *)
LEMMA CancelledStep ==
    ASSUME LifeInv, [Next]_vars, NEW q \in Run, status[q] = "cancelled", pc[q] # "begin"
    PROVE  status'[q] \in {"cancelled", "failed", "none"}
<1> USE DEF LifeInv, TypeInv, TypeOK, StateType
<1>1. ASSUME NEW r \in Run, RecordRun(r) PROVE status'[q] = status[q]
  BY <1>1 DEF Unborn, RecordRun
<1>2. ASSUME NEW r \in Run, ExecStep(r) PROVE status'[q] \in {"cancelled", "failed"}
  <2>1. CASE ExecBegin(r)
    BY <2>1, WriteCancelledEffect DEF ExecBegin
  <2>2. CASE ExecHead(r) \/ ExecAfter(r)
    BY <2>2, CancelRunStateEffect DEF ExecHead, ExecAfter
  <2>3. CASE ExecMark(r) \/ ExecAttempt(r) \/ ExecBackoff(r)
    BY <2>3 DEF ExecMark, ExecAttempt, ExecBackoff
  <2>4. CASE ExecRecord(r)
    BY <2>4, WriteCancelledEffect DEF ExecRecord
  <2>5. CASE ExecFail(r)
    BY <2>5 DEF ExecFail
  <2>6. CASE ExecFinish(r)
    BY <2>6, WriteCancelledEffect DEF ExecFinish
  <2>7. CASE Snapshot(r) \/ SaveArchive(r) \/ PruneRuns(r) \/ RemoveArchived(r)
    BY <2>7 DEF Snapshot, SaveArchive, PruneRuns, RemoveArchived, FinalFrame
  <2> QED BY <1>2, <2>1, <2>2, <2>3, <2>4, <2>5, <2>6, <2>7 DEF ExecStep
<1>3. ASSUME NEW c \in Canceller, CancelState(c) PROVE status'[q] = "cancelled"
  <2>1. crun[c] \in Run
    BY <1>3 DEF Targets, CancelState
  <2> QED BY <1>3, <2>1, CancelRunStateEffect DEF CancelState
<1>4. ASSUME DeleteCancel PROVE status'[q] = "cancelled"
  BY <1>4, CancelRunStateEffect DEF RequestType, DeleteCancel
<1>5. CASE \E r \in Run : RunLocal(r) \/ TryStartRunWithTrigger(r) \/ ExecStep(r)
  BY <1>1, <1>2, <1>5 DEF RunLocal, TryStartRunWithTrigger, StartRun
<1>6. CASE \E k \in Caller : \/ CapabilityLookup(k) \/ CapabilityReturn(k)
                            \/ \E r \in Run : CapabilityEnqueue(k, r)
  BY <1>1, <1>6 DEF CapabilityLookup, CapabilityReturn, CapabilityEnqueue
<1>7. CASE \E c \in Canceller : \/ CancelState(c) \/ CancelSignal(c)
                               \/ \E r \in Run : CancelLookup(c, r)
  BY <1>3, <1>7 DEF CancelSignal, CancelLookup
<1>8. CASE SetFlow \/ DeleteLookup \/ DeleteStoreFails \/ DeleteCommit
           \/ DeleteCancel \/ DeleteSignal \/ DeleteUnlock \/ UNCHANGED vars
  BY <1>4, <1>8 DEF SetFlow, DeleteLookup, DeleteStoreFails, DeleteCommit, DeleteSignal,
     DeleteUnlock, vars
<1>9. CASE Restart
  BY <1>9, RestartLife
<1> QED BY <1>5, <1>6, <1>7, <1>8, <1>9 DEF Next

(* A run cancelled after its executor's first step neither succeeds nor    *)
(* runs again: the action property CancelledNeverSucceeds.                 *)
THEOREM CancelledStays == Spec => CancelledNeverSucceeds
<1>1. LifeInv /\ [Next]_vars => LifeInv'
  BY StepLife
<1>2. LifeInv /\ [Next]_vars =>
        [\A r \in Run : status[r] = "cancelled" /\ pc[r] # "begin" =>
          status'[r] \in {"cancelled", "failed", "none"}]_vars
  BY CancelledStep
<1> QED BY InitLife, <1>1, <1>2, PTL DEF Spec, CancelledNeverSucceeds

----------------------------------------------------------------------------
(* Retention and the archive.  The stamps that order registered runs, and  *)
(* those that order files and snapshots, are never given twice; the files  *)
(* an executor is about to remove belong to runs nobody can find any more; *)
(* and, if the store never fails, a run that has been through persist-     *)
(* ArchivedRun has its file.                                               *)

HasFile(r) == archive[r].status # "none"

Ordered ==
    /\ \A r \in known : ord[r] <= clock
    /\ \A r, q \in known : ord[r] = ord[q] => r = q

Stamped ==
    /\ \A r \in Run : HasFile(r) => archive[r].at <= clock
    /\ \A r \in Run : pc[r] = "save" => snap[r].at <= clock
    /\ \A r, q \in Run : HasFile(r) /\ HasFile(q) /\ archive[r].at = archive[q].at => r = q
    /\ \A r, q \in Run : pc[r] = "save" /\ pc[q] = "save" /\ snap[r].at = snap[q].at => r = q
    /\ \A r, q \in Run : pc[r] = "save" /\ HasFile(q) => snap[r].at # archive[q].at

Forgotten == \A r \in Run : \A q \in refs[r] : q \notin known /\ pc[q] # "unborn"

Filed ==
    Archiving /\ ~DiskFails =>
        \A r \in known : pc[r] \in {"prune", "remove", "done"} => HasFile(r)

RetainInv == LifeInv /\ Ordered /\ Stamped /\ Forgotten /\ Filed /\ RetentionBound

(* pruneRunsLocked keeps at most MaxRetained terminal runs, if no two runs *)
(* have the same place in the order: the number of newer terminal runs     *)
(* tells the kept ones apart, and it is less than MaxRetained.             *)
LEMMA PrunedBound ==
    ASSUME NEW S \in SUBSET Run, NEW o \in [Run -> Nat], NEW st,
           \A r, q \in S : o[r] = o[q] => r = q,
           NEW T, T = {r \in S \ Pruned(S, o, st) : st[r] \in Terminal}
    PROVE  IsFiniteSet(T) /\ Cardinality(T) <= MaxRetained
<1> DEFINE Newer(r) == {q \in S : st[q] \in Terminal /\ o[q] > o[r]}
           rank == [r \in T |-> Cardinality(Newer(r))]
<1>1. ASSUME NEW r \in T
      PROVE  /\ IsFiniteSet(Newer(r)) /\ Cardinality(Newer(r)) \in Nat
             /\ Cardinality(Newer(r)) < MaxRetained
  <2>1. IsFiniteSet(Newer(r))
    BY LimitAssumption, FS_Subset
  <2>2. Cardinality(Newer(r)) \in Nat
    BY <2>1, FS_CardinalityType
  <2>3. ~(Cardinality(Newer(r)) >= MaxRetained)
    BY DEF Pruned
  <2> QED BY <2>1, <2>2, <2>3, LimitAssumption
<1>2. ASSUME NEW r \in T, NEW q \in T, o[q] > o[r]
      PROVE  Cardinality(Newer(q)) # Cardinality(Newer(r))
  <2>1. Newer(q) \in SUBSET Newer(r) /\ q \in Newer(r) /\ q \notin Newer(q)
    BY <1>2
  <2>2. IsFiniteSet(Newer(r))
    BY <1>1
  <2>3. Newer(q) # Newer(r)
    BY <2>1
  <2> HIDE DEF Newer
  <2> QED BY <2>1, <2>2, <2>3, FS_Subset
<1> HIDE DEF Newer
<1>3. rank \in [T -> 0..MaxRetained - 1]
  BY <1>1, LimitAssumption
<1>4. \A r, q \in T : rank[r] = rank[q] => r = q
  BY <1>2
<1> HIDE DEF rank
<1>5. rank \in Injection(T, 0..MaxRetained - 1)
  BY <1>3, <1>4, Fun_IsInj
<1>6. IsFiniteSet(0..MaxRetained - 1) /\ Cardinality(0..MaxRetained - 1) = MaxRetained
  BY LimitAssumption, FS_Interval
<1> QED BY <1>5, <1>6, FS_Injection

(* A step that leaves registrations and files alone and takes no executor  *)
(* into or through finalizeRun.                                            *)
Aside ==
    /\ UNCHANGED <<clock, known, ord, archVars>>
    /\ \A q \in Run : \/ pc'[q] = pc[q]
                      \/ pc[q] \in Executing /\ pc'[q] \in Executing \cup {"snapshot"}

(* The retained runs are among the earlier ones. *)
LEMMA BoundKept ==
    ASSUME LifeInv, RetentionBound, known' \subseteq known,
           \A q \in known' : pc'[q] \in {"remove", "done"} => pc[q] \in {"remove", "done"}
    PROVE  RetentionBound'
<1> DEFINE S == {r \in known : pc[r] \in {"remove", "done"}}
           T == {r \in known' : pc'[r] \in {"remove", "done"}}
<1>1. T \in SUBSET S /\ S \in SUBSET Run
  BY DEF LifeInv, TypeInv, TypeOK, RegType
<1>2. Cardinality(S) <= MaxRetained
  BY DEF RetentionBound
<1> HIDE DEF S, T
<1>3. IsFiniteSet(S)
  BY <1>1, LimitAssumption, FS_Subset
<1>4. IsFiniteSet(T) /\ Cardinality(T) <= Cardinality(S)
  BY <1>1, <1>3, FS_Subset
<1>5. Cardinality(S) \in Nat /\ Cardinality(T) \in Nat
  BY <1>3, <1>4, FS_CardinalityType
<1>6. Cardinality(T) <= MaxRetained
  BY <1>2, <1>4, <1>5, LimitAssumption
<1> QED BY <1>6 DEF RetentionBound, T

(* Such a step keeps the invariant. *)
LEMMA AsideRetain ==
    ASSUME RetainInv, Aside
    PROVE  Ordered' /\ Stamped' /\ Forgotten' /\ Filed' /\ RetentionBound'
<1> USE DEF RetainInv, LifeInv, TypeInv, TypeOK, RegType, ArchType, Aside, HasFile
<1>1. Ordered'
  BY DEF Ordered
<1>2. Stamped'
  BY DEF Stamped
<1>3. Forgotten'
  BY DEF Forgotten
<1>4. Filed'
  BY DEF Filed
<1>5. RetentionBound'
  BY BoundKept
<1> QED BY <1>1, <1>2, <1>3, <1>4, <1>5

(* A start takes a new stamp. *)
LEMMA RegisterRetain ==
    ASSUME RetainInv, NEW r \in Run, RecordRun(r)
    PROVE  Ordered' /\ Stamped' /\ Forgotten' /\ Filed' /\ RetentionBound'
<1> USE DEF RetainInv, LifeInv, TypeInv, TypeOK, RegType, ExecType, ArchType, RecordRun, HasFile
<1>1. Ordered'
  BY DEF Ordered
<1>2. Stamped'
  BY DEF Stamped, Record
<1>3. Forgotten'
  BY DEF Forgotten
<1>4. Filed'
  BY DEF Filed
<1>5. RetentionBound'
  <2> DEFINE S == {q \in known : pc[q] \in {"remove", "done"}}
             T == {q \in known' : pc'[q] \in {"remove", "done"}}
  <2>1. S = T
    OBVIOUS
  <2> QED BY <2>1 DEF RetentionBound
<1> QED BY <1>1, <1>2, <1>3, <1>4, <1>5

(* A snapshot with a new stamp, or none, keeps the stamps apart. *)
LEMMA StampTaken ==
    ASSUME Stamped, NEW r \in Run, UNCHANGED archive, clock \in Nat,
           \A q \in Run : archive[q].at \in Nat /\ snap[q].at \in Nat,
           \A q \in Run \ {r} : pc'[q] = pc[q] /\ snap'[q] = snap[q],
           \/ pc'[r] = "save" /\ clock' = clock + 1 /\ snap'[r].at = clock + 1
           \/ pc'[r] # "save" /\ clock' = clock
    PROVE  Stamped'
<1>1. \A q \in Run : HasFile(q)' => HasFile(q) /\ archive'[q].at <= clock
  BY DEF Stamped, HasFile
<1>2. clock' \in Nat /\ clock <= clock'
  OBVIOUS
<1>3. \A q \in Run : pc'[q] = "save" =>
         \/ q = r /\ snap'[q].at = clock + 1 /\ clock' = clock + 1
         \/ q # r /\ pc[q] = "save" /\ snap'[q].at = snap[q].at /\ snap[q].at <= clock
  BY DEF Stamped
<1>4. \A q \in Run : HasFile(q)' => archive'[q].at <= clock'
  BY <1>1, <1>2
<1>5. \A q \in Run : pc'[q] = "save" => snap'[q].at <= clock'
  BY <1>2, <1>3
<1>6. ASSUME NEW p \in Run, NEW q \in Run, HasFile(p)', HasFile(q)',
             archive'[p].at = archive'[q].at
      PROVE  p = q
  BY <1>1, <1>6 DEF Stamped
<1>7. ASSUME NEW p \in Run, NEW q \in Run, pc'[p] = "save", pc'[q] = "save",
             snap'[p].at = snap'[q].at
      PROVE  p = q
  BY <1>3, <1>7 DEF Stamped
<1>8. ASSUME NEW p \in Run, NEW q \in Run, pc'[p] = "save", HasFile(q)'
      PROVE  snap'[p].at # archive'[q].at
  BY <1>1, <1>3, <1>8 DEF Stamped
<1> QED BY <1>4, <1>5, <1>6, <1>7, <1>8 DEF Stamped

(* persistArchivedRun takes a new stamp, too. *)
LEMMA SnapshotRetain ==
    ASSUME RetainInv, NEW r \in Run, Snapshot(r)
    PROVE  Ordered' /\ Stamped' /\ Forgotten' /\ Filed' /\ RetentionBound'
<1> USE DEF RetainInv, LifeInv, TypeInv, TypeOK, RegType, ExecType, ArchType, Snapshot, Goto,
            HasFile
<1>1. Ordered'
  BY DEF Ordered
<1>2. Stamped'
  <2>1. /\ UNCHANGED archive
        /\ \A q \in Run \ {r} : pc'[q] = pc[q] /\ snap'[q] = snap[q]
    OBVIOUS
  <2>2. \/ pc'[r] = "save" /\ clock' = clock + 1 /\ snap'[r].at = clock + 1
        \/ pc'[r] # "save" /\ clock' = clock
    OBVIOUS
  <2>3. \A q \in Run : archive[q].at \in Nat /\ snap[q].at \in Nat
    BY DEF Record
  <2> HIDE DEF TypeInv, TypeOK, RegType, ExecType, ArchType, Snapshot, Goto, HasFile
  <2>4. clock \in Nat /\ Stamped
    BY DEF TypeInv, TypeOK, RegType
  <2> QED BY <2>1, <2>2, <2>3, <2>4, StampTaken
<1>3. Forgotten'
  BY DEF Forgotten
<1>4. Filed'
  BY DEF Filed, Ends, ExecutorEndsTerminal
<1>5. RetentionBound'
  BY BoundKept
<1> QED BY <1>1, <1>2, <1>3, <1>4, <1>5

(* The file gets the snapshot's stamp. *)
LEMMA SaveRetain ==
    ASSUME RetainInv, NEW r \in Run, SaveArchive(r)
    PROVE  Ordered' /\ Stamped' /\ Forgotten' /\ Filed' /\ RetentionBound'
<1> USE DEF RetainInv, LifeInv, TypeInv, TypeOK, RegType, ExecType, ArchType, SaveArchive, Goto,
            HasFile
<1>1. Ordered'
  BY DEF Ordered
<1>2. Stamped'
  <2>1. /\ UNCHANGED clock /\ pc[r] = "save" /\ pc'[r] # "save"
        /\ \A q \in Run \ {r} : pc'[q] = pc[q] /\ snap'[q] = snap[q] /\ archive'[q] = archive[q]
        /\ archive'[r] = snap[r] \/ archive'[r] = archive[r]
    OBVIOUS
  <2> QED BY <2>1 DEF Stamped
<1>3. Forgotten'
  BY DEF Forgotten
<1>4. Filed'
  BY DEF Filed, Ends, ExecutorEndsTerminal, Saved, Matches
<1>5. RetentionBound'
  BY BoundKept
<1> QED BY <1>1, <1>2, <1>3, <1>4, <1>5

(* pruneRunsLocked: what it drops is forgotten, what it keeps is bounded. *)
LEMMA PruneRetain ==
    ASSUME RetainInv, NEW r \in Run, PruneRuns(r)
    PROVE  Ordered' /\ Stamped' /\ Forgotten' /\ Filed' /\ RetentionBound'
<1> USE DEF RetainInv, LifeInv, TypeInv, TypeOK, RegType, ExecType, ArchType, PruneRuns, Goto,
            HasFile
<1> DEFINE out == Pruned(known, ord, status)
<1>0. out \subseteq known
  BY DEF Pruned
<1>1. Ordered'
  BY DEF Ordered
<1>2. Stamped'
  BY DEF Stamped
<1>3. Forgotten'
  BY <1>0 DEF Forgotten, Unborn
<1>4. Filed'
  BY DEF Filed
<1>5. RetentionBound'
  <2> DEFINE left == {q \in known \ out : status[q] \in Terminal}
             final == {q \in known' : pc'[q] \in {"remove", "done"}}
  <2>1. IsFiniteSet(left) /\ Cardinality(left) <= MaxRetained
    <3>1. /\ known \in SUBSET Run /\ ord \in [Run -> Nat]
          /\ \A p, q \in known : ord[p] = ord[q] => p = q
      BY DEF Ordered
    <3> HIDE DEF RetainInv, LifeInv, TypeInv, TypeOK, RegType, ExecType, ArchType, PruneRuns,
                 Goto, HasFile
    <3> QED BY <3>1, PrunedBound, SMTT(30)
  <2>2. final \in SUBSET left
    <3>1. known' = known \ out /\ pc[r] = "prune" /\ \A q \in Run \ {r} : pc'[q] = pc[q]
      OBVIOUS
    <3>2. \A q \in known : pc[q] \in {"prune", "remove", "done"} => status[q] \in Terminal
      BY DEF Ends, ExecutorEndsTerminal
    <3> QED BY <3>1, <3>2
  <2> HIDE DEF left, final
  <2>3. IsFiniteSet(final) /\ Cardinality(final) <= Cardinality(left)
    BY <2>1, <2>2, FS_Subset
  <2>4. Cardinality(final) <= MaxRetained
    BY <2>1, <2>3, FS_CardinalityType, LimitAssumption
  <2> QED BY <2>4 DEF final, RetentionBound
<1> QED BY <1>1, <1>2, <1>3, <1>4, <1>5

(* removeArchivedRuns: only the files of forgotten runs go. *)
LEMMA RemoveRetain ==
    ASSUME RetainInv, NEW r \in Run, RemoveArchived(r)
    PROVE  Ordered' /\ Stamped' /\ Forgotten' /\ Filed' /\ RetentionBound'
<1> USE DEF RetainInv, LifeInv, TypeInv, TypeOK, RegType, ExecType, ArchType, RemoveArchived,
            Goto, HasFile
<1>1. PICK q \in refs[r] : /\ archive' = [archive EXCEPT ![q] = NoRec] \/ UNCHANGED archive
                           /\ refs' = [refs EXCEPT ![r] = refs[r] \ {q}]
  OBVIOUS
<1>2. Ordered'
  BY DEF Ordered
<1>3. Stamped'
  <2>1. /\ UNCHANGED <<clock, snap>>
        /\ \A x \in Run : pc'[x] = "save" => pc[x] = "save"
        /\ \A x \in Run : HasFile(x)' => archive'[x] = archive[x]
    BY <1>1 DEF NoRec
  <2> QED BY <2>1 DEF Stamped
<1>4. Forgotten'
  BY <1>1 DEF Forgotten
<1>5. Filed'
  BY <1>1 DEF Filed, Forgotten
<1>6. RetentionBound'
  BY BoundKept
<1> QED BY <1>2, <1>3, <1>4, <1>5, <1>6

(* A restart orders the runs by the stamps of their files and prunes them  *)
(* as finalizeRun does.                                                    *)
LEMMA RestartRetain ==
    ASSUME RetainInv, Restart
    PROVE  Ordered' /\ Stamped' /\ Forgotten' /\ Filed' /\ RetentionBound'
<1> USE DEF RetainInv, LifeInv, TypeInv, TypeOK, RegType, ExecType, ArchType
<1> DEFINE at == [r \in Run |-> archive[r].at]
           st == [r \in Run |-> archive[r].status]
           out == Pruned(Archived, at, st)
           kept == Archived \ out
<1>1. /\ known' = kept /\ ord' = at /\ clock' = clock
      /\ archive' = [r \in Run |-> IF r \in out THEN NoRec ELSE archive[r]]
      /\ refs' = [r \in Run |-> {}]
      /\ \A r \in Run : pc'[r] \in {"unborn", "done", "lost"}
  BY DEF Restart
<1>2. Archived \in SUBSET Run /\ at \in [Run -> Nat] /\ out \subseteq Archived
  BY DEF Archived, Record, Pruned
<1>3. \A r \in Archived : /\ HasFile(r) /\ at[r] = archive[r].at /\ st[r] = archive[r].status
                          /\ st[r] \in Terminal
  BY DEF Archived, HasFile, Record
<1>4. \A r, q \in Archived : at[r] = at[q] => r = q
  BY <1>2, <1>3 DEF Stamped
<1> HIDE DEF at, st
<1>5. IsFiniteSet(kept) /\ Cardinality(kept) <= MaxRetained
  <2> DEFINE T == {r \in Archived \ out : st[r] \in Terminal}
  <2>1. kept = T
    BY <1>3
  <2>2. IsFiniteSet(T) /\ Cardinality(T) <= MaxRetained
    BY <1>2, <1>4, PrunedBound, SMTT(30)
  <2> QED BY <2>1, <2>2
<1> HIDE DEF out
<1>6. Ordered'
  BY <1>1, <1>2, <1>3, <1>4 DEF Ordered, Stamped
<1>7. \A r \in Run : HasFile(r)' => HasFile(r) /\ archive'[r] = archive[r]
  BY <1>1 DEF HasFile, NoRec
<1>8. Stamped'
  BY <1>1, <1>7 DEF Stamped
<1>9. Forgotten'
  BY <1>1 DEF Forgotten
<1>10. Filed'
  BY <1>1, <1>2, <1>3 DEF Filed, HasFile
<1>11. RetentionBound'
  <2> DEFINE U == {r \in known' : pc'[r] \in {"remove", "done"}}
  <2>1. U \in SUBSET kept
    BY <1>1
  <2> HIDE DEF U, kept
  <2>2. IsFiniteSet(U) /\ Cardinality(U) <= Cardinality(kept)
    BY <1>5, <2>1, FS_Subset
  <2>3. Cardinality(U) <= MaxRetained
    BY <1>5, <2>2, FS_CardinalityType, LimitAssumption
  <2> QED BY <2>3 DEF U, RetentionBound
<1> QED BY <1>6, <1>8, <1>9, <1>10, <1>11

(* A step inside executeGraph is aside. *)
LEMMA ExecGraphAside ==
    ASSUME TypeInv, NEW r \in Run,
           \/ ExecBegin(r) \/ ExecHead(r) \/ ExecMark(r) \/ ExecAttempt(r) \/ ExecBackoff(r)
           \/ ExecAfter(r) \/ ExecRecord(r) \/ ExecFail(r) \/ ExecFinish(r)
    PROVE  Aside
<1>1. ExecFrame
  BY DEF ExecBegin, ExecHead, ExecMark, ExecAttempt, ExecBackoff, ExecAfter, ExecRecord,
     ExecFail, ExecFinish
<1>2. pc[r] \in Executing /\ \E there \in Executing \cup {"snapshot"} : Goto(r, there)
  <2>1. CASE ExecBegin(r) \/ ExecHead(r) \/ ExecMark(r)
    BY <2>1 DEF ExecBegin, ExecHead, ExecMark, Leave, Goto
  <2>2. CASE ExecAttempt(r) \/ ExecBackoff(r) \/ ExecAfter(r)
    BY <2>2 DEF ExecAttempt, ExecBackoff, ExecAfter, Leave, Goto
  <2>3. CASE ExecRecord(r)
    BY <2>3 DEF ExecRecord, Leave
  <2>4. CASE ExecFail(r) \/ ExecFinish(r)
    BY <2>4 DEF ExecFail, ExecFinish, Leave
  <2> QED BY <2>1, <2>2, <2>3, <2>4
<1> QED BY <1>1, <1>2 DEF TypeInv, TypeOK, ExecType, Goto, Aside, ExecFrame

(* So is a request that registers no run. *)
LEMMA RequestAside ==
    ASSUME \/ \E k \in Caller : CapabilityLookup(k) \/ CapabilityReturn(k)
           \/ \E c \in Canceller : \/ CancelState(c) \/ CancelSignal(c)
                                   \/ \E r \in Run : CancelLookup(c, r)
           \/ SetFlow \/ DeleteLookup \/ DeleteStoreFails \/ DeleteCommit
           \/ DeleteCancel \/ DeleteSignal \/ DeleteUnlock \/ UNCHANGED vars
    PROVE  Aside
<1>1. UNCHANGED <<regVars, execVars, archVars>>
  BY DEF CapabilityLookup, CapabilityReturn, CancelState, CancelSignal, CancelLookup, SetFlow,
     DeleteLookup, DeleteStoreFails, DeleteCommit, DeleteCancel, DeleteSignal, DeleteUnlock, vars
<1> QED BY <1>1 DEF Aside

(* Initially there is neither a run nor a file. *)
LEMMA InitRetain == Init => RetainInv
<1> SUFFICES ASSUME Init PROVE RetainInv
  OBVIOUS
<1>1. Ordered /\ Stamped /\ Forgotten /\ Filed
  BY DEF Init, Ordered, Stamped, Forgotten, Filed, HasFile, NoRec
<1>2. {r \in known : pc[r] \in {"remove", "done"}} = {}
  BY DEF Init
<1>3. RetentionBound
  BY <1>2, FS_EmptySet, LimitAssumption DEF RetentionBound
<1> QED BY <1>1, <1>3, InitLife DEF RetainInv

(* The inductive step. *)
LEMMA StepRetain == RetainInv /\ [Next]_vars => RetainInv'
<1> SUFFICES ASSUME RetainInv, [Next]_vars PROVE RetainInv'
  OBVIOUS
<1>0. LifeInv' /\ LifeInv /\ TypeInv
  BY StepLife DEF RetainInv, LifeInv
<1> SUFFICES Ordered' /\ Stamped' /\ Forgotten' /\ Filed' /\ RetentionBound'
  BY <1>0 DEF RetainInv
<1>1. CASE \E r \in Run : RunLocal(r) \/ TryStartRunWithTrigger(r)
  BY <1>1, RegisterRetain DEF RunLocal, TryStartRunWithTrigger, StartRun
<1>2. CASE \E r \in Run : ExecStep(r)
  BY <1>0, <1>2, ExecGraphAside, AsideRetain, SnapshotRetain, SaveRetain, PruneRetain,
     RemoveRetain DEF ExecStep
<1>3. CASE \E k \in Caller : \/ CapabilityLookup(k) \/ CapabilityReturn(k)
                            \/ \E r \in Run : CapabilityEnqueue(k, r)
  BY <1>3, RequestAside, AsideRetain, RegisterRetain DEF CapabilityEnqueue
<1>4. CASE \/ \E c \in Canceller : \/ CancelState(c) \/ CancelSignal(c)
                                   \/ \E r \in Run : CancelLookup(c, r)
           \/ SetFlow \/ DeleteLookup \/ DeleteStoreFails \/ DeleteCommit
           \/ DeleteCancel \/ DeleteSignal \/ DeleteUnlock \/ UNCHANGED vars
  BY <1>4, RequestAside, AsideRetain
<1>5. CASE Restart
  BY <1>5, RestartRetain
<1> QED BY <1>1, <1>2, <1>3, <1>4, <1>5 DEF Next

(* At most MaxRetained runs that have been through pruning can be queried, *)
(* however executors finish and whenever the process restarts:             *)
(* RetentionBound.                                                         *)
THEOREM RetentionHolds == Spec => []RetentionBound
<1>1. RetainInv => RetentionBound
  BY DEF RetainInv
<1> QED BY <1>1, InitRetain, StepRetain, PTL DEF Spec

(* With a store that never fails, every finished run that can be queried   *)
(* is on disk as it is in memory: RetainedIsArchived.                      *)
THEOREM RetainedFiled == Spec => []RetainedIsArchived
<1>1. RetainInv => RetainedIsArchived
  BY DEF RetainInv, LifeInv, TypeInv, TypeOK, RegType, Filed, HasFile, Saved, Matches,
     RetainedIsArchived
<1> QED BY <1>1, InitRetain, StepRetain, PTL DEF Spec

----------------------------------------------------------------------------
(* What a succeeded run did.  The executor has dealt with the nodes before *)
(* cur as the graph asks, and only a node it has run to success has a      *)
(* selected case; both outlive whatever is written at cur or by a cancel.  *)

Good(r, n) ==
    IF Reached(r, n)
    THEN nodes[r][n] = "succeeded" \/ (nodes[r][n] = "failed" /\ n \in AllowFail)
    ELSE nodes[r][n] = "skipped"

Walked(r) ==
    /\ pc[r] \in {"unborn", "begin"} => cur[r] = 1
    /\ pc[r] = "finish" => cur[r] > NumNodes
    /\ pc[r] \in AtNode \ {"mark"} => Reached(r, cur[r])
    /\ pc[r] \in ({"unborn"} \cup Executing) \ {"fail"} =>
          \A n \in Node : /\ n < cur[r] => Good(r, n)
                          /\ sel[r][n] # NoCase => n < cur[r] /\ nodes[r][n] = "succeeded"

WalkInv == LifeInv /\ (\A r \in Run : Walked(r)) /\ SucceededRunComplete

(* Edges lead forward, so what the executor did with a node is judged by   *)
(* that node and the ones before it.                                       *)
LEMMA GoodKept ==
    ASSUME NEW r \in Run, NEW n \in Node, Good(r, n),
           \A m \in Node : m <= n => nodes'[r][m] = nodes[r][m] /\ sel'[r][m] = sel[r][m]
    PROVE  Good(r, n)'
<1>1. \A e \in Incoming(n) : e.from \in Node /\ e.from <= n
  BY GraphAssumption DEF Incoming, ValidGraph, Node
<1>2. Reached(r, n)' <=> Reached(r, n)
  BY <1>1 DEF Reached
<1>3. nodes'[r][n] = nodes[r][n]
  BY GraphAssumption DEF Node
<1> QED BY <1>2, <1>3 DEF Good

(* shouldExecuteNode, at a node whose parents have been dealt with, decides *)
(* whether the node lies on a taken path.                                   *)
LEMMA ShouldMeansReached ==
    ASSUME NEW r \in Run, NEW n \in Node,
           \A m \in Node : m < n => Good(r, m),
           \A m \in Node : sel[r][m] # NoCase => nodes[r][m] = "succeeded"
    PROVE  ShouldExecuteNode(nodes[r], sel[r], n) <=> Reached(r, n)
<1>1. ASSUME NEW e \in Incoming(n)
      PROVE  EdgeActive(nodes[r], sel[r], e) <=>
                \/ BranchCases[e.from] = {} /\ nodes[r][e.from] \in {"succeeded", "failed"}
                \/ nodes[r][e.from] = "succeeded" /\ sel[r][e.from] = e.case
  <2>1. /\ e.from \in Node /\ e.from < n
        /\ e.case = NoCase <=> BranchCases[e.from] = {}
    BY GraphAssumption DEF Incoming, ValidGraph
  <2>2. nodes[r][e.from] \in {"succeeded", "failed", "skipped"}
    BY <2>1 DEF Good
  <2> QED BY <2>1, <2>2 DEF EdgeActive
<1> QED BY <1>1 DEF ShouldExecuteNode, Reached

(* What the executor's other steps, the steps of other executors and the   *)
(* requests leave of a walk: a cancel changes only a node that is running. *)
Paused(q) ==
    /\ pc'[q] = pc[q] /\ cur'[q] = cur[q] /\ sel'[q] = sel[q]
    /\ nodes'[q] = nodes[q] \/ nodes'[q] = CancelNodes(nodes[q])

(* A paused walk is still good. *)
LEMMA PausedWalk ==
    ASSUME TypeInv, NEW r \in Run, Walked(r),
           cur'[r] = cur[r], sel'[r] = sel[r],
           nodes'[r] = nodes[r] \/ nodes'[r] = CancelNodes(nodes[r]),
           pc[r] \in ({"unborn"} \cup Executing) \ {"fail"}
    PROVE  \A n \in Node : /\ n < cur'[r] => Good(r, n)'
                           /\ sel'[r][n] # NoCase => n < cur'[r] /\ nodes'[r][n] = "succeeded"
<1>1. \A m \in Node : m < cur[r] => nodes'[r][m] = nodes[r][m]
  BY DEF Walked, Good, CancelNodes
<1>2. \A n, m \in Node : n < cur[r] /\ m <= n => m < cur[r]
  BY DEF TypeInv, TypeOK, ExecType, Node
<1>3. \A n \in Node : n < cur[r] => Good(r, n)'
  BY <1>1, <1>2, GoodKept DEF Walked
<1> QED BY <1>1, <1>3 DEF Walked

(* Writing at the current node leaves the walk before it alone. *)
LEMMA WrittenWalk ==
    ASSUME TypeInv, NEW r \in Run, Walked(r), pc[r] \in AtNode, NEW i \in Node, cur[r] = i,
           \A m \in Node \ {i} : nodes'[r][m] = nodes[r][m] /\ sel'[r][m] = sel[r][m]
    PROVE  /\ \A n \in Node : n < i => Good(r, n)'
           /\ \A n \in Node \ {i} :
                 sel'[r][n] # NoCase => n < i /\ nodes'[r][n] = "succeeded"
           /\ sel[r][i] = NoCase
           /\ Reached(r, i)' <=> Reached(r, i)
           /\ ShouldExecuteNode(nodes[r], sel[r], i) <=> Reached(r, i)
<1>1. \A n, m \in Node : n < i /\ m <= n => m # i
  BY DEF Node
<1>2. \A n \in Node : n < i => Good(r, n)'
  BY <1>1, GoodKept DEF Walked
<1>3. sel[r][i] = NoCase
  BY DEF Walked, Node
<1>4. Reached(r, i)' <=> Reached(r, i)
  <2>1. \A e \in Incoming(i) : e.from \in Node \ {i}
    BY GraphAssumption DEF Incoming, ValidGraph, Node
  <2> QED BY <2>1 DEF Reached
<1>5. ShouldExecuteNode(nodes[r], sel[r], i) <=> Reached(r, i)
  BY ShouldMeansReached DEF Walked
<1> QED BY <1>2, <1>3, <1>4, <1>5 DEF Walked

(* So the walk of a run that a step leaves where it is stays good. *)
LEMMA PausedWalked ==
    ASSUME TypeInv, NEW r \in Run, Walked(r), Paused(r)
    PROVE  Walked(r)'
<1>1. CASE pc[r] \in ({"unborn"} \cup Executing) \ {"fail"}
  <2>1. ASSUME pc[r] \in AtNode \ {"mark"} PROVE Reached(r, cur[r])'
    <3>1. PICK i \in Node : cur[r] = i
      BY <2>1 DEF TypeInv, Targets
    <3>2. \A e \in Incoming(i) : e.from \in Node /\ e.from < i
      BY GraphAssumption DEF Incoming, ValidGraph
    <3>3. \A m \in Node : m < i => nodes'[r][m] = nodes[r][m] /\ sel'[r][m] = sel[r][m]
      BY <1>1, <3>1 DEF Walked, Good, CancelNodes, Paused
    <3>4. Reached(r, i)
      BY <2>1, <3>1 DEF Walked
    <3>5. Reached(r, i)'
      BY <3>2, <3>3, <3>4 DEF Reached
    <3>6. cur'[r] = i
      BY <3>1 DEF Paused
    <3> QED BY <3>5, <3>6
  <2> QED BY <1>1, <2>1, PausedWalk DEF Walked, Paused
<1>2. CASE pc[r] \notin ({"unborn"} \cup Executing) \ {"fail"}
  BY <1>2 DEF Walked, Paused
<1> QED BY <1>1, <1>2

(* The executor's steps inside executeGraph keep its walk good. *)
LEMMA ExecWalk ==
    ASSUME LifeInv, NEW r \in Run, Walked(r),
           \/ ExecBegin(r) \/ ExecHead(r) \/ ExecMark(r) \/ ExecAttempt(r) \/ ExecBackoff(r)
           \/ ExecAfter(r) \/ ExecRecord(r) \/ ExecFail(r) \/ ExecFinish(r)
    PROVE  Walked(r)'
<1> USE DEF LifeInv, TypeInv, TypeOK, StateType, ExecType
<1>0. ASSUME pc'[r] = "snapshot" PROVE Walked(r)'
  BY <1>0 DEF Walked
<1>1. ASSUME UNCHANGED <<nodes, sel, cur>>,
             pc[r] \in Executing \ {"fail"}, pc'[r] \in Executing \ {"begin", "fail"},
             pc'[r] = "finish" => cur[r] > NumNodes,
             pc'[r] \in AtNode \ {"mark"} => pc[r] \in AtNode \ {"mark"}
      PROVE  Walked(r)'
  <2>1. (\A n \in Node : Good(r, n)' <=> Good(r, n)) /\ (Reached(r, cur[r])' <=> Reached(r, cur[r]))
    BY <1>1 DEF Good, Reached
  <2> QED BY <1>1, <2>1 DEF Walked
<1>2. CASE ExecBegin(r) \/ ExecHead(r)
  BY <1>0, <1>1, <1>2 DEF ExecBegin, ExecHead, CancelRunState, Leave, Goto
<1>3. CASE ExecAttempt(r) \/ ExecBackoff(r) \/ ExecAfter(r)
  BY <1>0, <1>1, <1>3 DEF ExecAttempt, ExecBackoff, ExecAfter, Leave, Goto
<1>4. CASE ExecFail(r) \/ ExecFinish(r)
  BY <1>0, <1>4 DEF ExecFail, ExecFinish, Leave, Goto
<1>5. CASE ExecMark(r)
  <2>1. PICK i \in Node : cur[r] = i
    BY <1>5 DEF Targets, ExecMark
  <2>2. /\ \A m \in Node \ {i} : nodes'[r][m] = nodes[r][m] /\ sel'[r][m] = sel[r][m]
        /\ sel'[r] = sel[r] /\ pc[r] = "mark"
    BY <1>5, <2>1 DEF ExecMark
  <2>3. /\ \A n \in Node : n < i => Good(r, n)'
        /\ \A n \in Node \ {i} : sel'[r][n] # NoCase => n < i /\ nodes'[r][n] = "succeeded"
        /\ sel[r][i] = NoCase
        /\ Reached(r, i)' <=> Reached(r, i)
        /\ ShouldExecuteNode(nodes[r], sel[r], i) <=> Reached(r, i)
    BY <2>1, <2>2, WrittenWalk
  <2>4. CASE ShouldExecuteNode(nodes[r], sel[r], cur[r])
    <3>1. pc'[r] = "attempt" /\ cur'[r] = i
      BY <1>5, <2>1, <2>4 DEF ExecMark, Goto
    <3> QED BY <2>1, <2>2, <2>3, <2>4, <3>1 DEF Walked
  <2>5. CASE ~ShouldExecuteNode(nodes[r], sel[r], cur[r])
    <3>1. pc'[r] = "head" /\ cur'[r] = i + 1 /\ nodes'[r][i] = "skipped"
      BY <1>5, <2>1, <2>5 DEF ExecMark, Goto
    <3>2. Good(r, i)'
      BY <2>1, <2>3, <2>5, <3>1 DEF Good
    <3>3. \A n \in Node : n < i + 1 <=> n < i \/ n = i
      BY DEF Node
    <3> QED BY <2>2, <2>3, <3>1, <3>2, <3>3 DEF Walked
  <2> QED BY <2>4, <2>5
<1>6. CASE ExecRecord(r)
  <2>1. PICK i \in Node : cur[r] = i
    BY <1>6 DEF Targets, ExecRecord
  <2>2. CASE status[r] = "cancelled"
    BY <1>0, <1>6, <2>2 DEF ExecRecord, Leave, Goto
  <2>3. CASE status[r] # "cancelled"
    <3>1. /\ pc[r] = "record"
          /\ nodes' = [nodes EXCEPT ![r][i] = IF last[r] = "ok" THEN "succeeded" ELSE "failed"]
          /\ \/ sel' = sel
             \/ last[r] = "ok" /\ \E c \in BranchCases[i] : sel' = [sel EXCEPT ![r][i] = c]
          /\ IF last[r] = "ok" \/ i \in AllowFail
             THEN Goto(r, "head") /\ cur' = [cur EXCEPT ![r] = i + 1]
             ELSE Goto(r, "fail")
      BY <1>6, <2>1, <2>3 DEF ExecRecord
    <3>2. /\ \A m \in Node \ {i} : nodes'[r][m] = nodes[r][m] /\ sel'[r][m] = sel[r][m]
          /\ pc[r] \in AtNode
      BY <3>1
    <3>3. /\ \A n \in Node : n < i => Good(r, n)'
          /\ \A n \in Node \ {i} : sel'[r][n] # NoCase => n < i /\ nodes'[r][n] = "succeeded"
          /\ sel[r][i] = NoCase
          /\ Reached(r, i)' <=> Reached(r, i)
      BY <2>1, <3>2, WrittenWalk
    <3>4. Reached(r, i)'
      BY <2>1, <3>1, <3>3 DEF Walked
    <3>5. ASSUME last[r] = "ok" \/ i \in AllowFail PROVE Walked(r)'
      <4>1. pc'[r] = "head" /\ cur'[r] = i + 1
        BY <3>1, <3>5 DEF Goto
      <4>2. nodes'[r][i] = IF last[r] = "ok" THEN "succeeded" ELSE "failed"
        BY <3>1
      <4>3. Good(r, i)'
        BY <3>4, <3>5, <4>2 DEF Good
      <4>4. sel'[r][i] # NoCase => nodes'[r][i] = "succeeded"
        BY <3>1, <3>3, <4>2
      <4>5. \A n \in Node : n < i + 1 <=> n < i \/ n = i
        BY DEF Node
      <4> QED BY <3>3, <4>1, <4>3, <4>4, <4>5 DEF Walked
    <3>6. ASSUME ~(last[r] = "ok" \/ i \in AllowFail) PROVE Walked(r)'
      <4>1. pc'[r] = "fail"
        BY <3>1, <3>6 DEF Goto
      <4> QED BY <4>1 DEF Walked
    <3> QED BY <3>5, <3>6
  <2> QED BY <2>2, <2>3
<1> QED BY <1>2, <1>3, <1>4, <1>5, <1>6

(* A run that has succeeded keeps what it did. *)
Kept(q) == status'[q] = "succeeded" =>
    status[q] = "succeeded" /\ nodes'[q] = nodes[q] /\ sel'[q] = sel[q]

(* Then a step in which no run becomes succeeded keeps the invariant. *)
LEMMA KeptComplete ==
    ASSUME SucceededRunComplete, NEW r \in Run, Kept(r), status'[r] = "succeeded"
    PROVE  \A n \in Node : Good(r, n)'
<1>1. \A n \in Node : Good(r, n)
  BY DEF Kept, SucceededRunComplete, Good
<1> QED BY <1>1 DEF Kept, Good, Reached

(* A step of an executor inside executeGraph: the other runs pause, and    *)
(* its own run succeeds only after the last node.                          *)
LEMMA ExecComplete ==
    ASSUME WalkInv, NEW r \in Run,
           \/ ExecBegin(r) \/ ExecHead(r) \/ ExecMark(r) \/ ExecAttempt(r) \/ ExecBackoff(r)
           \/ ExecAfter(r) \/ ExecRecord(r) \/ ExecFail(r) \/ ExecFinish(r)
    PROVE  /\ \A q \in Run \ {r} : Paused(q) /\ Kept(q)
           /\ status'[r] = "succeeded" => \A n \in Node : Good(r, n)'
<1> USE DEF WalkInv, LifeInv, TypeInv, TypeOK, StateType, ExecType
<1>1. \A q \in Run \ {r} : pc'[q] = pc[q] /\ cur'[q] = cur[q]
  <2>1. CASE ExecBegin(r) \/ ExecHead(r) \/ ExecMark(r)
    BY <2>1 DEF ExecBegin, ExecHead, ExecMark, Leave, Goto
  <2>2. CASE ExecAttempt(r) \/ ExecBackoff(r) \/ ExecAfter(r)
    BY <2>2 DEF ExecAttempt, ExecBackoff, ExecAfter, Leave, Goto
  <2>3. CASE ExecRecord(r)
    BY <2>3 DEF ExecRecord, Leave, Goto
  <2>4. CASE ExecFail(r) \/ ExecFinish(r)
    BY <2>4 DEF ExecFail, ExecFinish, Leave, Goto
  <2> QED BY <2>1, <2>2, <2>3, <2>4
<1>2. \A q \in Run \ {r} : /\ status'[q] = status[q] /\ nodes'[q] = nodes[q]
                           /\ sel'[q] = sel[q]
  <2>1. CASE ExecBegin(r) \/ ExecHead(r) \/ ExecMark(r)
    BY <2>1 DEF ExecBegin, ExecHead, ExecMark, CancelRunState, WriteCancelled
  <2>2. CASE ExecAttempt(r) \/ ExecBackoff(r) \/ ExecAfter(r)
    BY <2>2 DEF ExecAttempt, ExecBackoff, ExecAfter, CancelRunState, WriteCancelled
  <2>3. CASE ExecRecord(r)
    BY <2>3 DEF ExecRecord, WriteCancelled
  <2>4. CASE ExecFail(r) \/ ExecFinish(r)
    BY <2>4 DEF ExecFail, ExecFinish, WriteCancelled
  <2> QED BY <2>1, <2>2, <2>3, <2>4
<1>3. pc[r] \in Executing
  BY DEF ExecBegin, ExecHead, ExecMark, ExecAttempt, ExecBackoff, ExecAfter, ExecRecord,
     ExecFail, ExecFinish
<1>4. status[r] # "succeeded"
  BY <1>3 DEF Ends, ExecutorEndsTerminal
<1>5. CASE ExecFinish(r) /\ status'[r] = "succeeded"
  <2>1. UNCHANGED <<nodes, sel>> /\ pc[r] = "finish"
    BY <1>5 DEF ExecFinish, WriteCancelled
  <2>2. \A n \in Node : n < cur[r]
    BY <2>1, GraphAssumption DEF Walked, Node
  <2>3. \A n \in Node : Good(r, n)
    BY <2>1, <2>2 DEF Walked
  <2>4. ASSUME NEW n \in Node PROVE Good(r, n)'
    BY <2>1, <2>3, GoodKept
  <2> QED BY <1>1, <1>2, <2>4 DEF Paused, Kept
<1>6. ASSUME ~(ExecFinish(r) /\ status'[r] = "succeeded") PROVE status'[r] # "succeeded"
  BY <1>4, <1>6 DEF ExecBegin, ExecHead, ExecMark, ExecAttempt, ExecBackoff, ExecAfter, ExecRecord,
     ExecFail, ExecFinish, CancelRunState, WriteCancelled
<1> QED BY <1>1, <1>2, <1>5, <1>6 DEF Paused, Kept

(* A step of finalizeRun, a request, a start or no step at all: every run  *)
(* pauses, or its executor is not walking the graph.                       *)
LEMMA AsideWalk ==
    ASSUME WalkInv, NEW q \in Run, Paused(q) \/ pc'[q] \in FinalPC \cup {"lost"}
    PROVE  Walked(q)'
<1>1. CASE Paused(q)
  BY <1>1, PausedWalked DEF WalkInv, LifeInv
<1>2. CASE pc'[q] \in FinalPC \cup {"lost"}
  BY <1>2 DEF Walked
<1> QED BY <1>1, <1>2

(* finalizeRun decides nothing any more. *)
LEMMA FinalWalk ==
    ASSUME WalkInv, NEW r \in Run, NEW q \in Run,
           Snapshot(r) \/ SaveArchive(r) \/ PruneRuns(r) \/ RemoveArchived(r)
    PROVE  Walked(q)' /\ Kept(q)
<1> USE DEF WalkInv, LifeInv, TypeInv, TypeOK, ExecType
<1>1. FinalFrame
  BY DEF Snapshot, SaveArchive, PruneRuns, RemoveArchived
<1>2. pc'[q] = pc[q] \/ pc'[q] \in FinalPC
  BY DEF Snapshot, SaveArchive, PruneRuns, RemoveArchived, Goto
<1>3. Paused(q) \/ pc'[q] \in FinalPC
  BY <1>1, <1>2 DEF FinalFrame, Paused
<1> QED BY <1>1, <1>3, AsideWalk DEF FinalFrame, Kept

(* A cancel leaves what the executor has done, and what has ended. *)
LEMMA CancelWalk ==
    ASSUME WalkInv, NEW q \in Run, NEW r \in Run, NEW why \in Reason,
           CancelRunState(r, why), UNCHANGED execVars
    PROVE  Walked(q)' /\ Kept(q)
<1> USE DEF WalkInv, LifeInv, TypeInv, TypeOK, StateType
<1>1. Paused(q)
  BY DEF CancelRunState, WriteCancelled, Paused
<1>2. Kept(q)
  BY DEF CancelRunState, WriteCancelled, Kept
<1> QED BY <1>1, <1>2, AsideWalk

(* A start begins a new walk. *)
LEMMA RegisterWalk ==
    ASSUME WalkInv, NEW r \in Run, NEW q \in Run, RecordRun(r)
    PROVE  Walked(q)' /\ Kept(q)
<1> USE DEF WalkInv, LifeInv, TypeInv, TypeOK, StateType, ExecType, RecordRun
<1>1. Kept(q)
  BY DEF Kept
<1>2. CASE q # r
  BY <1>1, <1>2, AsideWalk DEF Paused
<1>3. CASE q = r
  <2>1. pc[r] = "unborn" /\ pc'[r] = "begin" /\ cur'[r] = cur[r] /\ cur[r] = 1
    BY DEF Walked
  <2>2. UNCHANGED <<nodes, sel>>
    OBVIOUS
  <2>3. \A n \in Node : Good(r, n)' <=> Good(r, n)
    BY <2>2 DEF Good, Reached
  <2>4. Walked(r)
    OBVIOUS
  <2> HIDE DEF WalkInv, LifeInv, TypeInv, TypeOK, StateType, ExecType, RecordRun
  <2>5. \A n \in Node : /\ n < cur[r] => Good(r, n)
                        /\ sel[r][n] # NoCase => n < cur[r] /\ nodes[r][n] = "succeeded"
    BY <2>1, <2>4 DEF Walked, Executing
  <2>6. \A n \in Node : /\ n < cur'[r] => Good(r, n)'
                        /\ sel'[r][n] # NoCase => n < cur'[r] /\ nodes'[r][n] = "succeeded"
    BY <2>1, <2>2, <2>3, <2>5
  <2>7. Walked(r)'
    BY <2>1, <2>6 DEF Walked, AtNode
  <2> QED BY <1>1, <1>3, <2>7
<1> QED BY <1>2, <1>3

(* A restart ends every walk; what it reads back is what the runs did. *)
LEMMA RestartWalk ==
    ASSUME WalkInv, NEW q \in Run, Restart
    PROVE  Walked(q)' /\ Kept(q)
<1> USE DEF WalkInv, LifeInv
<1>1. q \in known' => archive[q].status # "none"
  BY DEF Restart, Archived
<1>2. q \in known' => Settled(q) /\ pc[q] \in FinalPC
  BY <1>1, RestartLife DEF Saved
<1>3. q \notin known' => status'[q] = "none" /\ sel'[q] = [n \in Node |-> NoCase]
  BY DEF Restart, NoRec
<1>4. Kept(q)
  BY <1>2, <1>3 DEF Kept, Settled
<1>5. /\ cur'[q] = 1
      /\ (pc'[q] = "unborn" => pc[q] = "unborn") /\ pc'[q] \in {"unborn", "done", "lost"}
  BY DEF Restart
<1>6. Walked(q)'
  <2>1. CASE pc'[q] = "unborn"
    <3>1. sel'[q] = [n \in Node |-> NoCase]
      BY <1>2, <1>3, <1>5, <2>1
    <3>2. \A n \in Node : ~(n < 1)
      BY DEF Node
    <3> QED BY <1>5, <2>1, <3>1, <3>2 DEF Walked
  <2>2. CASE pc'[q] # "unborn"
    BY <1>5, <2>2, AsideWalk
  <2> QED BY <2>1, <2>2
<1> QED BY <1>4, <1>6

(* Initially no executor has begun. *)
LEMMA InitWalk == Init => WalkInv
<1> SUFFICES ASSUME Init PROVE WalkInv
  OBVIOUS
<1>1. \A n \in Node : ~(n < 1)
  BY DEF Node
<1>2. \A r \in Run : Walked(r)
  BY <1>1 DEF Init, Walked
<1>3. SucceededRunComplete
  BY DEF Init, SucceededRunComplete
<1> QED BY <1>2, <1>3, InitLife DEF WalkInv

(* The inductive step. *)
LEMMA StepWalk == WalkInv /\ [Next]_vars => WalkInv'
<1> SUFFICES ASSUME WalkInv, [Next]_vars PROVE WalkInv'
  OBVIOUS
<1>0. LifeInv' /\ LifeInv /\ TypeInv /\ SucceededRunComplete
  BY StepLife DEF WalkInv, LifeInv
<1> SUFFICES ASSUME NEW q \in Run
             PROVE  Walked(q)' /\ (status'[q] = "succeeded" => \A n \in Node : Good(q, n)')
  BY <1>0 DEF WalkInv, SucceededRunComplete, Good
<1>1. ASSUME Walked(q)', Kept(q)
      PROVE  Walked(q)' /\ (status'[q] = "succeeded" => \A n \in Node : Good(q, n)')
  BY <1>0, <1>1, KeptComplete
<1>2. CASE \E r \in Run : RunLocal(r) \/ TryStartRunWithTrigger(r)
  BY <1>1, <1>2, RegisterWalk DEF RunLocal, TryStartRunWithTrigger, StartRun
<1>3. ASSUME NEW r \in Run,
             \/ ExecBegin(r) \/ ExecHead(r) \/ ExecMark(r) \/ ExecAttempt(r) \/ ExecBackoff(r)
             \/ ExecAfter(r) \/ ExecRecord(r) \/ ExecFail(r) \/ ExecFinish(r)
      PROVE  Walked(q)' /\ (status'[q] = "succeeded" => \A n \in Node : Good(q, n)')
  <2>1. CASE q = r
    BY <1>0, <1>3, <2>1, ExecWalk, ExecComplete DEF WalkInv
  <2>2. CASE q # r
    BY <1>1, <1>3, <2>2, ExecComplete, AsideWalk
  <2> QED BY <2>1, <2>2
<1>4. CASE \E r \in Run : Snapshot(r) \/ SaveArchive(r) \/ PruneRuns(r) \/ RemoveArchived(r)
  BY <1>1, <1>4, FinalWalk
<1>5. CASE \E k \in Caller, r \in Run : CapabilityEnqueue(k, r)
  BY <1>1, <1>5, RegisterWalk DEF CapabilityEnqueue
<1>6. CASE \/ \E k \in Caller : CapabilityLookup(k) \/ CapabilityReturn(k)
           \/ \E c \in Canceller : CancelSignal(c) \/ \E r \in Run : CancelLookup(c, r)
           \/ SetFlow \/ DeleteLookup \/ DeleteStoreFails \/ DeleteCommit
           \/ DeleteSignal \/ DeleteUnlock \/ UNCHANGED vars
  <2>1. UNCHANGED <<stateVars, execVars>>
    BY <1>6 DEF CapabilityLookup, CapabilityReturn, CancelSignal, CancelLookup, SetFlow,
       DeleteLookup, DeleteStoreFails, DeleteCommit, DeleteSignal, DeleteUnlock, vars
  <2> QED BY <1>1, <2>1, AsideWalk DEF Paused, Kept
<1>7. CASE \E c \in Canceller : CancelState(c)
  <2>1. PICK c \in Canceller : CancelState(c)
    BY <1>7
  <2>2. crun[c] \in Run
    BY <1>0, <2>1 DEF TypeInv, Targets, CancelState
  <2> QED BY <1>1, <2>1, <2>2, CancelWalk DEF CancelState
<1>8. CASE DeleteCancel
  <2>1. PICK r \in dtodo : CancelRunState(r, "deleted")
    BY <1>8 DEF DeleteCancel
  <2>2. r \in Run
    BY <1>0, <2>1 DEF TypeInv, TypeOK, RequestType
  <2> QED BY <1>1, <1>8, <2>1, <2>2, CancelWalk DEF DeleteCancel
<1>9. CASE Restart
  BY <1>1, <1>9, RestartWalk
<1> QED BY <1>2, <1>3, <1>4, <1>5, <1>6, <1>7, <1>8, <1>9 DEF Next, ExecStep

(* A succeeded run has run every node on a taken path to success or to a   *)
(* failure it allows, and skipped every other node, for every graph:       *)
(* SucceededRunComplete.                                                   *)
THEOREM SuccessMeansComplete == Spec => []SucceededRunComplete
<1>1. WalkInv => SucceededRunComplete
  BY DEF WalkInv
<1> QED BY <1>1, InitWalk, StepWalk, PTL DEF Spec
=============================================================================
