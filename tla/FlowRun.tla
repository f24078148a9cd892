------------------------------ MODULE FlowRun ------------------------------
(***************************************************************************)
(* The run engine of the flow sub-protocol (flow/handler.go and            *)
(* flow/run_archive.go): the runs of ONE flow on the node that executes    *)
(* it.  Every run has a goroutine (executeFlow) that walks the flow's      *)
(* nodes in topological order.  Beside it run cancel_run requests, a       *)
(* delete request, flow::run capability calls, manual and trigger starts,  *)
(* and the pruning of retained runs with its archive on disk.              *)
(*                                                                         *)
(* A step of the model is one critical section of state.mu or h.mu, one    *)
(* test of ctx.Err(), or one call of the archive store.  h.mu is held over *)
(* several steps only by delete, which is why it is the one lock with a    *)
(* variable (hmu).                                                         *)
(***************************************************************************)
EXTENDS Naturals, FiniteSets

CONSTANTS
    Run,           \* the run ids newUUID can return
    Canceller,     \* concurrent cancel_run requests
    Caller,        \* flow::run capability calls, each made once
    NumNodes,      \* nodes 1..NumNodes, numbered in topological order
    Edges,         \* the graph's edges, records [from, to, case]
    NoCase,        \* the empty edge.case, and the result of a non-branch node
    BranchCases,   \* BranchCases[n] # {} iff node n is a branch node
    AllowFail,     \* nodes with allow_fail
    Retry,         \* Retry[n]: retries after the first attempt
    MaxActive,     \* max_active_runs of the flow, or Unset
    Unset,
    MaxRetained,   \* flow.max_retained_runs
    Archiving,     \* flow.run_archive_enabled
    DiskFails,     \* the archive store may return an error
    NoRun,
    MaxDeletes,    \* bound: delete requests
    MaxRestarts    \* bound: restarts of the process

Node == 1..NumNodes
Case == UNION {BranchCases[n] : n \in Node}

(* What applySetLocal and loadFlowsFromDisk let through (validateEdgeCases, *)
(* topoOrder): edges lead forward in the order of execution, an edge has a  *)
(* case exactly if it leaves a branch node, and then a declared one.        *)
ValidGraph ==
    \A e \in Edges :
        /\ e.from \in Node /\ e.to \in Node /\ e.from < e.to
        /\ e.case \in BranchCases[e.from] \cup {NoCase}
        /\ e.case = NoCase <=> BranchCases[e.from] = {}

ASSUME GraphAssumption ==
    /\ NumNodes \in Nat \ {0}
    /\ BranchCases \in [Node -> SUBSET Case]
    /\ NoCase \notin Case
    /\ ValidGraph
    /\ AllowFail \subseteq Node
    /\ Retry \in [Node -> Nat]

ASSUME LimitAssumption ==
    /\ IsFiniteSet(Run)
    /\ Unset \notin Nat
    /\ MaxActive \in Nat \cup {Unset}
    /\ MaxRetained \in Nat \ {0}
    /\ Archiving \in BOOLEAN
    /\ DiskFails \in BOOLEAN
    /\ NoRun \notin Run
    /\ MaxDeletes \in Nat
    /\ MaxRestarts \in Nat

VARIABLES
    flowSet,   \* the flow is in h.flows
    hmu,       \* h.mu is held by the delete request
    clock,     \* logical time: registrations and archive stamps
    known,     \* the keys of h.runs
    ord,       \* ord[r]: place of r in h.runOrderByFlow, as a stamp
    called,    \* history: runs a capability call registered
    status,    \* status[r]: state.status
    reason,    \* reason[r]: state.cancelReason
    nodes,     \* nodes[r][n]: state.runtime.Nodes[n].Status
    sel,       \* sel[r][n]: the case a succeeded branch node selected
    ctxDone,   \* runs whose context is cancelled
    pc,        \* pc[r]: where the executor of r is
    cur,       \* cur[r]: the node it is at
    attempt,   \* attempt[r]: attempts made at that node
    last,      \* last[r]: outcome of the last attempt
    snap,      \* snap[r]: the record persistArchivedRun is about to save
    refs,      \* refs[r]: pruned runs whose archive r's executor will remove
    archive,   \* archive[r]: the record of r on disk
    cpc, crun, \* cancel_run requests: step and run
    kpc, krun, \* capability calls: step and run
    dpc, dtodo, drun, \* the delete request: step, runs to cancel, run at hand
    deletes, restarts \* delete requests and restarts so far

flowVars   == <<flowSet, hmu>>
regVars    == <<clock, known, ord, called>>
stateVars  == <<status, reason, nodes, sel>>
execVars   == <<pc, cur, attempt, last>>
archVars   == <<snap, refs, archive>>
cancelVars == <<cpc, crun>>
callVars   == <<kpc, krun>>
deleteVars == <<dpc, dtodo, drun>>
boundVars  == <<deletes, restarts>>

vars == <<flowVars, regVars, stateVars, ctxDone, execVars, archVars,
          cancelVars, callVars, deleteVars, boundVars>>

Terminal == {"succeeded", "failed", "cancelled"}
Active   == {"queued", "running"}

(* The file of a run that has none. *)
NoRec == [status |-> "none", reason |-> "none", nodes |-> [n \in Node |-> "none"],
          sel |-> [n \in Node |-> NoCase], at |-> 0]

----------------------------------------------------------------------------
(* Types.                                                                  *)

NodeStatus == {"none", "running", "skipped", "succeeded", "failed", "cancelled"}
RunStatus  == {"none"} \cup Active \cup Terminal
Reason     == {"none", "cancelled", "manual", "deleted"}

ExecPC == {"unborn", "begin", "head", "mark", "attempt", "backoff", "after",
           "record", "fail", "finish", "snapshot", "save", "prune", "remove",
           "done", "lost"}

Record == [status : Terminal \cup {"none"}, reason : Reason, nodes : [Node -> NodeStatus],
           sel : [Node -> Case \cup {NoCase}], at : Nat]

(* The executor has left executeGraph; only finalizeRun remains.           *)
FinalPC == {"snapshot", "save", "prune", "remove", "done"}

(* executeNode returns with a result or an error, whatever the node's kind *)
(* (call, compose, transform, set_var, branch, foreach, subflow), by the   *)
(* node's timeout at the latest.                                           *)
NodeOutcome == {"ok", "err"}

RegType ==
    /\ flowSet \in BOOLEAN /\ hmu \in BOOLEAN
    /\ clock \in Nat /\ known \in SUBSET Run /\ ord \in [Run -> Nat]
    /\ called \in SUBSET Run

StateType ==
    /\ status \in [Run -> RunStatus]
    /\ reason \in [Run -> Reason]
    /\ nodes \in [Run -> [Node -> NodeStatus]]
    /\ sel \in [Run -> [Node -> Case \cup {NoCase}]]

ExecType ==
    /\ ctxDone \in SUBSET Run
    /\ pc \in [Run -> ExecPC]
    /\ cur \in [Run -> 1..NumNodes + 1]
    /\ attempt \in [Run -> Nat]
    /\ last \in [Run -> {"none"} \cup NodeOutcome]

ArchType ==
    /\ snap \in [Run -> Record]
    /\ refs \in [Run -> SUBSET Run]
    /\ archive \in [Run -> Record]

RequestType ==
    /\ cpc \in [Canceller -> {"idle", "found", "signal"}]
    /\ crun \in [Canceller -> Run \cup {NoRun}]
    /\ kpc \in [Caller -> {"idle", "found", "running", "ended"}]
    /\ krun \in [Caller -> Run \cup {NoRun}]
    /\ dpc \in {"idle", "looked", "cancel", "signal"}
    /\ dtodo \in SUBSET Run /\ drun \in Run \cup {NoRun}
    /\ deletes \in 0..MaxDeletes /\ restarts \in 0..MaxRestarts

(* Every variable keeps its type.                                          *)
TypeOK == RegType /\ StateType /\ ExecType /\ ArchType /\ RequestType

----------------------------------------------------------------------------
(* Initial state: the process is up, nothing has run, the archive is       *)
(* empty; the flow is deployed.                                            *)

Init ==
    /\ flowSet = TRUE /\ hmu = FALSE
    /\ clock = 0 /\ known = {} /\ called = {} /\ ord = [r \in Run |-> 0]
    /\ status = [r \in Run |-> "none"]
    /\ reason = [r \in Run |-> "none"]
    /\ nodes = [r \in Run |-> [n \in Node |-> "none"]]
    /\ sel = [r \in Run |-> [n \in Node |-> NoCase]]
    /\ ctxDone = {}
    /\ pc = [r \in Run |-> "unborn"]
    /\ cur = [r \in Run |-> 1]
    /\ attempt = [r \in Run |-> 0]
    /\ last = [r \in Run |-> "none"]
    /\ snap = [r \in Run |-> NoRec]
    /\ refs = [r \in Run |-> {}]
    /\ archive = [r \in Run |-> NoRec]
    /\ cpc = [c \in Canceller |-> "idle"] /\ crun = [c \in Canceller |-> NoRun]
    /\ kpc = [k \in Caller |-> "idle"] /\ krun = [k \in Caller |-> NoRun]
    /\ dpc = "idle" /\ dtodo = {} /\ drun = NoRun
    /\ deletes = 0 /\ restarts = 0

----------------------------------------------------------------------------
(* Starting a run.                                                         *)

ActiveRuns == {r \in known : status[r] \in Active}

(* effectiveMaxActiveRuns: 0 is no limit; a flow that sets none lets every *)
(* manual run start and gives its trigger one run at a time.               *)
EffectiveMaxActive(trigger) ==
    IF MaxActive # Unset THEN MaxActive ELSE IF trigger THEN 1 ELSE 0

(* Mutant: the limit compared with <=. *)
StartAllowedOneTooMany(trigger) ==
    \/ EffectiveMaxActive(trigger) = 0
    \/ Cardinality(ActiveRuns) <= EffectiveMaxActive(trigger)

StartAllowed(trigger) ==
    \/ EffectiveMaxActive(trigger) = 0
    \/ Cardinality(ActiveRuns) < EffectiveMaxActive(trigger)

(* newQueuedRunStateLocked and recordRunLocked, then go executeFlow.       *)
RecordRun(r) ==
    /\ pc[r] = "unborn"
    /\ pc' = [pc EXCEPT ![r] = "begin"]
    /\ status' = [status EXCEPT ![r] = "queued"]
    /\ known' = known \cup {r}
    /\ clock' = clock + 1
    /\ ord' = [ord EXCEPT ![r] = clock + 1]
    /\ UNCHANGED <<flowVars, reason, nodes, sel, ctxDone, cur, attempt, last,
                   archVars, cancelVars, deleteVars, boundVars>>

(* runLocal and tryStartRunWithTrigger: lookup, limit and registration are *)
(* one critical section of h.mu.                                           *)
StartRun(r, trigger) ==
    /\ ~hmu /\ flowSet
    /\ StartAllowed(trigger)
    /\ RecordRun(r)
    /\ UNCHANGED <<called, callVars>>

RunLocal(r)              == StartRun(r, FALSE)
TryStartRunWithTrigger(r) == StartRun(r, TRUE)

(* invokeCapabilityRun: the flow is looked up in one critical section and  *)
(* the run registered in another, with no limit and with the context of    *)
(* the call as its parent.                                                 *)
CapabilityLookup(k) ==
    /\ kpc[k] = "idle" /\ ~hmu /\ flowSet
    /\ kpc' = [kpc EXCEPT ![k] = "found"]
    /\ UNCHANGED <<flowVars, regVars, stateVars, ctxDone, execVars, archVars,
                   cancelVars, krun, deleteVars, boundVars>>

CapabilityEnqueue(k, r) ==
    /\ kpc[k] = "found" /\ ~hmu
    /\ RecordRun(r)
    /\ kpc' = [kpc EXCEPT ![k] = "running"]
    /\ krun' = [krun EXCEPT ![k] = r]
    /\ called' = called \cup {r}

(* The caller (an exec call, or a call node of another run) cancels the    *)
(* context it made for the call as soon as the call has returned.          *)
CapabilityReturn(k) ==
    /\ kpc[k] = "running"
    /\ kpc' = [kpc EXCEPT ![k] = "ended"]
    /\ krun' = [krun EXCEPT ![k] = NoRun]
    /\ ctxDone' = ctxDone \cup {krun[k]}
    /\ UNCHANGED <<flowVars, regVars, stateVars, execVars, archVars,
                   cancelVars, deleteVars, boundVars>>

----------------------------------------------------------------------------
(* Cancelling a run.                                                       *)

(* markActiveNodesCancelledLocked. *)
CancelNodes(ns) == [n \in Node |-> IF ns[n] = "running" THEN "cancelled" ELSE ns[n]]

(* Mutant: the last reason wins. *)
LastReason(r, why) == why

(* state.cancelReason is written once. *)
FirstReason(r, why) == IF reason[r] = "none" THEN why ELSE reason[r]

(* The writes under state.mu that make a run cancelled. *)
WriteCancelled(r, why) ==
    /\ status' = [status EXCEPT ![r] = "cancelled"]
    /\ reason' = [reason EXCEPT ![r] = FirstReason(r, why)]
    /\ nodes' = [nodes EXCEPT ![r] = CancelNodes(nodes[r])]
    /\ UNCHANGED sel

(* Mutant: queued runs are left alone as well. *)
CancelRunningOnly(r, why) ==
    IF status[r] # "running" THEN UNCHANGED stateVars ELSE WriteCancelled(r, why)

(* cancelRunState up to its unlock; a terminal run is left alone. *)
CancelRunState(r, why) ==
    IF status[r] \in Terminal
    THEN UNCHANGED stateVars
    ELSE WriteCancelled(r, why)

(* cancelRunLocal: find the run under h.mu; cancelRunState writes the      *)
(* status under state.mu; after the unlock it calls the context's cancel   *)
(* function and the request is answered.                                   *)
CancelLookup(c, r) ==
    /\ cpc[c] = "idle" /\ ~hmu /\ r \in known
    /\ cpc' = [cpc EXCEPT ![c] = "found"]
    /\ crun' = [crun EXCEPT ![c] = r]
    /\ UNCHANGED <<flowVars, regVars, stateVars, ctxDone, execVars, archVars,
                   callVars, deleteVars, boundVars>>

CancelState(c) ==
    /\ cpc[c] = "found"
    /\ CancelRunState(crun[c], "manual")
    /\ IF status[crun[c]] \in Terminal
       THEN /\ cpc' = [cpc EXCEPT ![c] = "idle"]  \* 409 run already terminal
            /\ crun' = [crun EXCEPT ![c] = NoRun]
       ELSE /\ cpc' = [cpc EXCEPT ![c] = "signal"]
            /\ UNCHANGED crun
    /\ UNCHANGED <<flowVars, regVars, ctxDone, execVars, archVars,
                   callVars, deleteVars, boundVars>>

CancelSignal(c) ==
    /\ cpc[c] = "signal"
    /\ ctxDone' = ctxDone \cup {crun[c]}
    /\ cpc' = [cpc EXCEPT ![c] = "idle"]
    /\ crun' = [crun EXCEPT ![c] = NoRun]
    /\ UNCHANGED <<flowVars, regVars, stateVars, execVars, archVars,
                   callVars, deleteVars, boundVars>>

----------------------------------------------------------------------------
(* set and delete of the flow.                                             *)

(* applySetLocal, as far as runs can see it: the flow is in h.flows again. *)
SetFlow ==
    /\ ~hmu /\ ~flowSet
    /\ flowSet' = TRUE
    /\ UNCHANGED <<hmu, regVars, stateVars, ctxDone, execVars, archVars,
                   cancelVars, callVars, deleteVars, boundVars>>

(* applyDeleteLocal: find the flow, delete its file, then, under h.mu,     *)
(* drop it and cancel its runs in the order they were registered.          *)
DeleteLookup ==
    /\ dpc = "idle" /\ ~hmu /\ flowSet
    /\ deletes < MaxDeletes /\ deletes' = deletes + 1
    /\ dpc' = "looked"
    /\ UNCHANGED <<flowVars, regVars, stateVars, ctxDone, execVars, archVars,
                   cancelVars, callVars, dtodo, drun, restarts>>

DeleteStoreFails ==
    /\ dpc = "looked"
    /\ dpc' = "idle"
    /\ UNCHANGED <<flowVars, regVars, stateVars, ctxDone, execVars, archVars,
                   cancelVars, callVars, dtodo, drun, boundVars>>

DeleteCommit ==
    /\ dpc = "looked" /\ ~hmu
    /\ dpc' = "cancel"
    /\ hmu' = TRUE
    /\ flowSet' = FALSE
    /\ dtodo' = known
    /\ UNCHANGED <<regVars, stateVars, ctxDone, execVars, archVars,
                   cancelVars, callVars, drun, boundVars>>

(* Mutant: a terminal run is not taken off the list. *)
DeleteCancelKeeps ==
    /\ dpc = "cancel"
    /\ \E r \in dtodo :
          /\ \A q \in dtodo : ord[r] <= ord[q]
          /\ CancelRunState(r, "deleted")
          /\ IF status[r] \in Terminal
             THEN UNCHANGED <<dtodo, dpc, drun>>
             ELSE dtodo' = dtodo \ {r} /\ dpc' = "signal" /\ drun' = r
    /\ UNCHANGED <<flowVars, regVars, ctxDone, execVars, archVars,
                   cancelVars, callVars, boundVars>>

DeleteCancel ==
    /\ dpc = "cancel"
    /\ \E r \in dtodo :
          /\ \A q \in dtodo : ord[r] <= ord[q]
          /\ CancelRunState(r, "deleted")
          /\ dtodo' = dtodo \ {r}
          /\ IF status[r] \in Terminal
             THEN UNCHANGED <<dpc, drun>>
             ELSE dpc' = "signal" /\ drun' = r
    /\ UNCHANGED <<flowVars, regVars, ctxDone, execVars, archVars,
                   cancelVars, callVars, boundVars>>

DeleteSignal ==
    /\ dpc = "signal"
    /\ dpc' = "cancel"
    /\ ctxDone' = ctxDone \cup {drun}
    /\ drun' = NoRun
    /\ UNCHANGED <<flowVars, regVars, stateVars, execVars, archVars,
                   cancelVars, callVars, dtodo, boundVars>>

DeleteUnlock ==
    /\ dpc = "cancel" /\ dtodo = {}
    /\ dpc' = "idle"
    /\ hmu' = FALSE
    /\ UNCHANGED <<flowSet, regVars, stateVars, ctxDone, execVars, archVars,
                   cancelVars, callVars, dtodo, drun, boundVars>>

----------------------------------------------------------------------------
(* The executor of a run: executeFlow and executeGraph.                    *)

(* What an executor step never touches. *)
ExecFrame == UNCHANGED <<flowVars, regVars, ctxDone, archVars, cancelVars,
                         callVars, deleteVars, boundVars>>

Goto(r, there) == pc' = [pc EXCEPT ![r] = there]

(* executeGraph returns; its local variables are gone. *)
Leave(r) ==
    /\ Goto(r, "snapshot")
    /\ cur' = [cur EXCEPT ![r] = 1]
    /\ attempt' = [attempt EXCEPT ![r] = 0]
    /\ last' = [last EXCEPT ![r] = "none"]

(* shouldExecuteNode: a node without incoming edges runs; another one runs *)
(* if some edge is active: its parent was not skipped and, if the parent   *)
(* is a branch, selected the edge's case.                                  *)
Incoming(n) == {e \in Edges : e.to = n}

(* Mutant: a skipped parent counts. *)
EdgeActiveSkipped(ns, cs, e) == e.case # NoCase => cs[e.from] = e.case

EdgeActive(ns, cs, e) ==
    /\ ns[e.from] # "skipped"
    /\ e.case # NoCase => cs[e.from] = e.case

ShouldExecuteNode(ns, cs, n) ==
    \/ Incoming(n) = {}
    \/ \E e \in Incoming(n) : EdgeActive(ns, cs, e)

(* The first critical section: the status is set from the context alone.   *)
ExecBegin(r) ==
    /\ pc[r] = "begin"
    /\ IF r \in ctxDone
       THEN /\ WriteCancelled(r, "cancelled")
            /\ Leave(r)
       ELSE /\ status' = [status EXCEPT ![r] = "running"]
            /\ Goto(r, "head")
            /\ UNCHANGED <<reason, nodes, sel, cur, attempt, last>>
    /\ ExecFrame

(* Mutant: the executor returns without marking the run. *)
ExecHeadBareReturn(r) ==
    /\ pc[r] = "head"
    /\ IF r \in ctxDone
       THEN Leave(r) /\ UNCHANGED stateVars
       ELSE /\ Goto(r, IF cur[r] > NumNodes THEN "finish" ELSE "mark")
            /\ UNCHANGED <<stateVars, cur, attempt, last>>
    /\ ExecFrame

(* ctx.Err() before each node and after the last one. *)
ExecHead(r) ==
    /\ pc[r] = "head"
    /\ IF r \in ctxDone
       THEN CancelRunState(r, "cancelled") /\ Leave(r)
       ELSE /\ Goto(r, IF cur[r] > NumNodes THEN "finish" ELSE "mark")
            /\ UNCHANGED <<stateVars, cur, attempt, last>>
    /\ ExecFrame

ExecMark(r) ==
    /\ pc[r] = "mark"
    /\ IF ShouldExecuteNode(nodes[r], sel[r], cur[r])
       THEN /\ nodes' = [nodes EXCEPT ![r][cur[r]] = "running"]
            /\ Goto(r, "attempt")
            /\ UNCHANGED cur
       ELSE /\ nodes' = [nodes EXCEPT ![r][cur[r]] = "skipped"]
            /\ cur' = [cur EXCEPT ![r] = cur[r] + 1]
            /\ Goto(r, "head")
    /\ UNCHANGED <<status, reason, sel, attempt, last>>
    /\ ExecFrame

(* An error ends the attempts if the context is done or no retry is left.  *)
ExecAttempt(r) ==
    /\ pc[r] = "attempt"
    /\ \E out \in NodeOutcome :
          /\ last' = [last EXCEPT ![r] = out]
          /\ Goto(r, IF out = "ok" \/ r \in ctxDone \/ attempt[r] >= Retry[cur[r]]
                     THEN "after" ELSE "backoff")
    /\ UNCHANGED <<stateVars, cur, attempt>>
    /\ ExecFrame

(* Mutant: the attempts are not counted. *)
ExecBackoffUncounted(r) ==
    /\ pc[r] = "backoff"
    /\ Goto(r, "attempt")
    /\ UNCHANGED <<stateVars, cur, attempt, last>>
    /\ ExecFrame

(* waitRetryBackoff: the timer fires, or the context is done first.        *)
ExecBackoff(r) ==
    /\ pc[r] = "backoff"
    /\ \/ /\ attempt' = [attempt EXCEPT ![r] = attempt[r] + 1]
          /\ Goto(r, "attempt")
       \/ /\ r \in ctxDone
          /\ Goto(r, "after")
          /\ UNCHANGED attempt
    /\ UNCHANGED <<stateVars, cur, last>>
    /\ ExecFrame

ExecAfter(r) ==
    /\ pc[r] = "after"
    /\ IF r \in ctxDone
       THEN CancelRunState(r, "cancelled") /\ Leave(r)
       ELSE Goto(r, "record") /\ UNCHANGED <<stateVars, cur, attempt, last>>
    /\ ExecFrame

(* Mutant: what executeNode returned is recorded, not the node's status. *)
ExecRecordRaw(r) ==
    /\ pc[r] = "record"
    /\ nodes' = [nodes EXCEPT ![r][cur[r]] = last[r]]
    /\ cur' = [cur EXCEPT ![r] = cur[r] + 1]
    /\ Goto(r, "head")
    /\ UNCHANGED <<status, reason, sel, attempt, last>>
    /\ ExecFrame

(* The node's result is recorded unless the run is cancelled by now.       *)
ExecRecord(r) ==
    /\ pc[r] = "record"
    /\ IF status[r] = "cancelled"
       THEN WriteCancelled(r, "cancelled") /\ Leave(r)
       ELSE LET n == cur[r] IN
            /\ nodes' = [nodes EXCEPT ![r][n] = IF last[r] = "ok" THEN "succeeded" ELSE "failed"]
            /\ IF last[r] = "ok" /\ BranchCases[n] # {}
               THEN \E c \in BranchCases[n] : sel' = [sel EXCEPT ![r][n] = c]
               ELSE UNCHANGED sel
            /\ IF last[r] = "ok" \/ n \in AllowFail
               THEN Goto(r, "head") /\ cur' = [cur EXCEPT ![r] = n + 1]
               ELSE Goto(r, "fail") /\ UNCHANGED cur
            /\ attempt' = [attempt EXCEPT ![r] = 0]
            /\ last' = [last EXCEPT ![r] = "none"]
            /\ UNCHANGED <<status, reason>>
    /\ ExecFrame

(* A node failed that may not: the run fails, whatever its status is now.  *)
ExecFail(r) ==
    /\ pc[r] = "fail"
    /\ status' = [status EXCEPT ![r] = "failed"]
    /\ Leave(r)
    /\ UNCHANGED <<reason, nodes, sel>>
    /\ ExecFrame

(* Mutant: no test for cancelled before succeeded. *)
ExecFinishUnchecked(r) ==
    /\ pc[r] = "finish"
    /\ status' = [status EXCEPT ![r] = "succeeded"]
    /\ UNCHANGED <<reason, nodes, sel>>
    /\ Leave(r)
    /\ ExecFrame

ExecFinish(r) ==
    /\ pc[r] = "finish"
    /\ IF status[r] = "cancelled"
       THEN WriteCancelled(r, "cancelled")
       ELSE /\ status' = [status EXCEPT ![r] = "succeeded"]
            /\ UNCHANGED <<reason, nodes, sel>>
    /\ Leave(r)
    /\ ExecFrame

----------------------------------------------------------------------------
(* finalizeRun: archive the run, then prune the retained window.           *)

FinalFrame == UNCHANGED <<flowVars, called, stateVars, ctxDone, cur, attempt, last,
                          cancelVars, callVars, deleteVars, boundVars>>

(* Mutant: failed runs are not archived. *)
SnapshotSucceededOnly(r) ==
    /\ pc[r] = "snapshot"
    /\ IF Archiving /\ status[r] = "succeeded"
       THEN /\ clock' = clock + 1
            /\ snap' = [snap EXCEPT ![r] = [status |-> status[r], reason |-> reason[r],
                          nodes |-> nodes[r], sel |-> sel[r], at |-> clock + 1]]
            /\ Goto(r, "save")
       ELSE Goto(r, "prune") /\ UNCHANGED <<clock, snap>>
    /\ UNCHANGED <<known, ord, refs, archive>>
    /\ FinalFrame

(* Mutant: the record leaves the selected cases out. *)
SnapshotWithoutSelection(r) ==
    /\ pc[r] = "snapshot"
    /\ IF Archiving /\ status[r] \in Terminal
       THEN /\ clock' = clock + 1
            /\ snap' = [snap EXCEPT ![r] = [status |-> status[r], reason |-> reason[r],
                          nodes |-> nodes[r], sel |-> NoRec.sel, at |-> clock + 1]]
            /\ Goto(r, "save")
       ELSE Goto(r, "prune") /\ UNCHANGED <<clock, snap>>
    /\ UNCHANGED <<known, ord, refs, archive>>
    /\ FinalFrame

(* persistArchivedRun, under state.mu: a terminal run is copied.           *)
Snapshot(r) ==
    /\ pc[r] = "snapshot"
    /\ IF Archiving /\ status[r] \in Terminal
       THEN /\ clock' = clock + 1
            /\ snap' = [snap EXCEPT ![r] = [status |-> status[r], reason |-> reason[r],
                          nodes |-> nodes[r], sel |-> sel[r], at |-> clock + 1]]
            /\ Goto(r, "save")
       ELSE Goto(r, "prune") /\ UNCHANGED <<clock, snap>>
    /\ UNCHANGED <<known, ord, refs, archive>>
    /\ FinalFrame

(* store.Save replaces the run's file; an error is only logged.            *)
SaveArchive(r) ==
    /\ pc[r] = "save"
    /\ \/ archive' = [archive EXCEPT ![r] = snap[r]]
       \/ DiskFails /\ UNCHANGED archive
    /\ snap' = [snap EXCEPT ![r] = NoRec]
    /\ Goto(r, "prune")
    /\ UNCHANGED <<clock, known, ord, refs>>
    /\ FinalFrame

(* Mutant: one terminal run too many is kept. *)
PrunedOneShort(S, o, st) ==
    {r \in S : /\ st[r] \in Terminal
               /\ Cardinality({q \in S : st[q] \in Terminal /\ o[q] > o[r]}) > MaxRetained}

(* Mutant: active runs are counted and dropped like the others. *)
PrunedActive(S, o, st) ==
    {r \in S : Cardinality({q \in S : o[q] > o[r]}) >= MaxRetained}

(* pruneRunsLocked keeps every run that is not terminal and the newest     *)
(* MaxRetained of the terminal ones: what it drops of the runs S, ordered  *)
(* by o, with statuses st.                                                 *)
Pruned(S, o, st) ==
    {r \in S : /\ st[r] \in Terminal
               /\ Cardinality({q \in S : st[q] \in Terminal /\ o[q] > o[r]}) >= MaxRetained}

PruneRuns(r) ==
    /\ pc[r] = "prune" /\ ~hmu
    /\ LET out == Pruned(known, ord, status) IN
       /\ known' = known \ out
       /\ refs' = [refs EXCEPT ![r] = IF Archiving THEN out ELSE {}]
       /\ Goto(r, IF Archiving /\ out # {} THEN "remove" ELSE "done")
    /\ UNCHANGED <<clock, ord, snap, archive>>
    /\ FinalFrame

(* removeArchivedRuns: one file after the other; an error is only logged.  *)
RemoveArchived(r) ==
    /\ pc[r] = "remove"
    /\ \E q \in refs[r] :
          /\ \/ archive' = [archive EXCEPT ![q] = NoRec]
             \/ DiskFails /\ UNCHANGED archive
          /\ refs' = [refs EXCEPT ![r] = refs[r] \ {q}]
          /\ Goto(r, IF refs[r] = {q} THEN "done" ELSE "remove")
    /\ UNCHANGED <<clock, known, ord, snap>>
    /\ FinalFrame

----------------------------------------------------------------------------
(* The process stops at any point and starts again: Init reads the archive *)
(* (loadArchivedRuns), orders it by the time of archiving, and prunes it.  *)
(* The flow's own file may already be ahead of or behind h.flows.          *)

Archived == {r \in Run : archive[r].status # "none"}

Restart ==
    /\ restarts < MaxRestarts
    /\ restarts' = restarts + 1
    /\ LET at   == [r \in Run |-> archive[r].at]
           st   == [r \in Run |-> archive[r].status]
           out  == Pruned(Archived, at, st)
           kept == Archived \ out IN
       /\ known' = kept
       /\ ord' = at
       /\ status' = [r \in Run |-> IF r \in kept THEN st[r] ELSE "none"]
       /\ reason' = [r \in Run |-> IF r \in kept THEN archive[r].reason ELSE "none"]
       /\ nodes' = [r \in Run |-> IF r \in kept THEN archive[r].nodes ELSE NoRec.nodes]
       /\ sel' = [r \in Run |-> IF r \in kept THEN archive[r].sel ELSE NoRec.sel]
       /\ archive' = [r \in Run |-> IF r \in out THEN NoRec ELSE archive[r]]
       /\ pc' = [r \in Run |-> CASE pc[r] = "unborn" -> "unborn"
                                 [] r \in kept -> "done"
                                 [] OTHER -> "lost"]
    /\ flowSet' \in BOOLEAN
    /\ hmu' = FALSE /\ ctxDone' = {}
    /\ snap' = [r \in Run |-> NoRec] /\ refs' = [r \in Run |-> {}]
    /\ cur' = [r \in Run |-> 1] /\ attempt' = [r \in Run |-> 0]
    /\ last' = [r \in Run |-> "none"]
    /\ cpc' = [c \in Canceller |-> "idle"] /\ crun' = [c \in Canceller |-> NoRun]
    /\ kpc' = [k \in Caller |-> IF kpc[k] = "idle" THEN "idle" ELSE "ended"]
    /\ krun' = [k \in Caller |-> NoRun]
    /\ dpc' = "idle" /\ dtodo' = {} /\ drun' = NoRun
    /\ UNCHANGED <<clock, called, deletes>>

----------------------------------------------------------------------------

ExecStep(r) ==
    \/ ExecBegin(r) \/ ExecHead(r) \/ ExecMark(r) \/ ExecAttempt(r)
    \/ ExecBackoff(r) \/ ExecAfter(r) \/ ExecRecord(r) \/ ExecFail(r)
    \/ ExecFinish(r) \/ Snapshot(r) \/ SaveArchive(r) \/ PruneRuns(r)
    \/ RemoveArchived(r)

Next ==
    \/ \E r \in Run : RunLocal(r) \/ TryStartRunWithTrigger(r) \/ ExecStep(r)
    \/ \E k \in Caller : \/ CapabilityLookup(k) \/ CapabilityReturn(k)
                         \/ \E r \in Run : CapabilityEnqueue(k, r)
    \/ \E c \in Canceller : \/ CancelState(c) \/ CancelSignal(c)
                            \/ \E r \in Run : CancelLookup(c, r)
    \/ SetFlow \/ DeleteLookup \/ DeleteStoreFails \/ DeleteCommit
    \/ DeleteCancel \/ DeleteSignal \/ DeleteUnlock
    \/ Restart

Spec == Init /\ [][Next]_vars

(* Goroutines that can run do run: the executor of every run, requests     *)
(* that have started, and the holder of h.mu.  Go's mutex hands itself to  *)
(* a waiter that has starved, so a goroutine that needs h.mu again and     *)
(* again finds it free gets it: strong fairness for PruneRuns.             *)
Fairness ==
    /\ \A r \in Run : WF_vars(ExecStep(r)) /\ SF_vars(PruneRuns(r))
    /\ \A c \in Canceller : WF_vars(CancelState(c) \/ CancelSignal(c))
    /\ \A k \in Caller : WF_vars(CapabilityReturn(k))
    /\ WF_vars(DeleteCancel \/ DeleteSignal \/ DeleteUnlock)

FairSpec == Spec /\ Fairness

----------------------------------------------------------------------------
(* Properties.                                                             *)

(* Every way out of executeGraph leaves the run terminal, so finalizeRun   *)
(* archives it and pruneRunsLocked can count it; and nobody but the        *)
(* executor, on its way out, makes a run succeeded or failed.              *)
ExecutorEndsTerminal ==
    \A r \in Run :
        /\ pc[r] \in FinalPC => status[r] \in Terminal
        /\ status[r] \in {"succeeded", "failed"} => pc[r] \in FinalPC

(* What status and detail say of a run whose executor has finished never   *)
(* changes again while the run can be queried: not by a late cancel_run or *)
(* delete that found the run before it ended, and not by a restart, which  *)
(* rebuilds the run from the archive.                                      *)
SettledStays ==
    [][\A r \in Run : pc[r] \in FinalPC /\ r \in known' =>
          /\ status'[r] = status[r] /\ reason'[r] = reason[r]
          /\ nodes'[r] = nodes[r] /\ sel'[r] = sel[r]]_vars

(* A cancelled run whose executor is past its first step never succeeds    *)
(* and is never running again.  (The first step sets it back to running if *)
(* it comes before the context is cancelled, and a node's failure already  *)
(* recorded still turns a cancelled run into failed.)                      *)
CancelledNeverSucceeds ==
    [][\A r \in Run : status[r] = "cancelled" /\ pc[r] # "begin" =>
          status'[r] \in {"cancelled", "failed", "none"}]_vars

(* The nodes that lie on a taken path: an entry node, or one with an edge  *)
(* from a node that ran and, if that is a branch, that chose this edge.    *)
Reached(r, n) ==
    \/ Incoming(n) = {}
    \/ \E e \in Incoming(n) :
          \/ BranchCases[e.from] = {} /\ nodes[r][e.from] \in {"succeeded", "failed"}
          \/ nodes[r][e.from] = "succeeded" /\ sel[r][e.from] = e.case

(* A succeeded run has run every node on a taken path to success, or to a  *)
(* failure the node allows, and has skipped every other node.              *)
SucceededRunComplete ==
    \A r \in Run : status[r] = "succeeded" =>
        \A n \in Node :
            IF Reached(r, n)
            THEN nodes[r][n] = "succeeded" \/ (nodes[r][n] = "failed" /\ n \in AllowFail)
            ELSE nodes[r][n] = "skipped"

(* Of the runs that passed the start gate and that nobody has cancelled,   *)
(* at most max_active_runs are active at a time, however manual starts,    *)
(* trigger starts, capability starts, cancels and deletes interleave.      *)
LimitHoldsForUncancelled ==
    MaxActive \in Nat \ {0} =>
        Cardinality({r \in ActiveRuns \ called : reason[r] = "none"}) <= MaxActive

(* Runs whose executor has pruned the flow number at most MaxRetained, in  *)
(* whatever order executors finish and however often the process restarts. *)
RetentionBound ==
    Cardinality({r \in known : pc[r] \in {"remove", "done"}}) <= MaxRetained

(* A run that is queued or running, and that nobody has cancelled, can be  *)
(* queried and cancelled: executors that prune the flow at the same time   *)
(* never drop it.                                                          *)
ActiveRunsAreKnown ==
    \A r \in Run : status[r] \in Active /\ reason[r] = "none" => r \in known

(* A cancelled run says why: cancel_run or delete if one of them did it.   *)
(* The generic reason appears only where a capability call ended its own   *)
(* context; an executor that sees the context end never hides the request. *)
CancelReasonFaithful ==
    \A r \in Run :
        /\ status[r] = "cancelled" => reason[r] # "none"
        /\ reason[r] = "cancelled" => r \in called

(* Once delete has dropped a flow and cancelled its runs, a run of it that *)
(* is still active was cancelled and revived, or came in by a capability   *)
(* call that had looked the flow up before.                                *)
DeletedFlowIsQuiet ==
    ~flowSet => \A r \in ActiveRuns : r \in called \cup dtodo \/ reason[r] # "none"

(* With a store that does not fail, every retained run that is finished is *)
(* in the archive, with the status it has in memory.                       *)
RetainedIsArchived ==
    Archiving /\ ~DiskFails =>
        \A r \in known : pc[r] = "done" =>
            archive[r].status = status[r] /\ archive[r].nodes = nodes[r]

(* Every run ends: its executor finishes, unless the process stops.        *)
RunsSettle == \A r \in Run : pc[r] = "begin" ~> pc[r] \in {"done", "lost"}

(* Cancelling the runs of a deleted flow ends and gives h.mu back.         *)
DeleteReleasesLock == hmu ~> ~hmu

============================================================================
