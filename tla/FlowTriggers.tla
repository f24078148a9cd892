---------------------------- MODULE FlowTriggers ----------------------------
(***************************************************************************)
(* How an event starts flows (flow/handler.go): a topic or variable event  *)
(* selects the flows whose trigger matches under h.mu, and starts them one *)
(* by one in later critical sections, each through the active-run limit    *)
(* and the dedup window.  Set and delete requests change the definitions   *)
(* meanwhile; time passes; runs end.                                       *)
(*                                                                         *)
(* The commit of a set or a delete is one step here; FlowDefs has what     *)
(* surrounds it and FlowRun what a started run does.                       *)
(***************************************************************************)
EXTENDS Naturals, FiniteSets

CONSTANTS
    Flow,        \* flow ids
    Def,         \* definitions a set may carry
    NoDef,       \* the flow is not in h.flows
    Key,         \* events, by their normalised trigger context
    Matches,     \* Matches[d]: the events d's trigger asks for
    Window,      \* Window[d]: dedup_window_ms, 0 when unset
    Limit,       \* Limit[d]: effective max_active_runs, 0 for no limit
    Handler,     \* event bus callbacks that run at the same time
    NoKey,
    MaxTime,     \* bound: the clock
    MaxRuns,     \* bound: active runs of a flow without a limit
    MaxCommits   \* bound: set and delete commits

ASSUME TriggersAssumption ==
    /\ NoDef \notin Def /\ NoKey \notin Key
    /\ Matches \in [Def -> SUBSET Key]
    /\ Window \in [Def -> Nat] /\ Limit \in [Def -> Nat]
    /\ MaxTime \in Nat /\ MaxCommits \in Nat /\ MaxRuns \in Nat

VARIABLES
    def,       \* h.flows
    seen,      \* h.triggerDedup: per flow, the recorded keys and their times
    now,       \* time.Now
    active,    \* per flow, its queued and running runs
    event,     \* the event a callback carries, NoKey when it has none
    todo,      \* the flows it has still to start
    commits,   \* set and delete commits so far
    last       \* history: when a key last started a run of the definition

vars == <<def, seen, now, active, event, todo, commits, last>>

Time == 0..MaxTime

TypeOK ==
    /\ def \in [Flow -> Def \cup {NoDef}]
    /\ seen \in [Flow -> [Key -> Time \cup {NoKey}]]
    /\ now \in Time
    /\ active \in [Flow -> 0..MaxRuns]
    /\ event \in [Handler -> Key \cup {NoKey}]
    /\ todo \in [Handler -> SUBSET Flow]
    /\ commits \in 0..MaxCommits
    /\ last \in [Flow -> [Key -> Time \cup {NoKey}]]

NoneSeen == [k \in Key |-> NoKey]

Init ==
    /\ def \in [Flow -> Def \cup {NoDef}]
    /\ seen = [f \in Flow |-> NoneSeen]
    /\ now = 0
    /\ active = [f \in Flow |-> 0]
    /\ event = [h \in Handler |-> NoKey]
    /\ todo = [h \in Handler |-> {}]
    /\ commits = 0
    /\ last = [f \in Flow |-> NoneSeen]

-----------------------------------------------------------------------------
(* The critical section that commits a set, or a delete with d = NoDef:     *)
(* both forget the flow's dedup records.                                    *)
Commit(f, d) ==
    /\ commits < MaxCommits /\ commits' = commits + 1
    /\ def' = [def EXCEPT ![f] = d]
    /\ seen' = [seen EXCEPT ![f] = NoneSeen]
    /\ last' = [last EXCEPT ![f] = NoneSeen]
    /\ UNCHANGED <<now, active, event, todo>>

SetFlow(f) == \E d \in Def : Commit(f, d)

DeleteFlow(f) == def[f] # NoDef /\ Commit(f, NoDef)

Tick ==
    /\ now < MaxTime
    /\ now' = now + 1
    /\ UNCHANGED <<def, seen, active, event, todo, commits, last>>

(* A run of f ends (FlowRun).                                               *)
EndRun(f) ==
    /\ active[f] > 0
    /\ active' = [active EXCEPT ![f] = @ - 1]
    /\ UNCHANGED <<def, seen, now, event, todo, commits, last>>

-----------------------------------------------------------------------------
(* collectTriggeredFlows, under h.mu.                                       *)
Collect(h, k) ==
    /\ todo[h] = {}
    /\ todo' = [todo EXCEPT ![h] =
                   {f \in Flow : def[f] # NoDef /\ k \in Matches[def[f]]}]
    /\ event' = [event EXCEPT ![h] = k]
    /\ UNCHANGED <<def, seen, now, active, commits, last>>

AtLimit(f) == Limit[def[f]] > 0 /\ active[f] >= Limit[def[f]]

(* Mutant: a record is dropped one instant too early.                       *)
FreshBoundary(f) ==
    [k \in Key |-> IF seen[f][k] # NoKey /\ seen[f][k] + Window[def[f]] > now + 1
                   THEN seen[f][k] ELSE NoKey]

(* The dedup records of f that are still in the window; the others are      *)
(* dropped by checkAndRecordTriggerDedupLocked.                             *)
Fresh(f) ==
    [k \in Key |-> IF seen[f][k] # NoKey /\ seen[f][k] + Window[def[f]] > now
                   THEN seen[f][k] ELSE NoKey]

Begin(f, k) ==
    /\ active[f] < MaxRuns
    /\ active' = [active EXCEPT ![f] = @ + 1]
    /\ last' = [last EXCEPT ![f][k] = now]

Duplicate(f, k) == Window[def[f]] > 0 /\ Fresh(f)[k] # NoKey

(* A window of 0 leaves the records alone.                                  *)
Recorded(f, k) ==
    IF Window[def[f]] = 0 THEN seen
    ELSE [seen EXCEPT ![f] = [Fresh(f) EXCEPT ![k] = now]]

(* Mutant: the dedup window is consulted, and the key recorded, before the  *)
(* active-run limit.                                                        *)
DedupFirst(f, k) ==
    \/ Duplicate(f, k) /\ seen' = [seen EXCEPT ![f] = Fresh(f)]
       /\ UNCHANGED <<active, last>>
    \/ /\ ~Duplicate(f, k)
       /\ seen' = Recorded(f, k)
       /\ IF AtLimit(f) THEN UNCHANGED <<active, last>> ELSE Begin(f, k)

(* prepareQueuedRunLocked for a trigger: the limit, then the dedup window,  *)
(* then the run.                                                            *)
PrepareQueuedRun(f, k) ==
    \/ AtLimit(f) /\ UNCHANGED <<seen, active, last>>
    \/ /\ ~AtLimit(f) /\ Duplicate(f, k)
       /\ seen' = [seen EXCEPT ![f] = Fresh(f)]
       /\ UNCHANGED <<active, last>>
    \/ /\ ~AtLimit(f) /\ ~Duplicate(f, k)
       /\ seen' = Recorded(f, k)
       /\ Begin(f, k)

(* tryStartRunWithTrigger for one of the flows collected: the definition is *)
(* looked up again, by id.                                                  *)
TryStart(h, f) ==
    /\ f \in todo[h]
    /\ todo' = [todo EXCEPT ![h] = @ \ {f}]
    /\ event' = [event EXCEPT ![h] = IF todo[h] = {f} THEN NoKey ELSE @]
    /\ \/ def[f] = NoDef /\ UNCHANGED <<seen, active, last>>
       \/ def[f] # NoDef /\ PrepareQueuedRun(f, event[h])
    /\ UNCHANGED <<def, now, commits>>

Next ==
    \/ Tick
    \/ \E f \in Flow : SetFlow(f) \/ DeleteFlow(f) \/ EndRun(f)
    \/ \E h \in Handler :
          \/ \E k \in Key : Collect(h, k)
          \/ \E f \in Flow : TryStart(h, f)

Spec == Init /\ [][Next]_vars

-----------------------------------------------------------------------------
(* Properties.                                                              *)

(* The step in which callback h starts flow f, and the one in which the     *)
(* dedup window stops it.                                                   *)
Starts(h, f) == f \in todo[h] \ todo'[h] /\ active'[f] > active[f]

Suppresses(h, f) ==
    /\ f \in todo[h] \ todo'[h]
    /\ def[f] # NoDef /\ ~AtLimit(f)
    /\ active'[f] = active[f]

(* The last run the event k started under f's definition is less than a     *)
(* window old.                                                              *)
Recent(f, k) == last[f][k] # NoKey /\ now < last[f][k] + Window[def[f]]

(* Two runs of one flow, started under one definition by the same event,    *)
(* lie at least a window apart, however many callbacks raced (the check and *)
(* the registration share one critical section).                            *)
DedupHolds ==
    [][\A h \in Handler, f \in Flow : Starts(h, f) => ~Recent(f, event[h])]_vars

(* The window only suppresses what has a twin: a run of the same definition *)
(* did start for the same event within the window.  A start refused by the  *)
(* limit, or made under an older definition, never costs a later one.       *)
NothingSwallowed ==
    [][\A h \in Handler, f \in Flow :
          Suppresses(h, f) => Recent(f, event[h])]_vars
=============================================================================
