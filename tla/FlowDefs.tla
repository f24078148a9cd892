------------------------------ MODULE FlowDefs ------------------------------
(***************************************************************************)
(* The definition of ONE flow on the node that executes it                 *)
(* (flow/handler.go, flow/persistence.go): the map h.flows, the JSON file  *)
(* behind it, the scheduler goroutine of an interval or cron trigger, and  *)
(* the set and delete requests that change all three.                      *)
(*                                                                         *)
(* A step is one critical section of h.mu or one call of the file system;  *)
(* a crash can come between any two.  The directory is external: a rename  *)
(* or a remove either happens or returns an error.                         *)
(***************************************************************************)
EXTENDS Naturals, FiniteSets

CONSTANTS
    Writer,       \* goroutines that handle set and delete requests
    Binder,       \* the goroutine whose message binds the server first
    Def,          \* the definitions a set request may carry
    Timer,        \* those with an interval or a cron trigger
    NoDef,        \* no definition: not in the map, no such file
    Sched,        \* bound: scheduler channels in use at the same time
    NoSched,
    Alone,        \* definitions whose requests overlap no other
    MaxRequests,  \* bound: set and delete requests
    MaxFaults,    \* bound: errors returned by the file system
    MaxCrashes    \* bound: crashes of the process

ASSUME DefsAssumption ==
    /\ Timer \subseteq Def
    /\ NoDef \notin Def
    /\ NoSched \notin Sched
    /\ Binder \notin Writer
    /\ Alone \subseteq Def \cup {NoDef}
    /\ MaxRequests \in Nat /\ MaxFaults \in Nat /\ MaxCrashes \in Nat

Thread == Writer \cup {Binder}

VARIABLES
    mem,       \* h.flows[flowID]
    file,      \* <flowID>.json
    bak,       \* <flowID>.json.bak
    sched,     \* h.schedulers[flowID]: the channel registered
    closed,    \* channels that were closed
    live,      \* channels a scheduler goroutine waits on
    timerOf,   \* the definition whose period a channel's goroutine keeps
    started,   \* h.schedStarted
    pc,        \* where a thread is in its handler
    req,       \* the definition of a set request, NoDef for a delete
    mine,      \* the channel a thread's restartScheduler has made
    acked,     \* history: the definition last answered ok, or loaded
    overlapped, \* history: a request began before the one before it had ended
    requests, faults, crashes

store == <<file, bak>>
scheduler == <<sched, closed, live, timerOf, started>>
asked == <<requests, overlapped>>
bounds == <<asked, faults, crashes>>
vars == <<mem, file, bak, sched, closed, live, timerOf, started,
          pc, req, mine, acked, overlapped, requests, faults, crashes>>

Place == {"idle", "save", "stat", "dropbak", "backup", "replace", "restore",
          "cleanup", "place", "commit", "restart", "spawn", "unregister",
          "remove", "forget"}

TypeOK ==
    /\ mem \in Def \cup {NoDef} /\ file \in Def \cup {NoDef}
    /\ bak \in Def \cup {NoDef} /\ acked \in Def \cup {NoDef}
    /\ sched \in Sched \cup {NoSched}
    /\ closed \subseteq Sched /\ live \subseteq Sched
    /\ timerOf \in [Sched -> Def \cup {NoDef}]
    /\ started \in BOOLEAN /\ overlapped \in BOOLEAN
    /\ pc \in [Thread -> Place]
    /\ req \in [Thread -> Def \cup {NoDef}]
    /\ mine \in [Thread -> Sched \cup {NoSched}]
    /\ requests \in 0..MaxRequests
    /\ faults \in 0..MaxFaults
    /\ crashes \in 0..MaxCrashes

(* A process that has loaded its directory and bound no server yet.         *)
Init ==
    /\ file \in Def \cup {NoDef}
    /\ mem = file /\ acked = file /\ bak = NoDef
    /\ sched = NoSched /\ closed = {} /\ live = {}
    /\ timerOf = [s \in Sched |-> NoDef]
    /\ started = FALSE /\ overlapped = FALSE
    /\ pc = [t \in Thread |-> "idle"]
    /\ req = [t \in Thread |-> NoDef]
    /\ mine = [t \in Thread |-> NoSched]
    /\ requests = 0 /\ faults = 0 /\ crashes = 0

Quiet == \A t \in Thread : pc[t] = "idle"

Goto(t, place) == pc' = [pc EXCEPT ![t] = place]

(* The handler returns: its locals are gone.                                *)
Done(t) ==
    /\ Goto(t, "idle")
    /\ req' = [req EXCEPT ![t] = NoDef]
    /\ mine' = [mine EXCEPT ![t] = NoSched]

Fault == faults < MaxFaults /\ faults' = faults + 1

-----------------------------------------------------------------------------
(* Requests.                                                                *)

(* The definitions under way.                                               *)
InHand == {IF t = Binder THEN mem ELSE req[t] : t \in {u \in Thread : pc[u] # "idle"}}

Begin(t, d, place) ==
    /\ t \in Writer /\ pc[t] = "idle"
    /\ started                  \* OnReceive binds the server first
    /\ Quiet \/ (d \notin Alone /\ InHand \cap Alone = {})
    /\ requests < MaxRequests
    /\ requests' = requests + 1
    /\ req' = [req EXCEPT ![t] = d]
    /\ Goto(t, place)
    /\ overlapped' = (overlapped \/ ~Quiet)
    /\ UNCHANGED <<mem, store, scheduler, mine, acked, faults, crashes>>

SetRequest(t) == \E d \in Def : Begin(t, d, "save")

(* applyDeleteLocal answers 404 when the flow is not in the map.            *)
DeleteRequest(t) == mem # NoDef /\ Begin(t, NoDef, "remove")

(* A handler that stops at an error of the store: 500, nothing committed.   *)
Reject(t) ==
    /\ Fault
    /\ Done(t)
    /\ UNCHANGED <<mem, scheduler, acked, asked, crashes>>

-----------------------------------------------------------------------------
(* jsonPersistence.Save and writeFileAtomic.                                *)

SaveTemp(t) ==
    /\ pc[t] = "save"
    /\ \/ /\ Goto(t, "stat")
          /\ UNCHANGED <<mem, store, scheduler, req, mine, acked, bounds>>
       \/ Reject(t) /\ UNCHANGED store

StatFile(t) ==
    /\ pc[t] = "stat"
    /\ \/ /\ Goto(t, IF file = NoDef THEN "place" ELSE "dropbak")
          /\ UNCHANGED <<mem, store, scheduler, req, mine, acked, bounds>>
       \/ Reject(t) /\ UNCHANGED store

(* os.Remove of the old backup; its error is ignored.                       *)
DropBackup(t) ==
    /\ pc[t] = "dropbak"
    /\ Goto(t, "backup")
    /\ \/ bak' = NoDef /\ UNCHANGED <<file, faults>>
       \/ Fault /\ UNCHANGED store
    /\ UNCHANGED <<mem, scheduler, req, mine, acked, asked, crashes>>

(* The rename to the backup fails also when another request has moved or    *)
(* removed the file since it was seen.                                      *)
BackupFile(t) ==
    /\ pc[t] = "backup"
    /\ \/ /\ file # NoDef
          /\ bak' = file /\ file' = NoDef
          /\ Goto(t, "replace")
          /\ UNCHANGED <<mem, scheduler, req, mine, acked, bounds>>
       \/ Reject(t) /\ UNCHANGED store
       \/ /\ file = NoDef
          /\ Done(t)
          /\ UNCHANGED <<mem, store, scheduler, acked, bounds>>

ReplaceFile(t) ==
    /\ pc[t] = "replace"
    /\ \/ file' = req[t] /\ Goto(t, "cleanup") /\ UNCHANGED <<bak, faults>>
       \/ Fault /\ Goto(t, "restore") /\ UNCHANGED store
    /\ UNCHANGED <<mem, scheduler, req, mine, acked, asked, crashes>>

(* Mutant: the failed replacement is answered without putting the old file  *)
(* back.                                                                    *)
RestoreNothing(t) ==
    /\ pc[t] = "restore"
    /\ Done(t)
    /\ UNCHANGED <<mem, store, scheduler, acked, bounds>>

(* The error path puts the backup back and answers 500.                     *)
RestoreFile(t) ==
    /\ pc[t] = "restore"
    /\ Done(t)
    /\ \/ bak # NoDef /\ file' = bak /\ bak' = NoDef /\ UNCHANGED faults
       \/ bak = NoDef /\ UNCHANGED <<store, faults>>
       \/ Fault /\ UNCHANGED store
    /\ UNCHANGED <<mem, scheduler, acked, asked, crashes>>

CleanupBackup(t) ==
    /\ pc[t] = "cleanup"
    /\ Goto(t, "commit")
    /\ \/ bak' = NoDef /\ UNCHANGED <<file, faults>>
       \/ Fault /\ UNCHANGED store
    /\ UNCHANGED <<mem, scheduler, req, mine, acked, asked, crashes>>

(* No file was there: the temporary file is renamed into place.             *)
PlaceFile(t) ==
    /\ pc[t] = "place"
    /\ \/ /\ file' = req[t] /\ Goto(t, "commit")
          /\ UNCHANGED <<mem, bak, scheduler, req, mine, acked, bounds>>
       \/ Reject(t) /\ UNCHANGED store

-----------------------------------------------------------------------------
(* The commit of a set, and restartScheduler.                               *)

CommitSet(t) ==
    /\ pc[t] = "commit"
    /\ mem' = req[t]
    /\ Goto(t, "restart")
    /\ UNCHANGED <<store, scheduler, req, mine, acked, bounds>>

(* The answer of a set request is sent when restartScheduler returns.       *)
Answer(t) == acked' = IF t \in Writer THEN req[t] ELSE acked

Free == Sched \ (live \cup {sched} \cup {mine[t] : t \in Thread})

(* Mutant: the entry is closed without looking whether there is one.        *)
CloseAny == closed \cup {sched}

(* Closing the registered channel takes it off the map.                     *)
CloseOld == IF sched = NoSched THEN closed ELSE closed \cup {sched}

(* Mutant: the old scheduler is taken off the map and left running.         *)
RestartKeepsOld(t) ==
    /\ pc[t] = "restart" /\ mem # NoDef
    /\ \E s \in Free :
          /\ sched' = s
          /\ closed' = closed \ {s}
          /\ timerOf' = [timerOf EXCEPT ![s] = mem]
          /\ mine' = [mine EXCEPT ![t] = s]
    /\ Goto(t, "spawn")
    /\ UNCHANGED <<mem, store, live, started, req, acked, bounds>>

RestartScheduler(t) ==
    /\ pc[t] = "restart"
    /\ \/ /\ mem = NoDef
          /\ sched' = NoSched /\ closed' = CloseOld
          /\ Answer(t) /\ Done(t)
          /\ UNCHANGED timerOf
       \/ /\ mem # NoDef
          /\ \E s \in Free :
                /\ sched' = s
                /\ closed' = CloseOld \ {s}
                /\ timerOf' = [timerOf EXCEPT ![s] = mem]
                /\ mine' = [mine EXCEPT ![t] = s]
          /\ Goto(t, "spawn")
          /\ UNCHANGED <<req, acked>>
    /\ UNCHANGED <<mem, store, live, started, bounds>>

(* Outside the lock: an interval or cron trigger gets its goroutine, any    *)
(* other has no use for the entry just made.                                *)
SpawnScheduler(t) ==
    /\ pc[t] = "spawn"
    /\ \/ /\ timerOf[mine[t]] \in Timer
          /\ live' = live \cup {mine[t]}
          /\ Answer(t) /\ Done(t)
       \/ /\ timerOf[mine[t]] \notin Timer
          /\ Goto(t, "unregister")
          /\ UNCHANGED <<live, req, mine, acked>>
    /\ UNCHANGED <<mem, store, sched, closed, timerOf, started, bounds>>

(* delete(h.schedulers, flowID) in a second critical section, whatever the  *)
(* entry is by then.                                                        *)
Unregister(t) ==
    /\ pc[t] = "unregister"
    /\ sched' = NoSched
    /\ Answer(t) /\ Done(t)
    /\ UNCHANGED <<mem, store, closed, live, timerOf, started, bounds>>

-----------------------------------------------------------------------------
(* applyDeleteLocal after its lookup.  A file that is not there is removed  *)
(* without an error.                                                        *)
RemoveFile(t) ==
    /\ pc[t] = "remove"
    /\ \/ /\ file' = NoDef /\ Goto(t, "forget")
          /\ UNCHANGED <<mem, bak, scheduler, req, mine, acked, bounds>>
       \/ Reject(t) /\ UNCHANGED store

(* Mutant: delete takes the scheduler off the map without stopping it.      *)
CommitDeleteKeeps(t) ==
    /\ pc[t] = "forget"
    /\ mem' = NoDef
    /\ sched' = NoSched
    /\ Answer(t) /\ Done(t)
    /\ UNCHANGED <<store, closed, live, timerOf, started, bounds>>

CommitDelete(t) ==
    /\ pc[t] = "forget"
    /\ mem' = NoDef
    /\ sched' = NoSched /\ closed' = CloseOld
    /\ Answer(t) /\ Done(t)
    /\ UNCHANGED <<store, live, timerOf, started, bounds>>

-----------------------------------------------------------------------------
(* A scheduler goroutine returns once its channel is closed.                *)
StopScheduler(s) ==
    /\ s \in live \cap closed
    /\ live' = live \ {s}
    /\ UNCHANGED <<mem, store, sched, closed, timerOf, started,
                   pc, req, mine, acked, bounds>>

(* BindServer, on the first message: startSchedulers restarts the scheduler *)
(* of every flow that was loaded.                                           *)
StartSchedulers ==
    /\ ~started
    /\ started' = TRUE
    /\ IF mem # NoDef THEN Goto(Binder, "restart") ELSE UNCHANGED pc
    /\ UNCHANGED <<mem, store, sched, closed, live, timerOf,
                   req, mine, acked, bounds>>

(* Mutant: the backup is loaded where the file is missing.                  *)
LoadedBackupFirst == IF bak # NoDef THEN bak ELSE file

(* LoadAll reads the files that end in .json and nothing else.              *)
Loaded == file

(* The process dies; loadFlowsFromDisk rebuilds the map.                    *)
Restart ==
    /\ crashes < MaxCrashes /\ crashes' = crashes + 1
    /\ mem' = Loaded /\ acked' = Loaded
    /\ sched' = NoSched /\ closed' = {} /\ live' = {}
    /\ timerOf' = [s \in Sched |-> NoDef]
    /\ started' = FALSE /\ overlapped' = FALSE
    /\ pc' = [t \in Thread |-> "idle"]
    /\ req' = [t \in Thread |-> NoDef]
    /\ mine' = [t \in Thread |-> NoSched]
    /\ UNCHANGED <<store, requests, faults>>

-----------------------------------------------------------------------------
Handle(t) ==
    \/ SaveTemp(t) \/ StatFile(t) \/ DropBackup(t) \/ BackupFile(t)
    \/ ReplaceFile(t) \/ RestoreFile(t) \/ CleanupBackup(t) \/ PlaceFile(t)
    \/ CommitSet(t) \/ RestartScheduler(t) \/ SpawnScheduler(t)
    \/ Unregister(t) \/ RemoveFile(t) \/ CommitDelete(t)

Next ==
    \/ \E t \in Writer : SetRequest(t) \/ DeleteRequest(t)
    \/ \E t \in Thread : Handle(t)
    \/ \E s \in Sched : StopScheduler(s)
    \/ StartSchedulers
    \/ Restart

(* Goroutines are scheduled fairly; nothing obliges a client to ask, the    *)
(* file system to fail or the process to crash.                             *)
Fairness ==
    /\ \A t \in Thread : WF_vars(Handle(t))
    /\ \A s \in Sched : WF_vars(StopScheduler(s))

Spec == Init /\ [][Next]_vars /\ Fairness

-----------------------------------------------------------------------------
(* Properties.                                                              *)

(* The store has refused the new file and then the way back, too: the       *)
(* definition is left in the backup only.                                   *)
Stranded == faults >= 2 /\ file = NoDef /\ bak = mem

(* After requests that did not overlap the map and the file hold the same   *)
(* definition, the one the last answer promised, whatever errors the store  *)
(* returned, unless it refused both renames of one save (applySetLocal and  *)
(* applyDeleteLocal: store first, then map).                                *)
MemoryMatchesDisk == Quiet /\ ~overlapped => mem = acked /\ (mem = file \/ Stranded)

(* Never two goroutines that nobody has told to stop, and between requests  *)
(* there is one exactly if the definition in the map has a timer; it is the *)
(* registered one and keeps that definition's period (restartScheduler).    *)
SchedulerExact ==
    /\ Cardinality(live \ closed) <= 1
    /\ Quiet /\ started =>
          IF mem \in Timer
          THEN live \ closed = {sched} /\ timerOf[sched] = mem
          ELSE live \ closed = {}

(* Every scheduler goroutine nobody has stopped is the registered one, or   *)
(* no request could ever stop it (the delete of a flow stops its            *)
(* scheduler).                                                              *)
SchedulerReachable == \A s \in live \ closed : s = sched

(* A set in flight has moved the old file away and not yet placed its own.  *)
Overwriting == \E t \in Writer : pc[t] \in {"replace", "restore"}

(* What a crash may leave: the definition last answered, or that of a       *)
(* request in flight.                                                       *)
Promised == {acked} \cup {req[t] : t \in {u \in Writer : pc[u] # "idle"}}

(* A crash outside the window of writeFileAtomic between its two renames,   *)
(* after requests that did not overlap, loses no definition: the process    *)
(* comes back with the one last answered or that of the request it          *)
(* interrupted, unless the store had refused both renames before.           *)
CrashKeepsDefinition ==
    [][crashes' # crashes /\ ~Overwriting /\ ~overlapped =>
          mem' \in Promised \/ (Stranded /\ mem' = NoDef)]_vars

(* Once a flow is gone, or its definition has no timer, its scheduler       *)
(* goroutines end, however its last requests overlapped.                    *)
SchedulersDrain == <>[](mem \notin Timer) => <>[](live = {})
=============================================================================
