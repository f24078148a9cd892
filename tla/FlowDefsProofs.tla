--------------------------- MODULE FlowDefsProofs ---------------------------
(***************************************************************************)
(* Proofs about FlowDefs: for every number of requests, threads,           *)
(* definitions, errors of the store and crashes, the map and the file      *)
(* agree, a crash loses no definition, and the one scheduler that runs is  *)
(* the registered one.                                                     *)
(***************************************************************************)
EXTENDS FlowDefs, TLAPS, FiniteSetTheorems

(* A thread between the two critical sections of restartScheduler.         *)
Holding == {"spawn", "unregister"}

(* A thread that works on the store; only requests do.                     *)
Storing == {"save", "stat", "dropbak", "backup", "replace", "restore", "cleanup",
            "place", "commit", "remove"}

(* What a thread has in hand: a channel of its own that no goroutine waits *)
(* on yet, and the request it handles.                                     *)
Owned ==
    /\ \A t \in Thread : pc[t] \in Holding => mine[t] \in Sched \ live
    /\ \A t, u \in Thread :
          pc[t] \in Holding /\ pc[u] \in Holding /\ mine[t] = mine[u] => t = u
    /\ pc[Binder] \in {"idle", "restart"} \cup Holding
    /\ \A t \in Thread : pc[t] \in {"remove", "forget"} => req[t] = NoDef

(* Before BindServer nothing runs, and the map is as it was loaded. *)
Unbound == ~started => Quiet /\ sched = NoSched /\ live = {} /\ mem = file

TypeInv == TypeOK /\ Owned /\ Unbound

USE DEF Holding, Storing, Place, store, scheduler, asked, bounds

(* Initially every variable has its type. *)
LEMMA InitType == Init => TypeInv
<1> SUFFICES ASSUME Init PROVE TypeInv
  OBVIOUS
<1>1. TypeOK
  <2>1. started \in BOOLEAN /\ overlapped \in BOOLEAN
    BY DEF Init
  <2> QED BY <2>1, DefsAssumption DEF Init, TypeOK
<1>2. Owned
  BY DEF Init, Owned, Thread
<1>3. Unbound
  BY DEF Init, Unbound, Quiet
<1> QED BY <1>1, <1>2, <1>3 DEF TypeInv

(* What a step on the store does to everything else: its thread moves on   *)
(* or returns, and only a commit changes the map.                          *)
StoreEffect(t) ==
    /\ t \in Writer /\ pc[t] \in Storing
    /\ UNCHANGED <<scheduler, acked, asked, crashes>>
    /\ \E p \in (Storing \cup {"idle", "restart", "forget"}) :
          /\ Goto(t, p)
          /\ p \in {"remove", "forget"} => pc[t] = "remove"
          /\ p = "restart" <=> pc[t] = "commit"
          /\ p = "idle" => req' = [req EXCEPT ![t] = NoDef]
          /\ p # "idle" => req' = req
    /\ mine' = mine \/ mine' = [mine EXCEPT ![t] = NoSched]
    /\ mem' = IF pc[t] = "commit" THEN req[t] ELSE mem

(* The steps of jsonPersistence.Save and Delete, and the commit of a set.  *)
StoreStep(t) ==
    \/ SaveTemp(t) \/ StatFile(t) \/ DropBackup(t) \/ BackupFile(t) \/ ReplaceFile(t)
    \/ RestoreFile(t) \/ CleanupBackup(t) \/ PlaceFile(t) \/ CommitSet(t) \/ RemoveFile(t)

(* Each of them has that effect. *)
LEMMA StoreSteps ==
    ASSUME TypeInv, NEW t \in Thread, StoreStep(t)
    PROVE  StoreEffect(t)
<1> USE DEF TypeInv, TypeOK, Goto
<1>0. t \in Writer /\ pc[t] \in Storing
  BY DefsAssumption DEF Owned, Thread, StoreStep, SaveTemp, StatFile, DropBackup, BackupFile,
     ReplaceFile, RestoreFile, CleanupBackup, PlaceFile, CommitSet, RemoveFile
<1>1. CASE SaveTemp(t)
  BY <1>0, <1>1 DEF StoreEffect, SaveTemp, Reject, Done
<1>2. CASE StatFile(t)
  BY <1>0, <1>2 DEF StoreEffect, StatFile, Reject, Done
<1>3. CASE DropBackup(t)
  BY <1>0, <1>3 DEF StoreEffect, DropBackup
<1>4. CASE BackupFile(t)
  BY <1>0, <1>4 DEF StoreEffect, BackupFile, Reject, Done
<1>5. CASE ReplaceFile(t)
  BY <1>0, <1>5 DEF StoreEffect, ReplaceFile
<1>6. CASE RestoreFile(t)
  BY <1>0, <1>6 DEF StoreEffect, RestoreFile, Done
<1>7. CASE CleanupBackup(t)
  BY <1>0, <1>7 DEF StoreEffect, CleanupBackup
<1>8. CASE PlaceFile(t)
  BY <1>0, <1>8 DEF StoreEffect, PlaceFile, Reject, Done
<1>9. CASE CommitSet(t)
  BY <1>0, <1>9 DEF StoreEffect, CommitSet
<1>10. CASE RemoveFile(t)
  BY <1>0, <1>10 DEF StoreEffect, RemoveFile, Reject, Done
<1> QED BY <1>1, <1>2, <1>3, <1>4, <1>5, <1>6, <1>7, <1>8, <1>9, <1>10 DEF StoreStep

(* A step on the store keeps the types. *)
LEMMA StoreType ==
    ASSUME TypeInv, NEW t \in Thread, StoreStep(t)
    PROVE  TypeInv'
<1> USE DEF TypeInv, TypeOK
<1>1. StoreEffect(t)
  BY StoreSteps
<1>2. /\ file' \in Def \cup {NoDef} /\ bak' \in Def \cup {NoDef}
      /\ faults' = faults \/ Fault
  BY DEF StoreStep, SaveTemp, StatFile, DropBackup, BackupFile, ReplaceFile, RestoreFile,
     CleanupBackup, PlaceFile, CommitSet, RemoveFile, Reject
<1>3. faults' \in 0..MaxFaults
  BY <1>2, DefsAssumption DEF Fault
<1>4. /\ pc' \in [Thread -> Place] /\ req' \in [Thread -> Def \cup {NoDef}]
      /\ mine' \in [Thread -> Sched \cup {NoSched}] /\ mem' \in Def \cup {NoDef}
  BY <1>1 DEF StoreEffect, Goto
<1>5. TypeOK'
  BY <1>1, <1>2, <1>3, <1>4 DEF StoreEffect
<1>6. Owned'
  BY <1>1, DefsAssumption DEF Owned, StoreEffect, Goto, Thread
<1>7. Unbound'
  BY <1>1 DEF Unbound, Quiet, StoreEffect
<1> QED BY <1>5, <1>6, <1>7

(* A request that begins keeps the types. *)
LEMMA BeginType ==
    ASSUME TypeInv, NEW t \in Writer, SetRequest(t) \/ DeleteRequest(t)
    PROVE  TypeInv'
<1> USE DEF TypeInv, TypeOK
<1>1. PICK d \in Def \cup {NoDef}, p \in {"save", "remove"} :
         Begin(t, d, p) /\ (p = "remove" => d = NoDef)
  BY DEF SetRequest, DeleteRequest
<1>2. t \in Thread /\ t # Binder
  BY DefsAssumption DEF Thread
<1>3. TypeOK'
  BY <1>1, <1>2, DefsAssumption DEF Begin, Goto
<1>4. Owned'
  BY <1>1, <1>2 DEF Owned, Begin, Goto
<1>5. Unbound'
  BY <1>1 DEF Unbound, Begin
<1> QED BY <1>3, <1>4, <1>5

(* The two critical sections of restartScheduler, and the delete, keep     *)
(* them.                                                                   *)
LEMMA ScheduleType ==
    ASSUME TypeInv, NEW t \in Thread,
           RestartScheduler(t) \/ SpawnScheduler(t) \/ Unregister(t) \/ CommitDelete(t)
    PROVE  TypeInv'
<1> USE DEF TypeInv, TypeOK
<1>1. acked' \in Def \cup {NoDef}
  BY DEF RestartScheduler, SpawnScheduler, Unregister, CommitDelete, Answer
<1>2. CASE RestartScheduler(t) /\ mem # NoDef
  <2>1. PICK s \in Free :
           /\ sched' = s /\ closed' = CloseOld \ {s}
           /\ timerOf' = [timerOf EXCEPT ![s] = mem]
           /\ mine' = [mine EXCEPT ![t] = s]
           /\ Goto(t, "spawn") /\ pc[t] = "restart"
           /\ UNCHANGED <<mem, store, live, started, req, acked, bounds>>
    BY <1>2 DEF RestartScheduler
  <2>2. s \in Sched \ live /\ \A u \in Thread : mine[u] # s
    BY DEF Free
  <2>3. TypeOK'
    BY <1>1, <2>1, <2>2 DEF CloseOld, Goto
  <2>4. Owned'
    BY <2>1, <2>2 DEF Owned, Goto, Thread
  <2>5. Unbound'
    BY <2>1 DEF Unbound, Quiet
  <2> QED BY <2>3, <2>4, <2>5
<1>3. CASE SpawnScheduler(t)
  <2>1. mine[t] \in Sched
    BY <1>3 DEF Owned, SpawnScheduler
  <2>2. TypeOK'
    BY <1>1, <1>3, <2>1 DEF SpawnScheduler, Done, Goto
  <2>3. Owned'
    BY <1>3 DEF Owned, SpawnScheduler, Done, Goto, Thread
  <2>4. Unbound'
    BY <1>3 DEF Unbound, Quiet, SpawnScheduler
  <2> QED BY <2>2, <2>3, <2>4
<1>4. CASE (RestartScheduler(t) /\ mem = NoDef) \/ Unregister(t) \/ CommitDelete(t)
  <2>1. /\ Done(t) /\ sched' = NoSched /\ closed' \in {closed, CloseOld}
        /\ mem' \in {mem, NoDef} /\ pc[t] # "idle"
        /\ UNCHANGED <<store, live, timerOf, started, bounds>>
    BY <1>4 DEF RestartScheduler, Unregister, CommitDelete
  <2>2. TypeOK'
    BY <1>1, <2>1 DEF CloseOld, Done, Goto
  <2>3. Owned'
    BY <2>1 DEF Owned, Done, Goto, Thread
  <2>4. Unbound'
    BY <2>1 DEF Unbound, Quiet
  <2> QED BY <2>2, <2>3, <2>4
<1> QED BY <1>2, <1>3, <1>4

(* The goroutines, BindServer and a crash keep them. *)
LEMMA ProcessType ==
    ASSUME TypeInv, (\E s \in Sched : StopScheduler(s)) \/ StartSchedulers \/ Restart
    PROVE  TypeInv'
<1> USE DEF TypeInv, TypeOK
<1>1. CASE \E s \in Sched : StopScheduler(s)
  <2>1. TypeOK'
    BY <1>1 DEF StopScheduler
  <2>2. Owned'
    BY <1>1 DEF StopScheduler, Owned
  <2>3. Unbound'
    <3>1. live # {} /\ started' = started
      BY <1>1 DEF StopScheduler
    <3>2. started
      BY <3>1 DEF Unbound
    <3> QED BY <3>1, <3>2 DEF Unbound
  <2> QED BY <2>1, <2>2, <2>3
<1>2. CASE StartSchedulers
  <2>1. TypeOK'
    BY <1>2 DEF StartSchedulers, Goto
  <2>2. Owned' /\ Unbound'
    BY <1>2 DEF StartSchedulers, Goto, Owned, Unbound, Quiet, Thread
  <2> QED BY <2>1, <2>2
<1>3. CASE Restart
  <2>1. TypeOK'
    <3>1. started' \in BOOLEAN /\ overlapped' \in BOOLEAN
      BY <1>3 DEF Restart
    <3>2. crashes' \in 0..MaxCrashes
      BY <1>3, DefsAssumption DEF Restart
    <3> QED BY <1>3, <3>1, <3>2 DEF Restart, Loaded
  <2>2. Owned' /\ Unbound'
    BY <1>3 DEF Restart, Loaded, Owned, Unbound, Quiet, Thread
  <2> QED BY <2>1, <2>2
<1> QED BY <1>1, <1>2, <1>3

(* The cases of a step. *)
LEMMA StepCases ==
    ASSUME [Next]_vars
    PROVE  \/ \E t \in Writer : SetRequest(t) \/ DeleteRequest(t)
           \/ \E t \in Thread : StoreStep(t)
           \/ \E t \in Thread : \/ RestartScheduler(t) \/ SpawnScheduler(t)
                                \/ Unregister(t) \/ CommitDelete(t)
           \/ (\E s \in Sched : StopScheduler(s)) \/ StartSchedulers \/ Restart
           \/ UNCHANGED vars
  BY DEF Next, Handle, StoreStep

(* The inductive step. *)
LEMMA StepType == TypeInv /\ [Next]_vars => TypeInv'
<1> SUFFICES ASSUME TypeInv, [Next]_vars PROVE TypeInv'
  OBVIOUS
<1>1. CASE UNCHANGED vars
  BY <1>1 DEF vars, TypeInv, TypeOK, Owned, Unbound, Quiet
<1> QED BY <1>1, StepCases, BeginType, StoreType, ScheduleType, ProcessType

(* Every variable of the definition store keeps its type: TypeOK. *)
THEOREM TypeCorrect == Spec => []TypeOK
<1>1. TypeInv => TypeOK
  BY DEF TypeInv
<1> QED BY <1>1, InitType, StepType, PTL DEF Spec

-----------------------------------------------------------------------------
(* The scheduler.  Requests for definitions without a timer overlap no     *)
(* other (NoTimerAlone), so a thread that handles one is by itself (Solo). *)

NoTimerAlone == Def \ Timer \subseteq Alone

Solo(t) == \A u \in Thread \ {t} : pc[u] = "idle"

HandOf(t) == IF t = Binder THEN mem ELSE req[t]

(* A thread whose definition overlaps no other is by itself; what a thread *)
(* finds in the map when it restarts the scheduler has a timer, or is its  *)
(* own definition.                                                         *)
Apart ==
    /\ \A t \in Thread : pc[t] # "idle" /\ HandOf(t) \in Alone => Solo(t)
    /\ \A t \in Thread : pc[t] = "restart" /\ mem \in Def \ Timer => HandOf(t) \in Alone

(* A thread has made its channel the registered one, and if the channel is *)
(* no longer that, it is closed.  The channel of a definition without a    *)
(* timer is registered until its thread drops it.                          *)
Held ==
    /\ \A t \in Thread : pc[t] \in Holding /\ mine[t] \notin closed => mine[t] = sched
    /\ \A t \in Thread : pc[t] \in Holding /\ timerOf[mine[t]] \notin Timer =>
          /\ HandOf(t) \in Alone
          /\ mine[t] = sched /\ sched \notin closed /\ timerOf[sched] = mem
    /\ \A t \in Thread : pc[t] = "unregister" => timerOf[mine[t]] \notin Timer
    /\ sched \notin closed

(* Some thread is about to restart the scheduler, or the registered one is *)
(* that of the definition in the map, running or about to.                 *)
Tended ==
    \/ ~started
    \/ \E t \in Thread : pc[t] = "restart"
    \/ /\ sched # NoSched => timerOf[sched] = mem
       /\ mem \in Timer => /\ sched # NoSched
                           /\ \/ sched \in live
                              \/ \E t \in Thread : pc[t] = "spawn" /\ mine[t] = sched
       /\ mem \notin Timer => live \ closed = {}

SchedInv == TypeInv /\ Apart /\ Held /\ SchedulerReachable /\ Tended

(* A step on the store: no thread is at restart but one that commits, and  *)
(* then the definition in the map is its own.                              *)
LEMMA StoreSched ==
    ASSUME SchedInv, NoTimerAlone, NEW t \in Thread, StoreStep(t)
    PROVE  Apart' /\ Held' /\ SchedulerReachable' /\ Tended'
<1> USE DEF SchedInv, TypeInv, TypeOK
<1>0. PICK p \in (Storing \cup {"idle", "restart", "forget"}) :
         /\ t \in Writer /\ t # Binder /\ pc[t] \in Storing
         /\ UNCHANGED <<scheduler, acked, asked, crashes>>
         /\ pc' = [pc EXCEPT ![t] = p]
         /\ p = "restart" <=> pc[t] = "commit"
         /\ p = "idle" => req' = [req EXCEPT ![t] = NoDef]
         /\ p # "idle" => req' = req
         /\ mine' = mine \/ mine' = [mine EXCEPT ![t] = NoSched]
         /\ mem' = IF pc[t] = "commit" THEN req[t] ELSE mem
  BY StoreSteps, DefsAssumption DEF StoreEffect, Goto
<1>1. \A u \in Thread \ {t} : pc'[u] = pc[u] /\ mine'[u] = mine[u] /\ req'[u] = req[u]
  BY <1>0
<1>2. ASSUME NEW u \in Thread \ {t}, pc[u] # "idle"
      PROVE  /\ HandOf(u) \notin Alone /\ HandOf(u)' \notin Alone
             /\ mem' \notin Def \ Timer \/ mem' = mem
  <2>1. HandOf(u) \notin Alone /\ HandOf(t) \notin Alone
    BY <1>0, <1>2 DEF Apart, Solo
  <2>2. HandOf(t) = req[t]
    BY <1>0 DEF HandOf
  <2>3. HandOf(u)' = HandOf(u) \/ HandOf(u)' = req[t]
    BY <1>0, <1>1 DEF HandOf
  <2> QED BY <1>0, <2>1, <2>2, <2>3 DEF NoTimerAlone
<1>3. Apart'
  <2>1. ASSUME NEW u \in Thread, pc'[u] # "idle", HandOf(u)' \in Alone PROVE Solo(u)'
    <3>1. CASE u = t
      <4>1. HandOf(t) \in Alone
        BY <1>0, <2>1, <3>1 DEF HandOf
      <4> QED BY <1>0, <1>1, <3>1, <4>1 DEF Apart, Solo
    <3>2. CASE u # t
      BY <1>1, <1>2, <2>1, <3>2
    <3> QED BY <3>1, <3>2
  <2>2. ASSUME NEW u \in Thread, pc'[u] = "restart", mem' \in Def \ Timer
        PROVE  HandOf(u)' \in Alone
    <3>1. CASE u = t
      BY <1>0, <2>2, <3>1 DEF HandOf, NoTimerAlone
    <3>2. CASE u # t
      <4>1. mem' = mem /\ pc[u] = "restart"
        BY <1>1, <1>2, <2>2, <3>2
      <4>2. HandOf(u) \in Alone
        BY <2>2, <4>1 DEF Apart
      <4> QED BY <1>2, <3>2, <4>1, <4>2
    <3> QED BY <3>1, <3>2
  <2> QED BY <2>1, <2>2 DEF Apart
<1>4. Held'
  <2>1. \A u \in Thread : pc'[u] \in Holding => u # t /\ pc[u] = pc'[u] /\ mine'[u] = mine[u]
    BY <1>0, <1>1
  <2>2. \A u \in Thread : pc'[u] \in Holding => timerOf[mine[u]] \in Timer
    BY <1>1, <1>2, <2>1 DEF Held
  <2> QED BY <1>0, <2>1, <2>2 DEF Held
<1>5. SchedulerReachable'
  BY <1>0 DEF SchedulerReachable
<1>6. Tended'
  <2>1. CASE pc[t] = "commit"
    BY <1>0, <2>1 DEF Tended
  <2>2. CASE pc[t] # "commit"
    <3>1. mem' = mem /\ UNCHANGED scheduler
      BY <1>0, <2>2
    <3>2. CASE \E u \in Thread : pc[u] = "restart"
      BY <1>0, <1>1, <3>2 DEF Tended
    <3>3. ASSUME NEW u \in Thread, pc[u] = "spawn"
          PROVE  pc'[u] = "spawn" /\ mine'[u] = mine[u]
      BY <1>0, <1>1, <3>3
    <3> QED BY <3>1, <3>2, <3>3 DEF Tended
  <2> QED BY <2>1, <2>2
<1> QED BY <1>3, <1>4, <1>5, <1>6

(* A request begins only where it may overlap those under way. *)
LEMMA BeginSched ==
    ASSUME SchedInv, NoTimerAlone, NEW t \in Writer, SetRequest(t) \/ DeleteRequest(t)
    PROVE  Apart' /\ Held' /\ SchedulerReachable' /\ Tended'
<1> USE DEF SchedInv, TypeInv, TypeOK
<1>0. PICK d \in Def \cup {NoDef}, p \in {"save", "remove"} :
         /\ pc[t] = "idle" /\ started /\ pc' = [pc EXCEPT ![t] = p]
         /\ Quiet \/ (d \notin Alone /\ InHand \cap Alone = {})
         /\ req' = [req EXCEPT ![t] = d]
         /\ UNCHANGED <<mem, scheduler, mine>>
  BY DEF SetRequest, DeleteRequest, Begin, Goto
<1>1. t \in Thread /\ t # Binder
  BY DefsAssumption DEF Thread
<1>2. \A u \in Thread \ {t} : pc'[u] = pc[u] /\ HandOf(u)' = HandOf(u)
  BY <1>0 DEF HandOf
<1>3. \A u \in Thread : pc[u] # "idle" => Quiet \/ HandOf(u) \notin Alone
  BY <1>0 DEF InHand, HandOf
<1>4. Apart'
  <2>1. ASSUME NEW u \in Thread, pc'[u] # "idle", HandOf(u)' \in Alone PROVE Solo(u)'
    <3>1. CASE u = t
      <4>1. HandOf(t)' = d
        BY <1>0, <1>1 DEF HandOf
      <4>2. Quiet
        BY <1>0, <2>1, <3>1, <4>1
      <4> QED BY <1>2, <3>1, <4>2 DEF Quiet, Solo
    <3>2. CASE u # t
      BY <1>2, <1>3, <2>1, <3>2 DEF Quiet
    <3> QED BY <3>1, <3>2
  <2>2. ASSUME NEW u \in Thread, pc'[u] = "restart", mem' \in Def \ Timer
        PROVE  HandOf(u)' \in Alone
    BY <1>0, <1>1, <1>2, <2>2 DEF Apart
  <2> QED BY <2>1, <2>2 DEF Apart
<1>5. Held'
  <2>1. \A u \in Thread : pc'[u] \in Holding => u # t /\ pc[u] = pc'[u]
    BY <1>0, <1>1
  <2> QED BY <1>0, <1>2, <2>1 DEF Held
<1>6. SchedulerReachable'
  BY <1>0 DEF SchedulerReachable
<1>7. Tended'
  <2>1. \A u \in Thread : pc[u] \in {"restart", "spawn"} => pc'[u] = pc[u]
    BY <1>0, <1>1
  <2> QED BY <1>0, <2>1 DEF Tended
<1> QED BY <1>4, <1>5, <1>6, <1>7

(* restartScheduler's first critical section: the old channel is closed    *)
(* and a new one registered for the definition in the map.                 *)
LEMMA RestartSched ==
    ASSUME SchedInv, NEW t \in Thread, RestartScheduler(t), mem # NoDef
    PROVE  Apart' /\ Held' /\ SchedulerReachable' /\ Tended'
<1> USE DEF SchedInv, TypeInv, TypeOK
<1>0. PICK s \in Free :
         /\ sched' = s /\ closed' = CloseOld \ {s}
         /\ timerOf' = [timerOf EXCEPT ![s] = mem]
         /\ mine' = [mine EXCEPT ![t] = s]
         /\ pc' = [pc EXCEPT ![t] = "spawn"] /\ pc[t] = "restart"
         /\ UNCHANGED <<mem, live, started, req>>
  BY DEF RestartScheduler, Goto
<1>1. s \in Sched \ live /\ s # sched /\ s # NoSched /\ \A u \in Thread : mine[u] # s
  BY DefsAssumption DEF Free
<1>2. \A u \in Thread \ {t} : pc'[u] = pc[u] /\ mine'[u] = mine[u]
  BY <1>0
<1>3. \A u \in Thread : HandOf(u)' = HandOf(u)
  BY <1>0 DEF HandOf
<1>4. Apart'
  <2>1. \A u \in Thread : /\ pc'[u] # "idle" <=> pc[u] # "idle"
                          /\ pc'[u] = "restart" => pc[u] = "restart"
    BY <1>0
  <2> QED BY <1>0, <1>3, <2>1 DEF Apart, Solo
<1>5. \A x \in Sched : x \notin closed' => x = s \/ (x # sched /\ x \notin closed)
  BY <1>0, DefsAssumption DEF CloseOld
<1>6. live \ closed' = {}
  BY <1>0, <1>1, <1>5 DEF SchedulerReachable
<1>7. sched' \notin closed' /\ timerOf'[sched'] = mem'
  BY <1>0, <1>1
<1>8. Held'
  <2>1. ASSUME NEW u \in Thread \ {t}, pc'[u] \in Holding
        PROVE  mine'[u] \in closed' /\ timerOf'[mine'[u]] \in Timer
    <3>1. pc[u] \in Holding /\ mine'[u] = mine[u] /\ mine[u] \in Sched /\ mine[u] # s
      BY <1>1, <1>2, <2>1 DEF Owned
    <3>2. mine[u] \in closed'
      BY <1>5, <3>1 DEF Held
    <3>3. timerOf[mine[u]] \in Timer
      <4>1. SUFFICES ASSUME timerOf[mine[u]] \notin Timer PROVE FALSE
        OBVIOUS
      <4>2. Solo(u)
        BY <3>1, <4>1 DEF Held, Apart
      <4> QED BY <1>0, <2>1, <4>2 DEF Solo
    <3> QED BY <1>0, <3>1, <3>2, <3>3
  <2>2. pc'[t] = "spawn" /\ mine'[t] = s
    BY <1>0
  <2>3. mem \notin Timer => HandOf(t) \in Alone
    BY <1>0 DEF Apart
  <2> QED BY <1>0, <1>3, <1>7, <2>1, <2>2, <2>3 DEF Held
<1>9. SchedulerReachable'
  BY <1>0, <1>6 DEF SchedulerReachable
<1>10. Tended'
  BY <1>0, <1>1, <1>6, <1>7 DEF Tended
<1> QED BY <1>4, <1>8, <1>9, <1>10

(* A delete, and a restart for a flow that is gone: the old channel is     *)
(* closed and none registered.                                             *)
LEMMA ClearSched ==
    ASSUME SchedInv, NEW t \in Thread,
           (RestartScheduler(t) /\ mem = NoDef) \/ CommitDelete(t)
    PROVE  Apart' /\ Held' /\ SchedulerReachable' /\ Tended'
<1> USE DEF SchedInv, TypeInv, TypeOK
<1>0. /\ pc[t] \in {"restart", "forget"} /\ mem' = NoDef
      /\ pc[t] = "restart" => mem = NoDef
      /\ sched' = NoSched /\ closed' = CloseOld
      /\ pc' = [pc EXCEPT ![t] = "idle"]
      /\ req' = [req EXCEPT ![t] = NoDef]
      /\ mine' = [mine EXCEPT ![t] = NoSched]
      /\ UNCHANGED <<live, timerOf, started>>
  BY DEF RestartScheduler, CommitDelete, Done, Goto
<1>1. \A u \in Thread \ {t} : pc'[u] = pc[u] /\ mine'[u] = mine[u] /\ req'[u] = req[u]
  BY <1>0
<1>2. ASSUME NEW u \in Thread \ {t}, pc[u] # "idle"
      PROVE  HandOf(u)' = HandOf(u) \/ HandOf(u)' \notin Alone
  <2>1. CASE pc[t] = "restart"
    BY <1>0, <1>1, <2>1 DEF HandOf
  <2>2. CASE pc[t] = "forget"
    <3>1. HandOf(t) = NoDef
      BY <2>2, DefsAssumption DEF Owned, HandOf
    <3>2. NoDef \notin Alone
      BY <1>0, <1>2, <3>1 DEF Apart, Solo
    <3> QED BY <1>0, <1>1, <3>2 DEF HandOf
  <2> QED BY <1>0, <2>1, <2>2
<1>3. Apart'
  <2>1. ASSUME NEW u \in Thread, pc'[u] # "idle", HandOf(u)' \in Alone PROVE Solo(u)'
    <3>1. u # t /\ pc[u] # "idle"
      BY <1>0, <2>1
    <3>2. HandOf(u) \in Alone
      BY <1>2, <2>1, <3>1
    <3>3. Solo(u)
      BY <3>1, <3>2 DEF Apart
    <3> QED BY <1>0, <3>1, <3>3 DEF Solo
  <2>2. mem' \notin Def \ Timer
    BY <1>0, DefsAssumption
  <2> QED BY <2>1, <2>2 DEF Apart
<1>4. \A x \in Sched : x \notin closed' => x # sched /\ x \notin closed
  BY <1>0, DefsAssumption DEF CloseOld
<1>5. live \ closed' = {}
  BY <1>0, <1>4 DEF SchedulerReachable
<1>6. Held'
  <2>1. ASSUME NEW u \in Thread, pc'[u] \in Holding
        PROVE  mine'[u] \in closed' /\ timerOf'[mine'[u]] \in Timer
    <3>1. u # t /\ pc[u] \in Holding /\ mine'[u] = mine[u] /\ mine[u] \in Sched
      BY <1>0, <1>1, <2>1 DEF Owned
    <3>2. mine[u] \in closed'
      BY <1>4, <3>1 DEF Held
    <3>3. timerOf[mine[u]] \in Timer
      <4>1. SUFFICES ASSUME timerOf[mine[u]] \notin Timer PROVE FALSE
        OBVIOUS
      <4>2. Solo(u)
        BY <3>1, <4>1 DEF Held, Apart
      <4> QED BY <1>0, <3>1, <4>2 DEF Solo
    <3> QED BY <1>0, <3>1, <3>2, <3>3
  <2>2. \A u \in Thread : pc'[u] = "unregister" => pc[u] = "unregister" /\ mine'[u] = mine[u]
    BY <1>0, <1>1
  <2>3. sched' \notin closed'
    BY <1>0, DefsAssumption DEF CloseOld
  <2> QED BY <1>0, <2>1, <2>2, <2>3 DEF Held
<1>7. SchedulerReachable'
  BY <1>0, <1>5 DEF SchedulerReachable
<1>8. Tended'
  BY <1>0, <1>5, DefsAssumption DEF Tended
<1> QED BY <1>3, <1>6, <1>7, <1>8

(* The second half of restartScheduler: the goroutine starts, or the entry *)
(* of a definition without a timer is dropped.                             *)
LEMMA SpawnSched ==
    ASSUME SchedInv, NEW t \in Thread, SpawnScheduler(t)
    PROVE  Apart' /\ Held' /\ SchedulerReachable' /\ Tended'
<1> USE DEF SchedInv, TypeInv, TypeOK
<1>0. /\ pc[t] = "spawn" /\ mine[t] \in Sched \ live
      /\ UNCHANGED <<mem, sched, closed, timerOf, started>>
      /\ \/ /\ timerOf[mine[t]] \in Timer /\ live' = live \cup {mine[t]}
            /\ pc' = [pc EXCEPT ![t] = "idle"]
            /\ req' = [req EXCEPT ![t] = NoDef]
            /\ mine' = [mine EXCEPT ![t] = NoSched]
         \/ /\ timerOf[mine[t]] \notin Timer /\ UNCHANGED <<live, req, mine>>
            /\ pc' = [pc EXCEPT ![t] = "unregister"]
  BY DEF Owned, SpawnScheduler, Done, Goto
<1>1. \A u \in Thread \ {t} : /\ pc'[u] = pc[u] /\ mine'[u] = mine[u]
                              /\ HandOf(u)' = HandOf(u)
  BY <1>0 DEF HandOf
<1>2. CASE timerOf[mine[t]] \in Timer
  <2>1. pc'[t] = "idle" /\ live' = live \cup {mine[t]}
    BY <1>0, <1>2
  <2>2. Apart'
    BY <1>0, <1>1, <2>1 DEF Apart, Solo
  <2>3. Held'
    <3>1. \A u \in Thread : pc'[u] \in Holding => u # t /\ pc[u] = pc'[u]
      BY <1>1, <2>1
    <3> QED BY <1>0, <1>1, <3>1 DEF Held
  <2>4. SchedulerReachable'
    BY <1>0, <2>1 DEF SchedulerReachable, Held
  <2>5. Tended'
    <3>1. CASE ~started \/ \E u \in Thread : pc[u] = "restart"
      BY <1>0, <1>1, <3>1 DEF Tended
    <3>2. CASE started /\ \A u \in Thread : pc[u] # "restart"
      <4>1. sched # NoSched => timerOf[sched] = mem
        BY <3>2 DEF Tended
      <4>2. ASSUME mem \in Timer
            PROVE  sched # NoSched /\ \/ sched \in live'
                                      \/ \E u \in Thread : pc'[u] = "spawn" /\ mine'[u] = sched
        <5>1. CASE sched \in live
          BY <2>1, <3>2, <4>2, <5>1 DEF Tended
        <5>2. CASE sched \notin live
          <6>1. PICK u \in Thread : pc[u] = "spawn" /\ mine[u] = sched /\ sched # NoSched
            BY <3>2, <4>2, <5>2 DEF Tended
          <6> QED BY <1>1, <2>1, <6>1
        <5> QED BY <5>1, <5>2
      <4>3. ASSUME mem \notin Timer PROVE live' \ closed = {}
        <5>1. live \ closed = {}
          BY <3>2, <4>3 DEF Tended
        <5>2. mine[t] \in closed
          BY <1>0, <1>2, <4>1, <4>3, DefsAssumption DEF Held
        <5> QED BY <2>1, <5>1, <5>2
      <4> QED BY <1>0, <4>1, <4>2, <4>3 DEF Tended
    <3> QED BY <3>1, <3>2
  <2> QED BY <2>2, <2>3, <2>4, <2>5
<1>3. CASE timerOf[mine[t]] \notin Timer
  <2>1. pc'[t] = "unregister" /\ UNCHANGED <<live, req, mine>>
    BY <1>0, <1>3
  <2>2. \A u \in Thread : HandOf(u)' = HandOf(u)
    BY <1>0, <2>1 DEF HandOf
  <2>3. \A u \in Thread : /\ pc'[u] # "idle" <=> pc[u] # "idle"
                          /\ pc'[u] = "restart" <=> pc[u] = "restart"
                          /\ pc'[u] \in Holding => pc[u] \in Holding
    BY <1>0, <1>1, <2>1
  <2>4. Apart'
    BY <1>0, <2>2, <2>3 DEF Apart, Solo
  <2>5. Held'
    BY <1>0, <1>1, <1>3, <2>1, <2>2, <2>3 DEF Held
  <2>6. SchedulerReachable'
    BY <1>0, <2>1 DEF SchedulerReachable
  <2>7. mem \notin Timer
    BY <1>0, <1>3 DEF Held
  <2>8. Tended'
    BY <1>0, <2>1, <2>3, <2>7 DEF Tended
  <2> QED BY <2>4, <2>5, <2>6, <2>8
<1> QED BY <1>2, <1>3

(* Unregister drops the entry its thread has made, since no other thread   *)
(* has been at work.                                                       *)
LEMMA UnregisterSched ==
    ASSUME SchedInv, NEW t \in Thread, Unregister(t)
    PROVE  Apart' /\ Held' /\ SchedulerReachable' /\ Tended'
<1> USE DEF SchedInv, TypeInv, TypeOK
<1>0. /\ pc[t] = "unregister" /\ sched' = NoSched
      /\ pc' = [pc EXCEPT ![t] = "idle"]
      /\ UNCHANGED <<mem, closed, live, timerOf, started>>
  BY DEF Unregister, Done, Goto
<1>1. /\ timerOf[mine[t]] \notin Timer /\ HandOf(t) \in Alone
      /\ mine[t] = sched /\ mine[t] \notin live /\ timerOf[sched] = mem
  BY <1>0 DEF Held, Owned
<1>2. \A u \in Thread : pc'[u] = "idle"
  BY <1>0, <1>1 DEF Apart, Solo
<1>3. live \ closed = {}
  BY <1>1 DEF SchedulerReachable
<1>4. Apart'
  BY <1>2 DEF Apart
<1>5. Held'
  BY <1>0, <1>2, DefsAssumption DEF Held
<1>6. SchedulerReachable'
  BY <1>0, <1>3 DEF SchedulerReachable
<1>7. Tended'
  BY <1>0, <1>1, <1>3 DEF Tended
<1> QED BY <1>4, <1>5, <1>6, <1>7

(* A goroutine ends, the server is bound, or the process restarts. *)
LEMMA ProcessSched ==
    ASSUME SchedInv, NoTimerAlone,
           (\E s \in Sched : StopScheduler(s)) \/ StartSchedulers \/ Restart
    PROVE  Apart' /\ Held' /\ SchedulerReachable' /\ Tended'
<1> USE DEF SchedInv, TypeInv, TypeOK
<1>1. CASE \E s \in Sched : StopScheduler(s)
  <2>1. PICK s \in Sched : StopScheduler(s)
    BY <1>1
  <2>2. /\ s \in closed /\ live' = live \ {s}
        /\ UNCHANGED <<mem, sched, closed, timerOf, started, pc, req, mine>>
    BY <2>1 DEF StopScheduler
  <2>3. \A u \in Thread : HandOf(u)' = HandOf(u)
    BY <2>2 DEF HandOf
  <2>4. Apart' /\ Held' /\ SchedulerReachable'
    BY <2>2, <2>3 DEF Apart, Solo, Held, SchedulerReachable
  <2>5. Tended'
    BY <2>2 DEF Tended, Held
  <2> QED BY <2>4, <2>5
<1>2. CASE StartSchedulers
  <2>1. /\ Quiet /\ sched = NoSched /\ live = {} /\ Binder \in Thread
        /\ UNCHANGED <<mem, sched, closed, live, timerOf, req, mine>>
        /\ started'
    BY <1>2 DEF StartSchedulers, Unbound, Thread
  <2>2. \A u \in Thread : pc'[u] = "idle" \/ (u = Binder /\ pc'[u] = "restart" /\ mem # NoDef)
    BY <1>2, <2>1 DEF StartSchedulers, Goto, Quiet
  <2>3. Apart'
    BY <2>1, <2>2 DEF Apart, Solo, HandOf, NoTimerAlone
  <2>4. Held' /\ SchedulerReachable'
    BY <2>1, <2>2 DEF Held, SchedulerReachable
  <2>5. Tended'
    <3>1. mem # NoDef => pc'[Binder] = "restart"
      BY <1>2, <2>1 DEF StartSchedulers, Goto
    <3>2. NoDef \notin Timer
      BY DefsAssumption
    <3> QED BY <2>1, <3>1, <3>2 DEF Tended
  <2> QED BY <2>3, <2>4, <2>5
<1>3. CASE Restart
  <2>1. /\ sched' = NoSched /\ closed' = {} /\ live' = {} /\ ~started'
        /\ \A u \in Thread : pc'[u] = "idle"
    BY <1>3 DEF Restart
  <2> QED BY <2>1 DEF Apart, Held, SchedulerReachable, Tended
<1> QED BY <1>1, <1>2, <1>3

(* Initially no thread is at work. *)
LEMMA InitSched == Init => SchedInv
<1> SUFFICES ASSUME Init PROVE SchedInv
  OBVIOUS
<1>1. /\ sched = NoSched /\ closed = {} /\ live = {} /\ ~started
      /\ \A u \in Thread : pc[u] = "idle"
  BY DEF Init
<1> QED BY <1>1, InitType DEF SchedInv, Apart, Held, SchedulerReachable, Tended

(* The inductive step. *)
LEMMA StepSched ==
    ASSUME NoTimerAlone, SchedInv, [Next]_vars
    PROVE  SchedInv'
<1>0. TypeInv'
  BY StepType DEF SchedInv
<1>1. CASE UNCHANGED vars
  <2>1. \A u \in Thread : HandOf(u)' = HandOf(u)
    BY <1>1 DEF vars, HandOf
  <2>2. Apart' /\ Held' /\ SchedulerReachable' /\ Tended'
    BY <1>1, <2>1 DEF vars, SchedInv, Apart, Solo, Held, SchedulerReachable, Tended
  <2> QED BY <1>0, <2>2 DEF SchedInv
<1>2. (Apart' /\ Held' /\ SchedulerReachable' /\ Tended') \/ UNCHANGED vars
  BY StepCases, StoreSched, BeginSched, RestartSched, ClearSched, SpawnSched, UnregisterSched,
     ProcessSched
<1> QED BY <1>0, <1>1, <1>2 DEF SchedInv

(* If definitions without a timer are not set while other requests for the *)
(* flow are under way, every scheduler goroutine that nobody has stopped   *)
(* is the registered one, so that a delete will stop it:                   *)
(* SchedulerReachable.                                                     *)
THEOREM SchedulersFound ==
    ASSUME NoTimerAlone
    PROVE  Spec => []SchedulerReachable
<1>1. SchedInv /\ [Next]_vars => SchedInv'
  BY NoTimerAlone, StepSched
<1>2. SchedInv => SchedulerReachable
  BY DEF SchedInv
<1> QED BY <1>1, <1>2, InitSched, PTL DEF Spec

(* Then there is one scheduler at most, and between requests exactly the   *)
(* one the definition in the map asks for: SchedulerExact.                 *)
THEOREM OneScheduler ==
    ASSUME NoTimerAlone
    PROVE  Spec => []SchedulerExact
<1>1. SchedInv /\ [Next]_vars => SchedInv'
  BY NoTimerAlone, StepSched
<1>2. SchedInv => SchedulerExact
  <2> SUFFICES ASSUME SchedInv PROVE SchedulerExact
    OBVIOUS
  <2>1. live \ closed \in SUBSET {sched}
    BY DEF SchedInv, SchedulerReachable
  <2>2. IsFiniteSet({sched}) /\ Cardinality({sched}) = 1
    BY FS_Singleton
  <2>3. /\ IsFiniteSet(live \ closed) /\ Cardinality(live \ closed) <= Cardinality({sched})
    BY <2>1, <2>2, FS_Subset
  <2>4. Cardinality(live \ closed) <= 1
    BY <2>2, <2>3
  <2>5. ASSUME Quiet, started
        PROVE  IF mem \in Timer
               THEN live \ closed = {sched} /\ timerOf[sched] = mem
               ELSE live \ closed = {}
    <3>1. \A t \in Thread : pc[t] \notin {"restart", "spawn"}
      BY <2>5 DEF Quiet
    <3> QED BY <2>1, <2>5, <3>1 DEF SchedInv, Tended, Held
  <2> QED BY <2>4, <2>5 DEF SchedulerExact
<1> QED BY <1>1, <1>2, InitSched, PTL DEF Spec

-----------------------------------------------------------------------------
(* The map and the file.  As long as requests have not overlapped, there   *)
(* is one thread at work at most, and where it is says how the map, the    *)
(* file, the backup and the last answer relate.                            *)

AtRest == mem = acked /\ (mem = file \/ Stranded)

Progress(t) ==
    /\ pc[t] \in {"save", "stat", "place", "remove"} => AtRest
    /\ pc[t] \in {"dropbak", "backup"} => mem = acked /\ mem = file /\ file # NoDef
    /\ pc[t] \in {"replace", "restore"} =>
          mem = acked /\ file = NoDef /\ bak = mem /\ mem # NoDef
    /\ pc[t] = "restore" => faults >= 1
    /\ pc[t] \in {"cleanup", "commit", "forget"} => mem = acked /\ file = req[t]
    /\ pc[t] \in {"restart"} \cup Holding =>
          mem = file /\ mem = IF t \in Writer THEN req[t] ELSE acked

Serial ==
    /\ \A t, u \in Thread : pc[t] # "idle" /\ pc[u] # "idle" => t = u
    /\ Quiet => AtRest
    /\ \A t \in Thread : Progress(t)

DiskInv == TypeInv /\ (overlapped \/ Serial)

(* A step of the one thread at work keeps this, if it leaves its own place *)
(* right, or everything as the next request needs it.                      *)
LEMMA SerialKept ==
    ASSUME Serial, NEW t \in Thread, pc[t] # "idle",
           \A u \in Thread \ {t} : pc'[u] = pc[u],
           pc'[t] = "idle" => AtRest', Progress(t)'
    PROVE  Serial'
<1>1. \A u \in Thread \ {t} : pc'[u] = "idle"
  BY DEF Serial
<1>2. \A u \in Thread \ {t} : Progress(u)'
  BY <1>1 DEF Progress
<1>3. \A u \in Thread : Progress(u)'
  BY <1>2
<1>4. Quiet' => AtRest'
  BY DEF Quiet
<1>5. \A u, v \in Thread : pc'[u] # "idle" /\ pc'[v] # "idle" => u = v
  BY <1>1
<1> QED BY <1>3, <1>4, <1>5 DEF Serial

(* Each step of a save or a delete on the store. *)
LEMMA StoreDisk ==
    ASSUME TypeInv, Serial, NEW t \in Thread, StoreStep(t)
    PROVE  Serial'
<1> USE DEF TypeInv, TypeOK, Goto, Done
<1>0. StoreEffect(t) /\ Progress(t)
  BY StoreSteps DEF Serial
<1>1. /\ t \in Writer /\ pc[t] \in Storing /\ pc[t] # "idle"
      /\ \A u \in Thread \ {t} : pc'[u] = pc[u]
  BY <1>0 DEF StoreEffect
<1> SUFFICES (pc'[t] = "idle" => AtRest') /\ Progress(t)'
  BY <1>1, SerialKept
<1>2. ASSUME AtRest, UNCHANGED <<mem, acked, store>>, faults' = faults \/ faults' = faults + 1
      PROVE  AtRest'
  BY <1>2, DefsAssumption DEF AtRest, Stranded
<1>3. CASE SaveTemp(t) \/ StatFile(t)
  <2>1. AtRest /\ AtRest' /\ UNCHANGED <<mem, acked, store>>
    BY <1>0, <1>2, <1>3 DEF SaveTemp, StatFile, Reject, Fault, Progress
  <2>2. pc'[t] \in {"idle", "stat", "place"} \/ (pc'[t] = "dropbak" /\ file # NoDef)
    BY <1>3 DEF SaveTemp, StatFile, Reject
  <2> QED BY <2>1, <2>2 DEF Progress, AtRest, Stranded
<1>4. CASE DropBackup(t)
  BY <1>0, <1>4 DEF DropBackup, Progress
<1>5. CASE BackupFile(t)
  BY <1>0, <1>2, <1>5 DEF BackupFile, Reject, Fault, Progress, AtRest
<1>6. CASE ReplaceFile(t)
  BY <1>0, <1>6, DefsAssumption DEF ReplaceFile, Fault, Progress
<1>7. CASE RestoreFile(t)
  <2>1. pc'[t] = "idle" /\ UNCHANGED <<mem, acked>>
    BY <1>7 DEF RestoreFile
  <2>2. \/ file' = bak
        \/ UNCHANGED store /\ faults' = faults + 1
    BY <1>0, <1>7 DEF RestoreFile, Fault, Progress
  <2>3. AtRest'
    BY <1>0, <1>7, <2>1, <2>2, DefsAssumption DEF RestoreFile, Progress, AtRest, Stranded
  <2> QED BY <2>1, <2>3 DEF Progress
<1>8. CASE CleanupBackup(t)
  BY <1>0, <1>8 DEF CleanupBackup, Progress
<1>9. CASE PlaceFile(t) \/ RemoveFile(t)
  <2>1. CASE Reject(t) /\ UNCHANGED store
    <3>1. AtRest' /\ pc'[t] = "idle"
      BY <1>0, <1>2, <1>9, <2>1 DEF PlaceFile, RemoveFile, Reject, Fault, Progress
    <3> QED BY <3>1 DEF Progress
  <2>2. CASE ~(Reject(t) /\ UNCHANGED store)
    <3>1. /\ pc'[t] \in {"commit", "forget"} /\ file' = req[t] /\ req' = req
          /\ UNCHANGED <<mem, acked>>
      BY <1>9, <2>2 DEF PlaceFile, RemoveFile, Owned
    <3>2. mem = acked
      BY <1>0, <1>9 DEF PlaceFile, RemoveFile, Progress, AtRest
    <3> QED BY <3>1, <3>2 DEF Progress
  <2> QED BY <2>1, <2>2
<1>10. CASE CommitSet(t)
  BY <1>0, <1>1, <1>10 DEF CommitSet, Progress
<1> QED BY <1>3, <1>4, <1>5, <1>6, <1>7, <1>8, <1>9, <1>10 DEF StoreStep

(* The steps after the commit: the answer promises what both hold. *)
LEMMA ScheduleDisk ==
    ASSUME TypeInv, Serial, NEW t \in Thread,
           RestartScheduler(t) \/ SpawnScheduler(t) \/ Unregister(t) \/ CommitDelete(t)
    PROVE  Serial'
<1> USE DEF TypeInv, TypeOK, Goto, Done
<1>0. Progress(t)
  BY DEF Serial
<1>1. /\ pc[t] \in {"restart", "forget"} \cup Holding /\ file' = file
      /\ mem' = IF pc[t] = "forget" THEN NoDef ELSE mem
      /\ \/ pc'[t] = "idle" /\ Answer(t)
         \/ pc'[t] \in Holding /\ UNCHANGED <<req, acked>> /\ pc[t] # "forget"
      /\ \A u \in Thread \ {t} : pc'[u] = pc[u]
  BY DEF RestartScheduler, SpawnScheduler, Unregister, CommitDelete
<1>2. pc[t] = "forget" => t \in Writer /\ req[t] = NoDef
  BY DefsAssumption DEF Owned, Thread
<1>3. CASE pc'[t] = "idle" /\ Answer(t)
  <2>1. AtRest'
    BY <1>0, <1>1, <1>2, <1>3 DEF Answer, Progress, AtRest
  <2> QED BY <1>1, <1>3, <2>1, SerialKept DEF Progress
<1>4. CASE pc'[t] \in Holding /\ UNCHANGED <<req, acked>> /\ pc[t] # "forget"
  <2>1. Progress(t)'
    BY <1>0, <1>1, <1>4 DEF Progress
  <2> QED BY <1>1, <1>4, <2>1, SerialKept
<1> QED BY <1>1, <1>3, <1>4

(* A request begins when all is quiet, or overlaps. *)
LEMMA BeginDisk ==
    ASSUME TypeInv, Serial, NEW t \in Writer, SetRequest(t) \/ DeleteRequest(t)
    PROVE  overlapped' \/ Serial'
<1> USE DEF TypeInv, TypeOK
<1>1. CASE ~Quiet
  BY <1>1 DEF SetRequest, DeleteRequest, Begin
<1>2. CASE Quiet
  <2>1. PICK p \in {"save", "remove"} :
           /\ pc' = [pc EXCEPT ![t] = p] /\ t \in Thread
           /\ UNCHANGED <<mem, acked, store, faults>>
    BY DEF SetRequest, DeleteRequest, Begin, Goto, Thread
  <2>2. AtRest /\ AtRest'
    BY <1>2, <2>1 DEF Serial, AtRest, Stranded
  <2>3. pc'[t] = p /\ \A u \in Thread \ {t} : pc'[u] = "idle"
    BY <1>2, <2>1 DEF Quiet
  <2>4. \A u \in Thread : Progress(u)'
    BY <2>2, <2>3 DEF Progress
  <2> QED BY <2>2, <2>3, <2>4 DEF Serial
<1> QED BY <1>1, <1>2

(* The goroutines touch neither; BindServer finds the map as it was        *)
(* loaded; and a restart loads it.                                         *)
LEMMA ProcessDisk ==
    ASSUME TypeInv, overlapped \/ Serial,
           (\E s \in Sched : StopScheduler(s)) \/ StartSchedulers \/ Restart \/ UNCHANGED vars
    PROVE  overlapped' \/ Serial'
<1> USE DEF TypeInv, TypeOK
<1>1. CASE (\E s \in Sched : StopScheduler(s)) \/ UNCHANGED vars
  <2>1. UNCHANGED <<mem, acked, store, faults, overlapped, pc, req>>
    BY <1>1 DEF StopScheduler, vars
  <2>2. AtRest' <=> AtRest
    BY <2>1 DEF AtRest, Stranded
  <2>3. \A t \in Thread : Progress(t)' <=> Progress(t)
    BY <2>1, <2>2 DEF Progress
  <2> QED BY <2>1, <2>2, <2>3 DEF Serial, Quiet
<1>2. CASE StartSchedulers
  <2>1. /\ UNCHANGED <<mem, acked, store, faults, overlapped, req>>
        /\ \A u \in Thread : pc[u] = "idle"
        /\ \A u \in Thread : pc'[u] = "idle" \/ (u = Binder /\ pc'[u] = "restart" /\ mem # NoDef)
    BY <1>2 DEF StartSchedulers, Unbound, Quiet, Goto
  <2>2. ASSUME Serial PROVE Serial'
    <3>1. mem' = acked' /\ mem' = file'
      BY <1>2, <2>1, <2>2 DEF StartSchedulers, Unbound, Serial, Quiet, AtRest
    <3>2. \A u \in Thread : Progress(u)'
      BY <2>1, <3>1, DefsAssumption DEF Progress
    <3> QED BY <2>1, <3>1, <3>2 DEF Serial, AtRest
  <2> QED BY <2>1, <2>2
<1>3. CASE Restart
  <2>1. /\ mem' = file' /\ acked' = file'
        /\ \A u \in Thread : pc'[u] = "idle"
    BY <1>3 DEF Restart, Loaded
  <2> QED BY <2>1 DEF Serial, Quiet, Progress, AtRest
<1> QED BY <1>1, <1>2, <1>3

(* The inductive step. *)
LEMMA StepDisk == DiskInv /\ [Next]_vars => DiskInv'
<1> SUFFICES ASSUME DiskInv, [Next]_vars PROVE DiskInv'
  OBVIOUS
<1>0. TypeInv /\ TypeInv' /\ (overlapped \/ Serial)
  BY StepType DEF DiskInv
<1>1. ASSUME overlapped, ~((\E s \in Sched : StopScheduler(s)) \/ StartSchedulers \/ Restart)
      PROVE  overlapped'
  <2>1. ASSUME NEW t \in Thread, StoreStep(t) PROVE overlapped' = overlapped
    BY <1>0, <2>1, StoreSteps DEF StoreEffect
  <2>2. ASSUME NEW t \in Thread,
               RestartScheduler(t) \/ SpawnScheduler(t) \/ Unregister(t) \/ CommitDelete(t)
        PROVE  overlapped' = overlapped
    BY <2>2 DEF RestartScheduler, SpawnScheduler, Unregister, CommitDelete
  <2>3. ASSUME NEW t \in Writer, SetRequest(t) \/ DeleteRequest(t)
        PROVE  overlapped'
    BY <1>1, <2>3 DEF SetRequest, DeleteRequest, Begin
  <2>4. ASSUME UNCHANGED vars PROVE overlapped' = overlapped
    BY <2>4 DEF vars
  <2> QED BY <1>1, <2>1, <2>2, <2>3, <2>4, StepCases
<1>2. overlapped' \/ Serial'
  BY <1>0, <1>1, StepCases, StoreDisk, ScheduleDisk, BeginDisk, ProcessDisk
<1> QED BY <1>0, <1>2 DEF DiskInv

(* Initially the map is as it was loaded. *)
LEMMA InitDisk == Init => DiskInv
<1> SUFFICES ASSUME Init PROVE DiskInv
  OBVIOUS
<1>1. mem = file /\ acked = file /\ \A u \in Thread : pc[u] = "idle"
  BY DEF Init
<1> QED BY <1>1, InitType DEF DiskInv, Serial, Quiet, Progress, AtRest

(* After requests that did not overlap, the map, the file and the last     *)
(* answer agree, whatever the store refused, short of both renames of one  *)
(* save: MemoryMatchesDisk.                                                *)
THEOREM MapAndFileAgree == Spec => []MemoryMatchesDisk
<1>1. DiskInv => MemoryMatchesDisk
  BY DEF DiskInv, Serial, AtRest, MemoryMatchesDisk
<1> QED BY <1>1, InitDisk, StepDisk, PTL DEF Spec

(* What a step that is a crash does: it comes back with a definition that  *)
(* was promised, outside the window between the two renames.               *)
LEMMA CrashStep ==
    ASSUME DiskInv, [Next]_vars, crashes' # crashes, ~Overwriting, ~overlapped
    PROVE  mem' \in Promised \/ (Stranded /\ mem' = NoDef)
<1> USE DEF DiskInv, TypeInv, TypeOK
<1>1. Restart
  <2>1. ASSUME NEW t \in Thread, StoreStep(t) PROVE crashes' = crashes
    BY <2>1, StoreSteps DEF StoreEffect
  <2>2. ASSUME NEW t \in Thread,
               RestartScheduler(t) \/ SpawnScheduler(t) \/ Unregister(t) \/ CommitDelete(t)
        PROVE  crashes' = crashes
    BY <2>2 DEF RestartScheduler, SpawnScheduler, Unregister, CommitDelete
  <2>3. ASSUME NEW t \in Writer, SetRequest(t) \/ DeleteRequest(t)
        PROVE  crashes' = crashes
    BY <2>3 DEF SetRequest, DeleteRequest, Begin
  <2>4. ASSUME (\E s \in Sched : StopScheduler(s)) \/ StartSchedulers \/ UNCHANGED vars
        PROVE  crashes' = crashes
    BY <2>4 DEF StopScheduler, StartSchedulers, vars
  <2> QED BY <2>1, <2>2, <2>3, <2>4, StepCases
<1>2. mem' = file
  BY <1>1 DEF Restart, Loaded
<1>3. Serial
  OBVIOUS
<1>4. CASE AtRest
  BY <1>2, <1>4 DEF AtRest, Stranded, Promised
<1>5. CASE ~AtRest
  <2>1. PICK t \in Thread : pc[t] # "idle"
    BY <1>3, <1>5 DEF Serial, Quiet
  <2>2. Progress(t)
    BY <1>3 DEF Serial
  <2>3. pc[t] \notin {"replace", "restore"}
    BY DefsAssumption DEF Overwriting, Owned, Thread
  <2>4. t \in Writer \/ (t = Binder /\ pc[t] \in {"restart"} \cup Holding)
    BY <2>1 DEF Owned, Thread
  <2>5. file = req[t] /\ t \in Writer
    BY <1>5, <2>1, <2>2, <2>3, <2>4, DefsAssumption DEF Progress, AtRest
  <2> QED BY <1>2, <2>1, <2>5 DEF Promised
<1> QED BY <1>4, <1>5

(* A crash at any other moment loses no definition: CrashKeepsDefinition.  *)
THEOREM CrashesKeep == Spec => CrashKeepsDefinition
<1>1. DiskInv /\ [Next]_vars =>
        [crashes' # crashes /\ ~Overwriting /\ ~overlapped =>
          mem' \in Promised \/ (Stranded /\ mem' = NoDef)]_vars
  BY CrashStep
<1> QED BY <1>1, InitDisk, StepDisk, PTL DEF Spec, CrashKeepsDefinition

=============================================================================
