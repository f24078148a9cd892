------------------------- MODULE FlowTriggersProofs -------------------------
(***************************************************************************)
(* Proofs about the dedup window of FlowTriggers.  The inductive invariant *)
(* relates the records the code keeps (seen) to what really was started    *)
(* (last): a record is a start, and a start that is still in the window is *)
(* on record.                                                              *)
(***************************************************************************)
EXTENDS FlowTriggers, TLAPS

Stamp == Time \cup {NoKey}

(* NoKey stands for "no time recorded" as well as for "no event".           *)
Types ==
    /\ def \in [Flow -> Def \cup {NoDef}]
    /\ seen \in [Flow -> [Key -> Stamp]]
    /\ last \in [Flow -> [Key -> Stamp]]
    /\ now \in Time
    /\ active \in [Flow -> 0..MaxRuns]
    /\ event \in [Handler -> Key \cup {NoKey}]
    /\ todo \in [Handler -> SUBSET Flow]
    /\ \A h \in Handler : todo[h] # {} => event[h] \in Key
    /\ \A f \in Flow, k \in Key : last[f][k] # NoKey => last[f][k] <= now

RecordsAreStarts ==
    \A f \in Flow, k \in Key : seen[f][k] # NoKey => last[f][k] = seen[f][k]

StartsOnRecord ==
    \A f \in Flow, k \in Key :
        def[f] # NoDef /\ Recent(f, k) => seen[f][k] = last[f][k]

NoWindowNoRecord ==
    \A f \in Flow, k \in Key :
        def[f] # NoDef /\ Window[def[f]] = 0 => seen[f][k] = NoKey

DedupInv ==
    Types /\ RecordsAreStarts /\ StartsOnRecord /\ NoWindowNoRecord

(* Initially nothing was started and nothing is on record.                  *)
LEMMA DedupInit == Init => DedupInv
  BY TriggersAssumption DEF Init, DedupInv, Types, RecordsAreStarts,
     StartsOnRecord, NoWindowNoRecord, Recent, NoneSeen, Stamp, Time

(* A set or delete forgets the records and starts of its flow together.     *)
LEMMA CommitStep ==
  ASSUME DedupInv, NEW f \in Flow, NEW d \in Def \cup {NoDef}, Commit(f, d)
  PROVE  DedupInv'
  <1>1. Types'
    BY DEF DedupInv, Types, Commit, NoneSeen, Stamp
  <1>2. RecordsAreStarts'
    BY DEF DedupInv, Types, RecordsAreStarts, Commit, NoneSeen
  <1>3. StartsOnRecord'
    BY DEF DedupInv, Types, StartsOnRecord, Recent, Commit, NoneSeen
  <1>4. NoWindowNoRecord'
    BY DEF DedupInv, Types, NoWindowNoRecord, Commit, NoneSeen
  <1>. QED BY <1>1, <1>2, <1>3, <1>4 DEF DedupInv

(* Time only makes fewer starts recent.                                     *)
LEMMA TickStep == ASSUME DedupInv, Tick PROVE DedupInv'
  <1>1. RecordsAreStarts' /\ NoWindowNoRecord'
    BY DEF DedupInv, RecordsAreStarts, NoWindowNoRecord, Tick
  <1>3. Types'
    BY TriggersAssumption DEF DedupInv, Types, Stamp, Tick, Time
  <1>2. StartsOnRecord'
    <2>. SUFFICES ASSUME NEW f \in Flow, NEW k \in Key,
                         def[f] # NoDef, Recent(f, k)'
                  PROVE  seen[f][k] = last[f][k]
      BY DEF StartsOnRecord, Tick
    <2>1. last[f][k] \in Time /\ now \in Time /\ Window[def[f]] \in Nat
      BY TriggersAssumption DEF DedupInv, Types, Stamp, Recent, Tick
    <2>2. Recent(f, k)
      BY <2>1 DEF Recent, Tick, Time
    <2>. QED BY <2>2 DEF DedupInv, StartsOnRecord
  <1>. QED BY <1>1, <1>2, <1>3 DEF DedupInv

(* The end of a run and the selection of flows touch neither.               *)
LEMMA QuietStep ==
  ASSUME DedupInv,
         \/ \E f \in Flow : EndRun(f)
         \/ \E h \in Handler, k \in Key : Collect(h, k)
  PROVE  DedupInv'
  <1>1. Types'
    <2>1. ASSUME NEW f \in Flow, EndRun(f) PROVE Types'
      <3>1. active' \in [Flow -> 0..MaxRuns]
        BY <2>1, TriggersAssumption DEF DedupInv, Types, EndRun
      <3>. QED BY <2>1, <3>1 DEF DedupInv, Types, EndRun
    <2>2. ASSUME NEW h \in Handler, NEW k \in Key, Collect(h, k)
          PROVE  Types'
      BY <2>2 DEF DedupInv, Types, Collect
    <2>. QED BY <2>1, <2>2
  <1>2. UNCHANGED <<def, seen, now, last>>
    BY DEF EndRun, Collect
  <1>. QED BY <1>1, <1>2
           DEF DedupInv, RecordsAreStarts, StartsOnRecord,
               NoWindowNoRecord, Recent

(* What is in the window is on record exactly if it really was started.     *)
LEMMA FreshIsRecent ==
  ASSUME DedupInv, NEW f \in Flow, NEW k \in Key, def[f] # NoDef
  PROVE  /\ Fresh(f)[k] # NoKey <=> Recent(f, k)
         /\ Fresh(f)[k] # NoKey => Fresh(f)[k] = last[f][k]
         /\ Fresh(f) \in [Key -> Stamp]
  <1>1. Fresh(f)[k] = IF seen[f][k] # NoKey /\ seen[f][k] + Window[def[f]] > now
                      THEN seen[f][k] ELSE NoKey
    BY DEF Fresh
  <1>2. seen[f][k] \in Stamp /\ last[f][k] \in Stamp /\ now \in Time
    BY DEF DedupInv, Types
  <1>3. Window[def[f]] \in Nat
    BY TriggersAssumption DEF DedupInv, Types
  <1>4. Fresh(f)[k] # NoKey <=> Recent(f, k)
    <2>1. seen[f][k] # NoKey => last[f][k] = seen[f][k]
      BY DEF DedupInv, RecordsAreStarts
    <2>2. Recent(f, k) => seen[f][k] = last[f][k]
      BY DEF DedupInv, StartsOnRecord
    <2>. QED BY <1>1, <1>2, <1>3, <2>1, <2>2 DEF Recent, Stamp, Time
  <1>5. Fresh(f)[k] # NoKey => Fresh(f)[k] = last[f][k]
    BY <1>1 DEF DedupInv, RecordsAreStarts
  <1>6. Fresh(f) \in [Key -> Stamp]
    <2>1. seen[f] \in [Key -> Stamp]
      BY DEF DedupInv, Types
    <2>. QED BY <2>1 DEF Fresh, Stamp
  <1>. QED BY <1>4, <1>5, <1>6

(* prepareQueuedRunLocked keeps records and starts in agreement: whether it *)
(* is refused by the limit, suppressed by the window, or starts.            *)
LEMMA PrepareStep ==
  ASSUME DedupInv, NEW h \in Handler, NEW f \in todo[h], def[f] # NoDef,
         PrepareQueuedRun(f, event[h]),
         UNCHANGED <<def, now>>
  PROVE  /\ seen' \in [Flow -> [Key -> Stamp]]
         /\ last' \in [Flow -> [Key -> Stamp]]
         /\ \A g \in Flow, j \in Key :
               last'[g][j] # NoKey => last'[g][j] <= now
         /\ active' \in [Flow -> 0..MaxRuns]
         /\ RecordsAreStarts' /\ StartsOnRecord' /\ NoWindowNoRecord'
  <1>. DEFINE k == event[h]
  <1>1. f \in Flow /\ k \in Key /\ now \in Time /\ def[f] \in Def
    BY DEF DedupInv, Types
  <1>2. Window[def[f]] \in Nat
    BY <1>1, TriggersAssumption
  <1>3. \A j \in Key : /\ Fresh(f)[j] # NoKey <=> Recent(f, j)
                       /\ Fresh(f)[j] # NoKey => Fresh(f)[j] = last[f][j]
    BY <1>1, FreshIsRecent
  <1>4. Fresh(f) \in [Key -> Stamp]
    BY <1>1, FreshIsRecent
  <1>. HIDE DEF k
  <1>5. CASE UNCHANGED <<seen, active, last>>
    BY <1>5 DEF DedupInv, Types, RecordsAreStarts, StartsOnRecord,
                NoWindowNoRecord, Recent
  <1>6. CASE /\ seen' = [seen EXCEPT ![f] = Fresh(f)]
             /\ UNCHANGED <<active, last>>
             /\ Duplicate(f, k)
    <2>1. seen' \in [Flow -> [Key -> Stamp]]
      BY <1>1, <1>4, <1>6 DEF DedupInv, Types
    <2>2. \A j \in Key : seen'[f][j] = Fresh(f)[j]
      BY <1>1, <1>6 DEF DedupInv, Types
    <2>3. \A g \in Flow \ {f} : seen'[g] = seen[g]
      BY <1>6 DEF DedupInv, Types
    <2>. QED BY <1>1, <1>3, <1>6, <2>1, <2>2, <2>3
             DEF DedupInv, Types, RecordsAreStarts, StartsOnRecord,
                 NoWindowNoRecord, Recent, Duplicate
  <1>7. CASE seen' = Recorded(f, k) /\ Begin(f, k)
    <2>1. /\ last' = [last EXCEPT ![f] = [last[f] EXCEPT ![k] = now]]
          /\ last' \in [Flow -> [Key -> Stamp]]
          /\ \A g \in Flow, j \in Key :
                last'[g][j] # NoKey => last'[g][j] <= now
          /\ active' \in [Flow -> 0..MaxRuns]
      BY <1>1, <1>7, TriggersAssumption
         DEF DedupInv, Types, Begin, Stamp, Time
    <2>2. CASE Window[def[f]] = 0
      <3>1. seen' = seen
        BY <1>7, <2>2 DEF Recorded
      <3>2. \A j \in Key : seen[f][j] = NoKey
        BY <1>1, <2>2 DEF DedupInv, Types, NoWindowNoRecord, Stamp
      <3>3. \A j \in Key : ~Recent(f, j)'
        BY <1>1, <2>1, <2>2 DEF Recent, Time, Stamp
      <3>4. \A g \in Flow \ {f} : last'[g] = last[g]
        BY <2>1 DEF DedupInv, Types
      <3>. QED BY <1>1, <2>1, <3>1, <3>2, <3>3, <3>4
               DEF DedupInv, Types, RecordsAreStarts, StartsOnRecord,
                   NoWindowNoRecord, Recent
    <2>3. CASE Window[def[f]] # 0
      <3>1. seen' = [seen EXCEPT ![f] = [Fresh(f) EXCEPT ![k] = now]]
        BY <1>7, <2>3 DEF Recorded
      <3>2. seen' \in [Flow -> [Key -> Stamp]]
        BY <1>1, <1>4, <3>1 DEF DedupInv, Types, Stamp
      <3>3. /\ seen'[f][k] = now /\ last'[f][k] = now
            /\ \A j \in Key \ {k} : /\ seen'[f][j] = Fresh(f)[j]
                                    /\ last'[f][j] = last[f][j]
        BY <1>1, <1>4, <2>1, <3>1 DEF DedupInv, Types
      <3>4. \A g \in Flow \ {f} : seen'[g] = seen[g] /\ last'[g] = last[g]
        BY <2>1, <3>1 DEF DedupInv, Types
      <3>5. RecordsAreStarts'
        BY <1>3, <3>2, <3>3, <3>4 DEF DedupInv, RecordsAreStarts
      <3>6. StartsOnRecord'
        BY <1>3, <3>3, <3>4 DEF DedupInv, StartsOnRecord, Recent
      <3>7. NoWindowNoRecord'
        BY <2>3, <3>4 DEF DedupInv, NoWindowNoRecord
      <3>. QED BY <2>1, <3>2, <3>5, <3>6, <3>7
    <2>. QED BY <2>2, <2>3
  <1>. QED BY <1>5, <1>6, <1>7 DEF PrepareQueuedRun, k

(* So does tryStartRunWithTrigger, whether the flow is still there or not.  *)
LEMMA TryStartStep ==
  ASSUME DedupInv, NEW h \in Handler, NEW f \in Flow, TryStart(h, f)
  PROVE  DedupInv'
  <1>1. /\ def' = def /\ now' = now
        /\ event' \in [Handler -> Key \cup {NoKey}]
        /\ todo' \in [Handler -> SUBSET Flow]
        /\ \A g \in Handler : todo'[g] # {} => event'[g] \in Key
    BY DEF DedupInv, Types, TryStart
  <1>2. CASE def[f] = NoDef
    <2>1. UNCHANGED <<seen, active, last>>
      BY <1>2 DEF TryStart
    <2>. QED BY <1>1, <2>1
             DEF DedupInv, Types, RecordsAreStarts, StartsOnRecord,
                 NoWindowNoRecord, Recent
  <1>3. CASE def[f] # NoDef
    <2>1. PrepareQueuedRun(f, event[h]) /\ f \in todo[h]
      BY <1>3 DEF TryStart
    <2>2. /\ seen' \in [Flow -> [Key -> Stamp]]
          /\ last' \in [Flow -> [Key -> Stamp]]
          /\ \A g \in Flow, j \in Key :
                last'[g][j] # NoKey => last'[g][j] <= now
          /\ active' \in [Flow -> 0..MaxRuns]
          /\ RecordsAreStarts' /\ StartsOnRecord' /\ NoWindowNoRecord'
      BY <1>1, <1>3, <2>1, PrepareStep
    <2>3. def' \in [Flow -> Def \cup {NoDef}] /\ now' \in Time
      BY <1>1 DEF DedupInv, Types
    <2>. QED BY <1>1, <2>2, <2>3 DEF DedupInv, Types
  <1>. QED BY <1>2, <1>3

(* Every step keeps the invariant.                                          *)
LEMMA DedupInductive == DedupInv /\ [Next]_vars => DedupInv'
  <1>. SUFFICES ASSUME DedupInv, [Next]_vars PROVE DedupInv'
    OBVIOUS
  <1>1. CASE Tick
    BY <1>1, TickStep
  <1>2. CASE \E f \in Flow : SetFlow(f) \/ DeleteFlow(f)
    BY <1>2, CommitStep DEF SetFlow, DeleteFlow
  <1>3. CASE \/ \E f \in Flow : EndRun(f)
             \/ \E h \in Handler, k \in Key : Collect(h, k)
    BY <1>3, QuietStep
  <1>4. CASE \E h \in Handler, f \in Flow : TryStart(h, f)
    BY <1>4, TryStartStep
  <1>5. CASE UNCHANGED vars
    BY <1>5 DEF vars, DedupInv, Types, RecordsAreStarts, StartsOnRecord,
                NoWindowNoRecord, Recent
  <1>. QED BY <1>1, <1>2, <1>3, <1>4, <1>5 DEF Next

(* Records and starts agree in every state.                                 *)
LEMMA DedupInvariant == Spec => []DedupInv
  BY DedupInit, DedupInductive, PTL DEF Spec

(* A step in which a callback finishes with f is its TryStart(h, f).        *)
LEMMA FinishedByTryStart ==
  ASSUME DedupInv, [Next]_vars, NEW h \in Handler, NEW f \in todo[h] \ todo'[h]
  PROVE  TryStart(h, f)
  <1>1. f \in Flow
    BY DEF DedupInv, Types
  <1>2. ~ \E g \in Handler, k \in Key : Collect(g, k)
    <2>. SUFFICES ASSUME NEW g \in Handler, NEW k \in Key, Collect(g, k)
                  PROVE  FALSE
      OBVIOUS
    <2>1. g # h
      BY DEF Collect
    <2>. QED BY <2>1 DEF Collect, DedupInv, Types
  <1>3. todo' # todo
    OBVIOUS
  <1>4. \E g \in Handler, e \in Flow : TryStart(g, e)
    BY <1>2, <1>3 DEF Next, vars, Tick, SetFlow, DeleteFlow, Commit, EndRun
  <1>5. PICK g \in Handler, e \in Flow : TryStart(g, e)
    BY <1>4
  <1>6. g = h /\ e = f
    BY <1>5 DEF TryStart, DedupInv, Types
  <1>. QED BY <1>5, <1>6

(* Lemma: what one step may start and may suppress.                         *)
LEMMA StepRespectsWindow ==
  ASSUME DedupInv, [Next]_vars, NEW h \in Handler, NEW f \in Flow
  PROVE  /\ Starts(h, f) => ~Recent(f, event[h])
         /\ Suppresses(h, f) => Recent(f, event[h])
  <1>. SUFFICES ASSUME f \in todo[h] \ todo'[h]
                PROVE  /\ active'[f] > active[f] => ~Recent(f, event[h])
                       /\ /\ def[f] # NoDef /\ ~AtLimit(f)
                          /\ active'[f] = active[f]
                          => Recent(f, event[h])
    BY DEF Starts, Suppresses
  <1>1. TryStart(h, f)
    BY FinishedByTryStart
  <1>2. event[h] \in Key /\ active[f] \in Nat
    BY DEF DedupInv, Types
  <1>3. CASE def[f] = NoDef
    BY <1>1, <1>2, <1>3 DEF TryStart
  <1>4. CASE def[f] # NoDef
    <2>1. PrepareQueuedRun(f, event[h])
      BY <1>1, <1>4 DEF TryStart
    <2>2. Fresh(f)[event[h]] # NoKey <=> Recent(f, event[h])
      BY <1>2, <1>4, FreshIsRecent
    <2>3. Recent(f, event[h]) => Window[def[f]] > 0
      BY <1>4, <1>2, TriggersAssumption
         DEF DedupInv, Types, Recent, Stamp, Time
    <2>4. Begin(f, event[h]) => active'[f] = active[f] + 1
      BY <1>2 DEF Begin, DedupInv, Types
    <2>. QED BY <1>2, <2>1, <2>2, <2>3, <2>4
             DEF PrepareQueuedRun, Duplicate
  <1>. QED BY <1>3, <1>4

(* However the event callbacks, set and delete commits and run ends         *)
(* interleave, prepareQueuedRunLocked starts no run of a definition for an  *)
(* event that started one less than a window ago.                           *)
THEOREM DedupCorrect == Spec => DedupHolds
  <1>1. DedupInv /\ [Next]_vars =>
           [\A h \in Handler, f \in Flow :
               Starts(h, f) => ~Recent(f, event[h])]_vars
    BY StepRespectsWindow
  <1>. QED BY <1>1, DedupInvariant, PTL DEF Spec, DedupHolds

(* checkAndRecordTriggerDedupLocked suppresses only true duplicates: a run  *)
(* of the same definition started for the same event within the window.     *)
THEOREM SuppressionCorrect == Spec => NothingSwallowed
  <1>1. DedupInv /\ [Next]_vars =>
           [\A h \in Handler, f \in Flow :
               Suppresses(h, f) => Recent(f, event[h])]_vars
    BY StepRespectsWindow
  <1>. QED BY <1>1, DedupInvariant, PTL DEF Spec, NothingSwallowed
=============================================================================
