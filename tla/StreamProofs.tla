---------------------------- MODULE StreamProofs ----------------------------
(***************************************************************************)
(* Proofs about Stream, for every tree, every set of sources and endpoints *)
(* and any number of goroutines, disconnects and withdrawals.              *)
(***************************************************************************)
EXTENDS Stream, TLAPS

(* Where a task that withdraws is.                                         *)
Ending == {"end", "tellC", "tellP", "tellK"}
Role == {"producer", "consumer", "both"}

Belongs(d, o) == info[d] # None /\ o \in {info[d].source, info[d].endpoint}
Holds(d, o) == (IF o \in Source THEN pd[d] ELSE cd[d]) # "none"
In(d, o) == Announced(o) /\ d \in entries[o]

(* A withdrawal that has still to close d's own side.                      *)
Covers(t, d, o) == owned[t] = o /\ (d \in todo[t] \/ (d = cur[t] /\ pc[t] = "end"))

TableType ==
    /\ entries \in [Owned -> (SUBSET Delivery) \cup {None}]
    /\ pd \in [Delivery -> State] /\ cd \in [Delivery -> State]
    /\ info \in [Delivery -> Info \cup {None}]

TaskType ==
    /\ pc \in [Task -> Place] /\ DOMAIN node = Task
    /\ cur \in [Task -> Delivery \cup {None}] /\ todo \in [Task -> SUBSET Delivery]
    /\ owned \in [Task -> Owned \cup {None}]

(* Only deliveries that have been given out are spoken of.                 *)
FrameOK(f) ==
    \/ /\ f.kind = "connect" /\ DOMAIN f = {"kind", "to", "req"}
       /\ f.to \in Node /\ f.req \in Connect
    \/ /\ f.kind = "disconnect" /\ DOMAIN f = {"kind", "to", "by", "d"}
       /\ f.to \in Node /\ f.d \in known
    \/ /\ f.kind = "request"
       /\ DOMAIN f = {"kind", "to", "target", "from", "act", "role", "d", "closeRoute", "task"}
       /\ f.from \in Node /\ f.d \in Delivery /\ info[f.d] # None
       /\ f.act \in Acts /\ f.role \in Role /\ (f.role = "both" => f.act = "close")
    \/ f.kind = "answer" /\ f.to \in Node /\ f.d \in Delivery /\ info[f.d] # None

TaskOK(t) ==
    /\ pc[t] # "idle" => node[t] \in Node /\ cur[t] \in Delivery /\ info[cur[t]] # None
    /\ owned[t] = None => todo[t] = {}
    /\ pc[t] \in Ending <=> owned[t] # None
    /\ owned[t] # None => /\ node[t] = OwnerOf[owned[t]]
                          /\ \A d \in todo[t] \cup {cur[t]} : Belongs(d, owned[t])

Frames == \A f \in net : FrameOK(f)
Callers == waiting \subseteq Task /\ \A t \in waiting : pc[t] \in Call
Tasks == \A t \in Task : TaskOK(t)
Issued == known \subseteq Delivery /\ \A d \in known : info[d] # None
Unissued == \A d \in Delivery : info[d] = None => pd[d] = "none" /\ cd[d] = "none"
Listing == \A o \in Owned : Announced(o) => \A d \in entries[o] : Belongs(d, o)
Reached ==
    \A d \in Delivery, o \in Owned :
        Belongs(d, o) /\ Holds(d, o) => In(d, o) \/ \E t \in Task : Covers(t, d, o)

CatalogInv ==
    /\ TableType /\ TaskType
    /\ Frames /\ Callers /\ Tasks /\ Issued /\ Unissued /\ Listing /\ Reached

USE DEF state, waits, place, bound

-----------------------------------------------------------------------------
(* The chains of calls. *)

(* The names of the calls. *)
LEMMA CallNames ==
    Call = {"prepP", "prepC", "undoP", "actP", "dropP", "dropC", "actC", "backP",
            "shutP", "shutC", "tellC", "tellP", "tellK"}
  BY DEF Call, Calls

(* What is asked, where the next call is, and that a withdrawal stays one. *)
LEMMA CallTable ==
    ASSUME NEW p \in Call
    PROVE  /\ Calls[p].act \in Acts /\ Calls[p].role \in Role
           /\ Calls[p].role = "both" => Calls[p].act = "close"
           /\ \A there \in {Calls[p].ok, Calls[p].err} :
                 /\ there \in Place
                 /\ p \in Ending => there \in {"end", "tellK"}
                 /\ p \notin Ending => there \notin Ending
  BY CallNames DEF Calls, Acts, Role, Place, Ending

-----------------------------------------------------------------------------
(* Tasks. *)

(* A task goes on, and no other does. *)
LEMMA GoesOnAlone ==
    ASSUME TaskType, NEW t \in Task, NEW there, GoesOn(t, there)
    PROVE  \A u \in Task \ {t} : /\ pc'[u] = pc[u] /\ node'[u] = node[u] /\ cur'[u] = cur[u]
                                /\ todo'[u] = todo[u] /\ owned'[u] = owned[u]
<1>1. \/ Finishes(t)
      \/ TakesNext(t, todo[t])
      \/ pc' = [pc EXCEPT ![t] = there] /\ UNCHANGED <<node, cur, todo, owned>>
  BY DEF GoesOn
<1> QED BY <1>1 DEF Finishes, TakesNext, TaskType

(* A task that goes on finishes, takes the next delivery it has to end, or *)
(* moves to the next place.                                                *)
LEMMA GoesOnWays ==
    ASSUME TaskType, Tasks, NEW t \in Task, NEW there \in Place, pc[t] # "idle",
           owned[t] # None => there \in Ending,
           owned[t] = None => there \notin Ending,
           GoesOn(t, there)
    PROVE  \/ Finishes(t) /\ todo[t] = {}
           \/ \E d \in todo[t] :
                 /\ cur' = [cur EXCEPT ![t] = d] /\ todo' = [todo EXCEPT ![t] = todo[t] \ {d}]
                 /\ pc' = [pc EXCEPT ![t] = "end"]
                 /\ UNCHANGED <<node, owned>>
                 /\ owned[t] # None
           \/ /\ pc' = [pc EXCEPT ![t] = there] /\ UNCHANGED <<node, cur, todo, owned>>
<1>1. there = "idle" => owned[t] = None
  BY DEF Ending
<1>2. owned[t] = None => todo[t] = {}
  BY DEF Tasks, TaskOK
<1>3. CASE there = "idle"
  BY <1>1, <1>2, <1>3 DEF GoesOn
<1>4. CASE there # "idle" /\ (there = "end" \/ (there = "tellK" /\ ~ThirdCoordinator(cur[t])))
  BY <1>2, <1>4 DEF GoesOn, TakesNext
<1>5. CASE there # "idle" /\ ~ (there = "end" \/ (there = "tellK" /\ ~ThirdCoordinator(cur[t])))
  BY <1>5 DEF GoesOn
<1> QED BY <1>3, <1>4, <1>5

(* A task goes on: what it has still to close itself stays with it, but    *)
(* for the delivery whose side it has just closed.                         *)
LEMMA TaskGoesOn ==
    ASSUME TaskType, Tasks, NEW t \in Task, NEW there \in Place, pc[t] # "idle",
           owned[t] # None => there \in Ending,
           owned[t] = None => there \notin Ending,
           GoesOn(t, there), UNCHANGED info
    PROVE  /\ TaskType' /\ Tasks'
           /\ \A u \in Task, d \in Delivery, o \in Owned :
                 Covers(u, d, o) /\ ~ (u = t /\ d = cur[t] /\ pc[t] = "end") => Covers(u, d, o)'
<1>1. \/ Finishes(t) /\ todo[t] = {}
      \/ \E d \in todo[t] :
            /\ cur' = [cur EXCEPT ![t] = d] /\ todo' = [todo EXCEPT ![t] = todo[t] \ {d}]
            /\ pc' = [pc EXCEPT ![t] = "end"]
            /\ UNCHANGED <<node, owned>>
            /\ owned[t] # None
      \/ /\ pc' = [pc EXCEPT ![t] = there] /\ UNCHANGED <<node, cur, todo, owned>>
  BY GoesOnWays
<1>2. CASE Finishes(t) /\ todo[t] = {}
  <2>0. /\ pc' = [pc EXCEPT ![t] = "idle"] /\ node' = [node EXCEPT ![t] = None]
        /\ cur' = [cur EXCEPT ![t] = None] /\ owned' = [owned EXCEPT ![t] = None]
        /\ UNCHANGED todo
    BY <1>2 DEF Finishes
  <2>1. TaskType'
    BY <2>0 DEF TaskType, Place
  <2>2. TaskOK(t)'
    BY <1>2, <2>0 DEF TaskType, TaskOK, Ending
  <2>3. ASSUME NEW u \in Task, u # t PROVE TaskOK(u)'
    <3>1. TaskOK(u)
      BY DEF Tasks
    <3>2. pc'[u] = pc[u] /\ node'[u] = node[u] /\ cur'[u] = cur[u] /\ owned'[u] = owned[u]
          /\ todo'[u] = todo[u]
      BY <2>0, <2>3 DEF TaskType
    <3> QED BY <3>1, <3>2 DEF TaskOK, Belongs
  <2>4. ASSUME NEW u \in Task, NEW d \in Delivery, NEW o \in Owned,
               Covers(u, d, o), ~ (u = t /\ d = cur[t] /\ pc[t] = "end")
        PROVE  Covers(u, d, o)'
    BY <1>2, <2>0, <2>4 DEF Covers, TaskType
  <2> QED BY <2>1, <2>2, <2>3, <2>4 DEF Tasks
<1>3. ASSUME NEW e \in todo[t],
             cur' = [cur EXCEPT ![t] = e], todo' = [todo EXCEPT ![t] = todo[t] \ {e}],
             pc' = [pc EXCEPT ![t] = "end"], UNCHANGED <<node, owned>>, owned[t] # None
      PROVE  /\ TaskType' /\ Tasks'
             /\ \A u \in Task, d \in Delivery, o \in Owned :
                 Covers(u, d, o) /\ ~ (u = t /\ d = cur[t] /\ pc[t] = "end") => Covers(u, d, o)'
  <2>0. e \in Delivery
    BY DEF TaskType
  <2>1. TaskType'
    BY <1>3, <2>0 DEF TaskType, Place
  <2>2. TaskOK(t)'
    <3>1. TaskOK(t)
      BY DEF Tasks
    <3>2. pc'[t] = "end" /\ cur'[t] = e /\ todo'[t] = todo[t] \ {e}
      BY <1>3 DEF TaskType
    <3> QED BY <1>3, <2>0, <3>1, <3>2 DEF TaskOK, Ending, Belongs
  <2>3. ASSUME NEW u \in Task, u # t PROVE TaskOK(u)'
    <3>1. TaskOK(u)
      BY DEF Tasks
    <3>2. pc'[u] = pc[u] /\ cur'[u] = cur[u] /\ todo'[u] = todo[u]
      BY <1>3, <2>3 DEF TaskType
    <3> QED BY <1>3, <3>1, <3>2 DEF TaskOK, Belongs
  <2>4. ASSUME NEW u \in Task, NEW d \in Delivery, NEW o \in Owned,
               Covers(u, d, o), ~ (u = t /\ d = cur[t] /\ pc[t] = "end")
        PROVE  Covers(u, d, o)'
    BY <1>3, <2>4 DEF Covers, TaskType
  <2> QED BY <2>1, <2>2, <2>3, <2>4 DEF Tasks
<1>4. CASE /\ pc' = [pc EXCEPT ![t] = there] /\ UNCHANGED <<node, cur, todo, owned>>
  <2>1. TaskType'
    BY <1>4 DEF TaskType
  <2>2. TaskOK(t)'
    <3>1. TaskOK(t)
      BY DEF Tasks
    <3>2. pc'[t] = there
      BY <1>4 DEF TaskType
    <3> QED BY <1>4, <3>1, <3>2 DEF TaskOK, Belongs
  <2>3. ASSUME NEW u \in Task, u # t PROVE TaskOK(u)'
    <3>1. TaskOK(u)
      BY DEF Tasks
    <3>2. pc'[u] = pc[u]
      BY <1>4, <2>3 DEF TaskType
    <3> QED BY <1>4, <3>1, <3>2 DEF TaskOK, Belongs
  <2>4. ASSUME NEW u \in Task, NEW d \in Delivery, NEW o \in Owned,
               Covers(u, d, o), ~ (u = t /\ d = cur[t] /\ pc[t] = "end")
        PROVE  Covers(u, d, o)'
    BY <1>4, <2>4 DEF Covers, TaskType
  <2> QED BY <2>1, <2>2, <2>3, <2>4 DEF Tasks
<1> QED BY <1>1, <1>2, <1>3, <1>4

-----------------------------------------------------------------------------
(* The private requests. *)

(* What handling one leaves: every side that is held is listed, unless it  *)
(* was held unlisted before.                                               *)
LEMMA ApplyLists ==
    ASSUME TableType, Unissued, Listing, UNCHANGED info,
           NEW n, NEW act \in Acts, NEW role \in Role, role = "both" => act = "close",
           NEW d \in Delivery, info[d] # None, NEW closeRoute, Apply(n, act, role, d, closeRoute)
    PROVE  /\ TableType' /\ Unissued' /\ Listing'
           /\ \A e \in Delivery, o \in Owned :
                 Belongs(e, o) /\ Holds(e, o)' => In(e, o)' \/ (Holds(e, o) /\ ~In(e, o))
<1> DEFINE mine == Touches(n, role, d)
           Goal == /\ TableType' /\ Unissued' /\ Listing'
                   /\ \A e \in Delivery, o \in Owned :
                        Belongs(e, o) /\ Holds(e, o)' => In(e, o)' \/ (Holds(e, o) /\ ~In(e, o))
<1>1. CASE ~Accepts(n, act, role, d)
  <2>1. UNCHANGED <<entries, pd, cd>>
    BY <1>1 DEF Apply
  <2>2. TableType' /\ Unissued' /\ Listing'
    BY <2>1 DEF TableType, Unissued, Listing, Announced, Belongs
  <2>3. ASSUME NEW e \in Delivery, NEW o \in Owned, Holds(e, o)'
        PROVE  In(e, o)' \/ (Holds(e, o) /\ ~In(e, o))
    BY <2>1, <2>3 DEF Holds, In, Announced
  <2> QED BY <2>2, <2>3
<1>2. CASE Accepts(n, act, role, d)
  <2>1. /\ pd' = IF info[d].source \in mine THEN [pd EXCEPT ![d] = Becomes(act)] ELSE pd
        /\ cd' = IF info[d].endpoint \in mine THEN [cd EXCEPT ![d] = Becomes(act)] ELSE cd
        /\ entries' = [o \in Owned |->
              IF o \in mine /\ Announced(o) THEN Listed(o, act, d) ELSE entries[o]]
    BY <1>2 DEF Apply
  <2>2. info[d] \in Info /\ info[d].source \in Source /\ info[d].endpoint \in Endpoint
    BY DEF TableType, Info
  <2>3. mine \subseteq {info[d].source, info[d].endpoint}
    BY DEF Touches
  <2>4. act \in {"prepare", "activate"} => mine \subseteq {Side(role, d)}
    BY DEF Touches, Role
  <2>5. Becomes(act) \in State
    BY DEF Becomes, State, Acts
  <2>6. ASSUME NEW o \in Owned, Announced(o), o \in mine
        PROVE  Listed(o, act, d) \in SUBSET Delivery
    BY <2>6 DEF TableType, Announced, Listed, Acts
  <2> HIDE DEF mine
  <2>7. TableType'
    <3>1. entries' \in [Owned -> (SUBSET Delivery) \cup {None}]
      BY <2>1, <2>6 DEF TableType
    <3>2. pd' \in [Delivery -> State] /\ cd' \in [Delivery -> State]
      BY <2>1, <2>5 DEF TableType
    <3> QED BY <3>1, <3>2 DEF TableType
  <2>8. Unissued'
    BY <2>1 DEF Unissued, TableType
  <2>9. ASSUME NEW o \in Owned PROVE Announced(o)' <=> Announced(o)
    <3>1. ASSUME o \in mine, Announced(o) PROVE Announced(o)'
      <4>1. entries'[o] \in SUBSET Delivery
        BY <2>1, <2>6, <3>1
      <4> QED BY <4>1, StreamAssumption DEF Announced
    <3> QED BY <2>1, <3>1 DEF Announced
  <2>10. ASSUME NEW o \in Owned, Announced(o), NEW e \in entries'[o]
         PROVE  Belongs(e, o)'
    <3>1. e \in entries[o] \/ (e = d /\ o \in mine)
      BY <2>1, <2>10 DEF Listed, Acts
    <3> QED BY <2>3, <2>10, <3>1 DEF Listing, Belongs
  <2>11. Listing'
    BY <2>9, <2>10 DEF Listing
  <2>12. ASSUME NEW e \in Delivery, NEW o \in Owned, Belongs(e, o), Holds(e, o)'
         PROVE  In(e, o)' \/ (Holds(e, o) /\ ~In(e, o))
    <3>1. CASE e # d \/ o \notin mine
      <4>1. Holds(e, o)
        <5>1. ASSUME o \in Source PROVE pd'[e] = pd[e]
          BY <2>1, <2>2, <2>12, <3>1, <5>1, StreamAssumption DEF TableType, Belongs
        <5>2. ASSUME o \notin Source PROVE cd'[e] = cd[e]
          BY <2>1, <2>2, <2>12, <3>1, <5>2, StreamAssumption DEF TableType, Belongs, Owned
        <5> QED BY <2>12, <5>1, <5>2 DEF Holds
      <4>2. In(e, o) => In(e, o)'
        BY <2>1, <2>9, <3>1 DEF In, Listed, Acts
      <4> QED BY <4>1, <4>2
    <3>2. CASE e = d /\ o \in mine /\ act \in {"abort", "close"}
      <4>1. Becomes(act) = "none"
        BY <3>2 DEF Becomes
      <4>2. ~ Holds(e, o)'
        BY <2>1, <2>2, <2>3, <3>2, <4>1, StreamAssumption DEF TableType, Holds
      <4> QED BY <2>12, <4>2
    <3>3. CASE e = d /\ o \in mine /\ act = "prepare"
      <4>1. Announced(o)
        BY <1>2, <2>4, <3>3 DEF Accepts
      <4>2. d \in entries'[o]
        BY <2>1, <3>3, <4>1 DEF Listed
      <4> QED BY <2>9, <3>3, <4>1, <4>2 DEF In
    <3>4. CASE e = d /\ o \in mine /\ act = "activate"
      <4>1. o = Side(role, d) /\ (IF role = "producer" THEN pd[d] ELSE cd[d]) # "none"
        BY <1>2, <2>4, <3>4 DEF Accepts
      <4>2. Holds(e, o)
        BY <2>2, <3>4, <4>1, StreamAssumption DEF Side, Holds
      <4>3. In(e, o) => In(e, o)'
        BY <2>1, <2>9, <3>4 DEF In, Listed
      <4> QED BY <4>2, <4>3
    <3> QED BY <3>1, <3>2, <3>3, <3>4 DEF Acts
  <2> QED BY <2>7, <2>8, <2>11, <2>12
<1> QED BY <1>1, <1>2

(* An owner that closes its own side no longer holds it. *)
LEMMA CloseEnds ==
    ASSUME TableType, NEW d \in Delivery, NEW o \in Owned, Belongs(d, o), NEW closeRoute,
           Apply(OwnerOf[o], "close", IF o \in Source THEN "producer" ELSE "consumer", d,
                 closeRoute)
    PROVE  ~ Holds(d, o)'
<1> DEFINE role == IF o \in Source THEN "producer" ELSE "consumer"
           mine == Touches(OwnerOf[o], role, d)
<1>1. info[d].source \in Source /\ info[d].endpoint \in Endpoint
  BY DEF TableType, Belongs, Info
<1>2. o \in mine
  BY <1>1, StreamAssumption DEF Belongs, Touches, Side
<1>3. Accepts(OwnerOf[o], "close", role, d)
  BY DEF Accepts
<1>4. Becomes("close") = "none"
  BY DEF Becomes
<1>5. /\ pd' = IF info[d].source \in mine THEN [pd EXCEPT ![d] = "none"] ELSE pd
      /\ cd' = IF info[d].endpoint \in mine THEN [cd EXCEPT ![d] = "none"] ELSE cd
  BY <1>3, <1>4 DEF Apply
<1> HIDE DEF mine
<1>6. o = info[d].source \/ o = info[d].endpoint
  BY DEF Belongs
<1> QED BY <1>1, <1>2, <1>5, <1>6, StreamAssumption DEF TableType, Holds

-----------------------------------------------------------------------------
(* The steps. *)

(* Frames stay as they are when deliveries are only added. *)
LEMMA FrameKept ==
    ASSUME NEW f, FrameOK(f), known \subseteq known',
           \A d \in Delivery : info[d] # None => info'[d] # None
    PROVE  FrameOK(f)'
  BY DEF FrameOK

(* What is held is reached, when sides and tasks change as the lemmas say. *)
LEMMA ReachedStep ==
    ASSUME Reached, UNCHANGED info,
           \A e \in Delivery, o \in Owned :
              Belongs(e, o) /\ Holds(e, o)' => In(e, o)' \/ (Holds(e, o) /\ ~In(e, o)),
           \A u \in Task, e \in Delivery, o \in Owned :
              Belongs(e, o) /\ Holds(e, o)' /\ Covers(u, e, o) => Covers(u, e, o)'
    PROVE  Reached'
<1> SUFFICES ASSUME NEW e \in Delivery, NEW o \in Owned, Belongs(e, o)', Holds(e, o)'
             PROVE  In(e, o)' \/ \E t \in Task : Covers(t, e, o)'
  BY DEF Reached
<1>1. Belongs(e, o)
  BY DEF Belongs
<1>2. CASE Holds(e, o) /\ ~In(e, o)
  <2>1. PICK t \in Task : Covers(t, e, o)
    BY <1>1, <1>2 DEF Reached
  <2> QED BY <1>1, <2>1
<1> QED BY <1>1, <1>2

(* Tasks that stand still. *)
LEMMA PlaceKept ==
    ASSUME TaskType, Tasks, UNCHANGED <<place, info>>
    PROVE  /\ TaskType' /\ Tasks'
           /\ \A u, e, o : Covers(u, e, o) => Covers(u, e, o)'
  BY DEF TaskType, Tasks, TaskOK, Belongs, Covers

(* Tables that stand still. *)
LEMMA TablesKept ==
    ASSUME TableType, Unissued, Listing, UNCHANGED <<entries, pd, cd, info>>
    PROVE  /\ TableType' /\ Unissued' /\ Listing'
           /\ \A e \in Delivery, o \in Owned :
                 Belongs(e, o) /\ Holds(e, o)' => In(e, o)' \/ (Holds(e, o) /\ ~In(e, o))
  BY DEF TableType, Unissued, Listing, Announced, Belongs, Holds, In

(* It holds at the start. *)
LEMMA InitCatalog == Init => CatalogInv
<1> SUFFICES ASSUME Init PROVE CatalogInv
  OBVIOUS
<1>1. TableType
  BY DEF Init, TableType, State
<1>2. TaskType
  BY DEF Init, TaskType, Place
<1>3. Frames
  <2>1. PICK asked \in Workload :
           net = {[kind |-> "connect", to |-> At[r.by], req |-> r] : r \in asked}
    BY DEF Init
  <2>2. ASSUME NEW r \in asked PROVE FrameOK([kind |-> "connect", to |-> At[r.by], req |-> r])
    <3>1. r \in Connect /\ r.by \in Requester
      BY <2>1, StreamAssumption
    <3>2. At[r.by] \in Node
      BY <3>1, StreamAssumption
    <3> QED BY <3>1, <3>2 DEF FrameOK
  <2> QED BY <2>1, <2>2 DEF Frames
<1>4. Tasks /\ Callers
  BY DEF Init, Tasks, TaskOK, Ending, Callers
<1>5. Issued /\ Unissued
  BY DEF Init, Issued, Unissued
<1>6. Listing
  BY DEF Init, Listing, Announced
<1>7. Reached
  BY DEF Init, Reached, Holds
<1> QED BY <1>1, <1>2, <1>3, <1>4, <1>5, <1>6, <1>7 DEF CatalogInv

(* A private request is handled. *)
LEMMA HandleCatalog ==
    ASSUME CatalogInv, NEW f \in net, HandlePrivate(f)
    PROVE  CatalogInv'
<1> USE DEF CatalogInv
<1>0. /\ Apply(f.to, f.act, f.role, f.d, f.closeRoute)
      /\ UNCHANGED <<info, waiting, known>> /\ UNCHANGED place
  BY DEF HandlePrivate
<1>1. /\ f.from \in Node /\ f.d \in Delivery /\ info[f.d] # None
      /\ f.act \in Acts /\ f.role \in Role /\ (f.role = "both" => f.act = "close")
  BY DEF Frames, FrameOK, HandlePrivate
<1>2. /\ TableType' /\ Unissued' /\ Listing'
      /\ \A e \in Delivery, o \in Owned :
            Belongs(e, o) /\ Holds(e, o)' => In(e, o)' \/ (Holds(e, o) /\ ~In(e, o))
  BY <1>0, <1>1, ApplyLists
<1>3. /\ TaskType' /\ Tasks'
      /\ \A u, e, o : Covers(u, e, o) => Covers(u, e, o)'
  BY <1>0, PlaceKept
<1>4. Reached'
  BY <1>0, <1>2, <1>3, ReachedStep
<1>5. Frames'
  <2>0. PICK ok : ok = Accepts(f.to, f.act, f.role, f.d)
    OBVIOUS
  <2> DEFINE g == [kind |-> "answer", to |-> f.from, act |-> f.act, d |-> f.d,
                   ok |-> ok, task |-> f.task]
  <2>1. net' = (net \ {f}) \cup {g} /\ g.kind = "answer" /\ g.d = f.d /\ g.to = f.from
    BY <2>0 DEF HandlePrivate
  <2> HIDE DEF g
  <2>2. FrameOK(g)'
    BY <1>0, <1>1, <2>1 DEF FrameOK
  <2>3. ASSUME NEW h \in net PROVE FrameOK(h)'
    BY <1>0, FrameKept DEF Frames
  <2> QED BY <2>1, <2>2, <2>3 DEF Frames
<1>6. Callers' /\ Issued'
  BY <1>0 DEF Callers, Issued
<1> QED BY <1>2, <1>3, <1>4, <1>5, <1>6

(* Frames go on or are lost, channels fill, disconnects are sent: nothing  *)
(* of the catalogue is touched.                                            *)
LEMMA TransportCatalog ==
    ASSUME CatalogInv, UNCHANGED <<entries, pd, cd, info, known>>, UNCHANGED place,
           waiting' \subseteq Task, \A t \in waiting' : pc[t] \in Call,
           \A f \in net' : f \in net \/ FrameOK(f)
    PROVE  CatalogInv'
<1> USE DEF CatalogInv
<1>1. /\ TableType' /\ Unissued' /\ Listing'
      /\ \A e \in Delivery, o \in Owned :
            Belongs(e, o) /\ Holds(e, o)' => In(e, o)' \/ (Holds(e, o) /\ ~In(e, o))
  BY TablesKept
<1>2. /\ TaskType' /\ Tasks'
      /\ \A u, e, o : Covers(u, e, o) => Covers(u, e, o)'
  BY PlaceKept
<1>3. Reached'
  BY <1>1, <1>2, ReachedStep
<1>4. Frames'
  <2> SUFFICES ASSUME NEW f \in net' PROVE FrameOK(f)'
    BY DEF Frames
  <2>1. FrameOK(f)
    BY DEF Frames
  <2> QED BY <2>1, FrameKept
<1>5. Callers' /\ Issued'
  BY DEF Callers, Issued
<1> QED BY <1>1, <1>2, <1>3, <1>4, <1>5

(* A request for another node goes on. *)
LEMMA ForwardCatalog ==
    ASSUME CatalogInv, NEW f \in net, ForwardPrivate(f)
    PROVE  CatalogInv'
<1> DEFINE g == [f EXCEPT !.to = NextHop(f.to, f.target)]
<1>1. FrameOK(f) /\ f.kind = "request"
  BY DEF CatalogInv, Frames, ForwardPrivate
<1>2. FrameOK(g)
  <2>1. DOMAIN f = {"kind", "to", "target", "from", "act", "role", "d", "closeRoute", "task"}
    BY <1>1 DEF FrameOK
  <2>2. /\ DOMAIN g = DOMAIN f /\ g.kind = f.kind /\ g.d = f.d /\ g.act = f.act /\ g.role = f.role
        /\ g.from = f.from
    BY <2>1
  <2> HIDE DEF g
  <2> QED BY <1>1, <2>1, <2>2 DEF FrameOK
<1>3. net' = (net \ {f}) \cup {g}
  BY DEF ForwardPrivate
<1> HIDE DEF g
<1>4. UNCHANGED <<entries, pd, cd, info, known, waiting>> /\ UNCHANGED place
  BY DEF ForwardPrivate
<1> QED BY <1>2, <1>3, <1>4, TransportCatalog DEF CatalogInv, Callers

(* A task calls another node. *)
LEMMA CallCatalog ==
    ASSUME CatalogInv, NEW t \in Task, CallPrivate(t)
    PROVE  CatalogInv'
<1> DEFINE n == node[t]
           call == Calls[pc[t]]
           d == cur[t]
           g == [kind |-> "request", to |-> NextHop(n, Target(t)), target |-> Target(t),
                 from |-> n, act |-> call.act, role |-> call.role, d |-> d,
                 closeRoute |-> ClosesRoute(t, Target(t)), task |-> t]
<1>1. /\ pc[t] \in Call /\ waiting' = waiting \cup {t} /\ net' = net \cup {g}
      /\ UNCHANGED <<entries, pd, cd, info, known>> /\ UNCHANGED place
  BY DEF CallPrivate
<1>2. n \in Node /\ d \in Delivery /\ info[d] # None
  BY <1>1, CallNames DEF CatalogInv, Tasks, TaskOK
<1>3. call.act \in Acts /\ call.role \in Role /\ (call.role = "both" => call.act = "close")
  BY <1>1, CallTable
<1>4. /\ g.kind = "request" /\ g.from = n /\ g.d = d /\ g.act = call.act /\ g.role = call.role
      /\ DOMAIN g = {"kind", "to", "target", "from", "act", "role", "d", "closeRoute", "task"}
  OBVIOUS
<1> HIDE DEF g, call, d
<1>5. FrameOK(g)
  BY <1>2, <1>3, <1>4 DEF FrameOK
<1> QED BY <1>1, <1>5, TransportCatalog DEF CatalogInv, Callers

(* A task goes on, whatever else it did to the tables. *)
LEMMA ContinueCatalog ==
    ASSUME CatalogInv, NEW t \in Task, NEW there \in Place, pc[t] # "idle",
           owned[t] # None => there \in Ending,
           owned[t] = None => there \notin Ending,
           GoesOn(t, there), UNCHANGED <<info, net>>, known \subseteq known',
           known' \subseteq known \cup {cur[t]}, waiting' = waiting \ {t},
           TableType', Unissued', Listing',
           \A e \in Delivery, o \in Owned :
              Belongs(e, o) /\ Holds(e, o)' => In(e, o)' \/ (Holds(e, o) /\ ~In(e, o)),
           \A e, o : pc[t] = "end" /\ e = cur[t] /\ o = owned[t] => ~ Holds(e, o)'
    PROVE  CatalogInv'
<1> USE DEF CatalogInv
<1>1. /\ TaskType' /\ Tasks'
      /\ \A u \in Task, d \in Delivery, o \in Owned :
            Covers(u, d, o) /\ ~ (u = t /\ d = cur[t] /\ pc[t] = "end") => Covers(u, d, o)'
  BY TaskGoesOn
<1>2. Reached'
  <2>1. ASSUME NEW u \in Task, NEW e \in Delivery, NEW o \in Owned, Holds(e, o)', Covers(u, e, o)
        PROVE  ~ (u = t /\ e = cur[t] /\ pc[t] = "end")
    BY <2>1 DEF Covers
  <2> QED BY <1>1, <2>1, ReachedStep
<1>3. Frames'
  <2> SUFFICES ASSUME NEW f \in net PROVE FrameOK(f)'
    BY DEF Frames
  <2>1. FrameOK(f)
    BY DEF Frames
  <2> QED BY <2>1, FrameKept
<1>4. Callers'
  <2>1. \A u \in Task \ {t} : pc'[u] = pc[u]
    BY GoesOnAlone
  <2> QED BY <2>1 DEF Callers
<1>5. Issued'
  BY DEF Issued, Tasks, TaskOK
<1> QED BY <1>1, <1>2, <1>3, <1>4, <1>5

(* A call of the node itself. *)
LEMMA LocalCatalog ==
    ASSUME CatalogInv, NEW t \in Task, CallLocal(t)
    PROVE  CatalogInv'
<1> DEFINE call == Calls[pc[t]]
           there == IF Accepts(node[t], call.act, call.role, cur[t]) THEN call.ok ELSE call.err
<1>1. /\ pc[t] \in Call /\ t \notin waiting
      /\ Apply(node[t], call.act, call.role, cur[t], ClosesRoute(t, node[t]))
      /\ GoesOn(t, there) /\ UNCHANGED <<info, net, known, waiting>>
  BY DEF CallLocal
<1>2. /\ call.act \in Acts /\ call.role \in Role /\ (call.role = "both" => call.act = "close")
      /\ there \in Place
      /\ pc[t] \in Ending => there \in {"end", "tellK"}
      /\ pc[t] \notin Ending => there \notin Ending
  BY <1>1, CallTable
<1> HIDE DEF call, there
<1>3. pc[t] # "idle" /\ pc[t] # "end"
  BY <1>1, CallNames
<1>4. TaskOK(t)
  BY DEF CatalogInv, Tasks
<1>5. cur[t] \in Delivery /\ info[cur[t]] # None
  BY <1>3, <1>4 DEF TaskOK
<1>6. /\ TableType' /\ Unissued' /\ Listing'
      /\ \A e \in Delivery, o \in Owned :
            Belongs(e, o) /\ Holds(e, o)' => In(e, o)' \/ (Holds(e, o) /\ ~In(e, o))
  BY <1>1, <1>2, <1>5, ApplyLists DEF CatalogInv
<1>7. /\ owned[t] # None => there \in Ending
      /\ owned[t] = None => there \notin Ending
  BY <1>2, <1>4 DEF TaskOK, Ending
<1> QED BY <1>1, <1>2, <1>3, <1>6, <1>7, ContinueCatalog

(* A call ends with an answer, or without. *)
LEMMA ReturnCatalog ==
    ASSUME CatalogInv, NEW t \in Task, ReceiveAnswer(t) \/ CallTimesOut(t)
    PROVE  CatalogInv'
<1>1. /\ t \in waiting /\ waiting' = waiting \ {t}
      /\ UNCHANGED <<entries, pd, cd, info, net, known>>
  BY DEF ReceiveAnswer, CallTimesOut, Returns
<1>2. pc[t] \in Call
  BY <1>1 DEF CatalogInv, Callers
<1>3. PICK there \in {Calls[pc[t]].ok, Calls[pc[t]].err} : GoesOn(t, there)
  BY DEF ReceiveAnswer, CallTimesOut
<1>4. /\ there \in Place
      /\ pc[t] \in Ending => there \in {"end", "tellK"}
      /\ pc[t] \notin Ending => there \notin Ending
  BY <1>2, <1>3, CallTable
<1>5. pc[t] # "idle" /\ pc[t] # "end"
  BY <1>2, CallNames
<1>6. TaskOK(t)
  BY DEF CatalogInv, Tasks
<1>7. /\ owned[t] # None => there \in Ending
      /\ owned[t] = None => there \notin Ending
  BY <1>4, <1>6 DEF TaskOK, Ending
<1>8. /\ TableType' /\ Unissued' /\ Listing'
      /\ \A e \in Delivery, o \in Owned :
            Belongs(e, o) /\ Holds(e, o)' => In(e, o)' \/ (Holds(e, o) /\ ~In(e, o))
  BY <1>1, TablesKept DEF CatalogInv
<1> QED BY <1>1, <1>3, <1>4, <1>5, <1>7, <1>8, ContinueCatalog

(* The coordinator's own steps. *)
LEMMA RouteCatalog ==
    ASSUME CatalogInv, NEW t \in Task,
           InstallRoute(t) \/ ConfirmRoute(t) \/ RemoveRoute(t) \/ MarkClosing(t)
    PROVE  CatalogInv'
<1>1. PICK there \in {"actP", "idle", "shutP"} : GoesOn(t, there)
  <2>1. ASSUME Finishes(t) PROVE GoesOn(t, "idle")
    BY <2>1 DEF GoesOn
  <2> QED BY <2>1 DEF InstallRoute, ConfirmRoute, RemoveRoute, MarkClosing
<1>2. /\ pc[t] \in {"install", "confirm", "remove", "closing"}
      /\ UNCHANGED <<entries, pd, cd, info, net, waiting>>
      /\ known' = known \/ known' = known \cup {cur[t]}
  BY DEF InstallRoute, ConfirmRoute, RemoveRoute, MarkClosing
<1>3. pc[t] # "idle" /\ pc[t] # "end" /\ pc[t] \notin Ending /\ pc[t] \notin Call
  BY <1>2, CallNames DEF Ending
<1>4. owned[t] = None /\ t \notin waiting
  BY <1>3 DEF CatalogInv, Tasks, TaskOK, Callers
<1>5. there \in Place /\ there \notin Ending
  BY <1>1, CallNames DEF Place, Ending
<1>6. /\ TableType' /\ Unissued' /\ Listing'
      /\ \A e \in Delivery, o \in Owned :
            Belongs(e, o) /\ Holds(e, o)' => In(e, o)' \/ (Holds(e, o) /\ ~In(e, o))
  BY <1>2, TablesKept DEF CatalogInv
<1>7. known \subseteq known' /\ known' \subseteq known \cup {cur[t]} /\ waiting' = waiting \ {t}
  BY <1>2, <1>4
<1> QED BY <1>1, <1>2, <1>3, <1>4, <1>5, <1>6, <1>7, ContinueCatalog

(* A withdrawal closes its own side. *)
LEMMA EndCatalog ==
    ASSUME CatalogInv, NEW t \in Task, EndLocal(t)
    PROVE  CatalogInv'
<1> DEFINE role == IF owned[t] \in Source THEN "producer" ELSE "consumer"
<1>1. /\ pc[t] = "end" /\ UNCHANGED <<info, net, known, waiting>>
      /\ Apply(node[t], "close", role, cur[t], ClosesRoute(t, node[t]))
  BY DEF EndLocal
<1>2. PICK there \in {"tellK", "tellC", "tellP"} : GoesOn(t, there)
  BY DEF EndLocal
<1>3. TaskOK(t)
  BY DEF CatalogInv, Tasks
<1>4. owned[t] \in Owned /\ owned[t] # None /\ t \notin waiting
  <2>1. pc[t] \in Ending /\ pc[t] \notin Call
    BY <1>1, CallNames DEF Ending
  <2> QED BY <1>3, <2>1 DEF TaskOK, CatalogInv, TaskType, Callers
<1>5. /\ node[t] = OwnerOf[owned[t]] /\ cur[t] \in Delivery /\ Belongs(cur[t], owned[t])
      /\ info[cur[t]] # None
  BY <1>1, <1>3, <1>4 DEF TaskOK
<1>6. there \in Place /\ there \in Ending
  BY <1>2, CallNames DEF Place, Ending
<1>7. /\ TableType' /\ Unissued' /\ Listing'
      /\ \A e \in Delivery, o \in Owned :
            Belongs(e, o) /\ Holds(e, o)' => In(e, o)' \/ (Holds(e, o) /\ ~In(e, o))
  <2>1. role \in Role /\ role # "both" /\ "close" \in Acts
    BY DEF Role, Acts
  <2> HIDE DEF role
  <2> QED BY <1>1, <1>5, <2>1, ApplyLists DEF CatalogInv
<1>8. ASSUME NEW e, NEW o, e = cur[t], o = owned[t] PROVE ~ Holds(e, o)'
  <2>1. /\ e \in Delivery /\ o \in Owned /\ Belongs(e, o)
        /\ Apply(OwnerOf[o], "close", IF o \in Source THEN "producer" ELSE "consumer", e,
                 ClosesRoute(t, node[t]))
    BY <1>1, <1>4, <1>5, <1>8
  <2> QED BY <2>1, CloseEnds DEF CatalogInv
<1>9. waiting' = waiting \ {t}
  BY <1>1, <1>4
<1> QED BY <1>1, <1>2, <1>4, <1>6, <1>7, <1>8, <1>9, ContinueCatalog

(* A request of a user goes up. *)
LEMMA ForwardUser ==
    ASSUME NEW f \in net, FrameOK(f), f.kind \in {"connect", "disconnect"}, Forward(f)
    PROVE  \A g \in net' : g \in net \/ FrameOK(g)
<1> DEFINE g == [f EXCEPT !.to = Parent[f.to]]
<1>1. \A h \in net' : h \in net \/ (h = g /\ Parent[f.to] # None)
  BY DEF Forward
<1>2. Parent[f.to] # None => FrameOK(g)
  <2>1. CASE f.kind = "connect"
    <3>1. DOMAIN f = {"kind", "to", "req"} /\ f.to \in Node /\ f.req \in Connect
      BY <2>1 DEF FrameOK
    <3>2. /\ DOMAIN g = {"kind", "to", "req"} /\ g.kind = "connect" /\ g.req = f.req
          /\ g.to = Parent[f.to]
      BY <2>1, <3>1
    <3>3. Parent[f.to] # None => Parent[f.to] \in Node
      BY <3>1, StreamAssumption
    <3> HIDE DEF g
    <3> QED BY <3>1, <3>2, <3>3 DEF FrameOK
  <2>2. CASE f.kind = "disconnect"
    <3>1. DOMAIN f = {"kind", "to", "by", "d"} /\ f.to \in Node /\ f.d \in known
      BY <2>2 DEF FrameOK
    <3>2. /\ DOMAIN g = {"kind", "to", "by", "d"} /\ g.kind = "disconnect" /\ g.d = f.d
          /\ g.to = Parent[f.to]
      BY <2>2, <3>1
    <3>3. Parent[f.to] # None => Parent[f.to] \in Node
      BY <3>1, StreamAssumption
    <3> HIDE DEF g
    <3> QED BY <3>1, <3>2, <3>3 DEF FrameOK
  <2> QED BY <2>1, <2>2
<1> HIDE DEF g
<1> QED BY <1>1, <1>2

(* A task starts on a delivery that has been given out. *)
LEMMA StartTasks ==
    ASSUME TaskType, Tasks, NEW t \in Task, NEW n \in Node, NEW d \in Delivery,
           info'[d] # None, NEW there \in Place \ Ending, Starts(t, n, d, there),
           \A e \in Delivery : info[e] # None => info'[e] = info[e]
    PROVE  /\ TaskType' /\ Tasks'
           /\ \A u \in Task \ {t} : /\ pc'[u] = pc[u] /\ node'[u] = node[u] /\ cur'[u] = cur[u]
                                    /\ todo'[u] = todo[u] /\ owned'[u] = owned[u]
           /\ \A u \in Task, e \in Delivery, o \in Owned : Covers(u, e, o) => Covers(u, e, o)'
<1>0. /\ pc[t] = "idle" /\ pc' = [pc EXCEPT ![t] = there] /\ node' = [node EXCEPT ![t] = n]
      /\ cur' = [cur EXCEPT ![t] = d] /\ UNCHANGED <<todo, owned>>
  BY DEF Starts
<1>1. TaskType'
  BY <1>0 DEF TaskType
<1>2. owned[t] = None /\ todo[t] = {}
  BY <1>0 DEF Tasks, TaskOK, Ending
<1>3. TaskOK(t)'
  BY <1>0, <1>2 DEF TaskOK, TaskType
<1>4. \A u \in Task \ {t} : /\ pc'[u] = pc[u] /\ node'[u] = node[u] /\ cur'[u] = cur[u]
                            /\ todo'[u] = todo[u] /\ owned'[u] = owned[u]
  BY <1>0 DEF TaskType
<1>5. ASSUME NEW u \in Task \ {t} PROVE TaskOK(u)'
  <2>1. TaskOK(u)
    BY DEF Tasks
  <2>2. \A e \in todo[u] \cup {cur[u]} : owned[u] # None => e \in Delivery
    BY <2>1 DEF TaskOK, TaskType, Ending
  <2>3. /\ pc'[u] = pc[u] /\ node'[u] = node[u] /\ cur'[u] = cur[u]
        /\ todo'[u] = todo[u] /\ owned'[u] = owned[u]
    BY <1>4
  <2>4. pc'[u] # "idle" => node'[u] \in Node /\ cur'[u] \in Delivery /\ info'[cur'[u]] # None
    BY <2>1, <2>3 DEF TaskOK
  <2>5. ASSUME owned[u] # None, NEW e \in todo[u] \cup {cur[u]} PROVE Belongs(e, owned[u])'
    BY <2>1, <2>2, <2>3, <2>5 DEF TaskOK, Belongs
  <2> QED BY <2>1, <2>3, <2>4, <2>5 DEF TaskOK
<1>6. ASSUME NEW u \in Task, NEW e \in Delivery, NEW o \in Owned, Covers(u, e, o)
      PROVE  Covers(u, e, o)'
  <2>1. u # t
    BY <1>0, <1>2, <1>6 DEF Covers
  <2> QED BY <1>4, <1>6, <2>1 DEF Covers
<1> QED BY <1>1, <1>3, <1>4, <1>5, <1>6 DEF Tasks

(* A connect goes up, is refused, or starts the setting up of a delivery.  *)
LEMMA ConnectCatalog ==
    ASSUME CatalogInv, NEW f \in net, NEW t \in Task, RouteCoordinatorRequest(f, t)
    PROVE  CatalogInv'
<1>0. /\ UNCHANGED <<entries, pd, cd, known, waiting>> /\ f.kind = "connect" /\ FrameOK(f)
  BY DEF RouteCoordinatorRequest, CatalogInv, Frames
<1>1. CASE UNCHANGED info /\ UNCHANGED place /\ (Forward(f) \/ net' = net \ {f})
  <2>1. \A g \in net' : g \in net \/ FrameOK(g)
    BY <1>0, <1>1, ForwardUser
  <2> QED BY <1>0, <1>1, <2>1, TransportCatalog DEF CatalogInv, Callers
<1>2. ASSUME net' = net \ {f}, NEW d \in Delivery, info[d] = None,
             info' = [info EXCEPT ![d] = [by |-> f.req.by, source |-> f.req.source,
                                          endpoint |-> f.req.endpoint, coord |-> f.to]],
             Starts(t, f.to, d, "prepP")
      PROVE  CatalogInv'
  <2> DEFINE i == [by |-> f.req.by, source |-> f.req.source, endpoint |-> f.req.endpoint,
                   coord |-> f.to]
  <2>1. i \in Info
    <3>1. f.req \in [by : Requester, source : Source, endpoint : Endpoint] /\ f.to \in Node
      BY <1>0, StreamAssumption DEF FrameOK
    <3> QED BY <3>1 DEF Info
  <2>2. i # None
    BY <2>1, StreamAssumption
  <2>3. info' = [info EXCEPT ![d] = i]
    BY <1>2
  <2> HIDE DEF i
  <2>4. info' \in [Delivery -> Info \cup {None}] /\ info'[d] # None
        /\ \A e \in Delivery : info[e] # None => info'[e] = info[e]
    BY <1>2, <2>1, <2>2, <2>3 DEF CatalogInv, TableType
  <2>5. "prepP" \in Place \ Ending /\ f.to \in Node
    BY <1>0, CallNames DEF Place, Ending, FrameOK
  <2>6. /\ TaskType' /\ Tasks'
        /\ \A u \in Task \ {t} : pc'[u] = pc[u]
        /\ \A u \in Task, e \in Delivery, o \in Owned : Covers(u, e, o) => Covers(u, e, o)'
    BY <1>2, <2>4, <2>5, StartTasks DEF CatalogInv
  <2>7. TableType'
    BY <1>0, <2>4 DEF CatalogInv, TableType
  <2>8. Frames'
    <3> SUFFICES ASSUME NEW g \in net' PROVE FrameOK(g)'
      BY DEF Frames
    <3>1. FrameOK(g)
      BY <1>2 DEF CatalogInv, Frames
    <3> QED BY <1>0, <2>4, <3>1, FrameKept
  <2>9. Callers'
    <3>1. t \notin waiting
      BY <1>2, CallNames DEF CatalogInv, Callers, Starts
    <3> QED BY <1>0, <2>6, <3>1 DEF CatalogInv, Callers
  <2>10. Issued' /\ Unissued'
    BY <1>0, <2>4 DEF CatalogInv, Issued, Unissued
  <2>11. ASSUME NEW e \in Delivery, NEW o PROVE Belongs(e, o) => Belongs(e, o)'
    BY <2>4 DEF Belongs
  <2>12. Listing'
    BY <1>0, <2>11 DEF CatalogInv, Listing, Announced, TableType
  <2>13. Reached'
    <3> SUFFICES ASSUME NEW e \in Delivery, NEW o \in Owned, Belongs(e, o)', Holds(e, o)'
                 PROVE  In(e, o)' \/ \E u \in Task : Covers(u, e, o)'
      BY DEF Reached
    <3>1. Holds(e, o)
      BY <1>0 DEF Holds
    <3>2. e # d
      BY <1>2, <3>1 DEF CatalogInv, Unissued, Holds
    <3>3. Belongs(e, o)
      BY <2>3, <3>2 DEF Belongs, CatalogInv, TableType
    <3>4. In(e, o) \/ \E u \in Task : Covers(u, e, o)
      BY <3>1, <3>3 DEF CatalogInv, Reached
    <3>5. In(e, o) => In(e, o)'
      BY <1>0 DEF In, Announced
    <3> QED BY <2>6, <3>4, <3>5
  <2> QED BY <2>6, <2>7, <2>8, <2>9, <2>10, <2>12, <2>13 DEF CatalogInv
<1> QED BY <1>1, <1>2 DEF RouteCoordinatorRequest

(* A disconnect goes up, is answered, or starts the taking down. *)
LEMMA DisconnectCatalog ==
    ASSUME CatalogInv, NEW f \in net, NEW t \in Task, RouteDeliveryRequest(f, t)
    PROVE  CatalogInv'
<1>0. /\ UNCHANGED <<entries, pd, cd, info, known, waiting>> /\ f.kind = "disconnect" /\ FrameOK(f)
  BY DEF RouteDeliveryRequest, CatalogInv, Frames
<1>1. CASE UNCHANGED place /\ (Forward(f) \/ net' = net \ {f})
  <2>1. \A g \in net' : g \in net \/ FrameOK(g)
    BY <1>0, <1>1, ForwardUser
  <2> QED BY <1>0, <1>1, <2>1, TransportCatalog DEF CatalogInv, Callers
<1>2. CASE net' = net \ {f} /\ Starts(t, f.to, f.d, "closing")
  <2>1. f.to \in Node /\ f.d \in Delivery /\ info[f.d] # None
    BY <1>0 DEF FrameOK, CatalogInv, Issued
  <2>2. "closing" \in Place \ Ending
    BY DEF Place, Ending
  <2>3. /\ TaskType' /\ Tasks'
        /\ \A u \in Task \ {t} : pc'[u] = pc[u]
        /\ \A u \in Task, e \in Delivery, o \in Owned : Covers(u, e, o) => Covers(u, e, o)'
    BY <1>0, <1>2, <2>1, <2>2, StartTasks DEF CatalogInv
  <2>4. /\ TableType' /\ Unissued' /\ Listing'
        /\ \A e \in Delivery, o \in Owned :
              Belongs(e, o) /\ Holds(e, o)' => In(e, o)' \/ (Holds(e, o) /\ ~In(e, o))
    BY <1>0, TablesKept DEF CatalogInv
  <2>5. Reached'
    BY <1>0, <2>3, <2>4, ReachedStep DEF CatalogInv
  <2>6. Frames'
    <3> SUFFICES ASSUME NEW g \in net' PROVE FrameOK(g)'
      BY DEF Frames
    <3>1. FrameOK(g)
      BY <1>2 DEF CatalogInv, Frames
    <3> QED BY <1>0, <3>1, FrameKept
  <2>7. Callers' /\ Issued'
    <3>1. t \notin waiting
      BY <1>2, CallNames DEF CatalogInv, Callers, Starts
    <3> QED BY <1>0, <2>3, <3>1 DEF CatalogInv, Callers, Issued
  <2> QED BY <2>3, <2>4, <2>5, <2>6, <2>7 DEF CatalogInv
<1> QED BY <1>1, <1>2 DEF RouteDeliveryRequest

(* A withdrawal: the entry goes, and what it listed is with the task. *)
LEMMA WithdrawCatalog ==
    ASSUME CatalogInv, NEW p \in Owned, NEW t \in Task, Withdraw(p, t)
    PROVE  CatalogInv'
<1> DEFINE held == {d \in entries[p] : Holds(d, p)}
<1>0. /\ UNCHANGED <<pd, cd, info, net, known, waiting>>
      /\ entries' = [entries EXCEPT ![p] = None] /\ Announced(p) /\ pc[t] = "idle"
  BY DEF Withdraw
<1>1. \/ held = {} /\ UNCHANGED place
      \/ \E d \in held :
            /\ cur' = [cur EXCEPT ![t] = d] /\ todo' = [todo EXCEPT ![t] = held \ {d}]
            /\ pc' = [pc EXCEPT ![t] = "end"] /\ node' = [node EXCEPT ![t] = OwnerOf[p]]
            /\ owned' = [owned EXCEPT ![t] = p]
  BY DEF Withdraw, Holds
<1>2. held \subseteq Delivery /\ \A d \in held : Belongs(d, p)
  BY <1>0 DEF CatalogInv, TableType, Listing, Announced
<1>3. TaskOK(t) /\ owned[t] = None /\ todo[t] = {}
  BY <1>0 DEF CatalogInv, Tasks, TaskOK, Ending
<1>4. TableType'
  BY <1>0 DEF CatalogInv, TableType
<1>5. entries'[p] = None /\ \A o \in Owned \ {p} : entries'[o] = entries[o]
  BY <1>0 DEF CatalogInv, TableType
<1> HIDE DEF held
<1>6. /\ TaskType' /\ Tasks'
      /\ \A u \in Task \ {t} : pc'[u] = pc[u]
      /\ \A u \in Task, e \in Delivery, o \in Owned : Covers(u, e, o) => Covers(u, e, o)'
      /\ \A e \in held : Covers(t, e, p)'
  <2>1. CASE held = {} /\ UNCHANGED place
    BY <1>0, <2>1, PlaceKept DEF CatalogInv
  <2>2. ASSUME NEW d \in held, cur' = [cur EXCEPT ![t] = d],
               todo' = [todo EXCEPT ![t] = held \ {d}],
               pc' = [pc EXCEPT ![t] = "end"], node' = [node EXCEPT ![t] = OwnerOf[p]],
               owned' = [owned EXCEPT ![t] = p]
        PROVE  /\ TaskType' /\ Tasks'
               /\ \A u \in Task \ {t} : pc'[u] = pc[u]
               /\ \A u \in Task, e \in Delivery, o \in Owned : Covers(u, e, o) => Covers(u, e, o)'
               /\ \A e \in held : Covers(t, e, p)'
    <3>1. TaskType'
      BY <1>2, <2>2 DEF CatalogInv, TaskType, Place
    <3>2. /\ pc'[t] = "end" /\ node'[t] = OwnerOf[p] /\ cur'[t] = d /\ todo'[t] = held \ {d}
          /\ owned'[t] = p
      BY <2>2 DEF CatalogInv, TaskType
    <3>3. \A u \in Task \ {t} : /\ pc'[u] = pc[u] /\ node'[u] = node[u] /\ cur'[u] = cur[u]
                                /\ todo'[u] = todo[u] /\ owned'[u] = owned[u]
      BY <2>2 DEF CatalogInv, TaskType
    <3>4. TaskOK(t)'
      <4>1. p # None /\ OwnerOf[p] \in Node
        BY StreamAssumption
      <4>2. \A e \in held : Belongs(e, p)' /\ info'[e] # None
        BY <1>0, <1>2 DEF Belongs
      <4> QED BY <1>2, <3>2, <4>1, <4>2 DEF TaskOK, Ending
    <3>5. ASSUME NEW u \in Task \ {t} PROVE TaskOK(u)'
      <4>1. TaskOK(u)
        BY DEF CatalogInv, Tasks
      <4>2. /\ pc'[u] = pc[u] /\ node'[u] = node[u] /\ cur'[u] = cur[u]
            /\ todo'[u] = todo[u] /\ owned'[u] = owned[u]
        BY <3>3
      <4> QED BY <1>0, <4>1, <4>2 DEF TaskOK, Belongs
    <3>6. ASSUME NEW u \in Task, NEW e \in Delivery, NEW o \in Owned, Covers(u, e, o)
          PROVE  Covers(u, e, o)'
      <4>1. u # t
        BY <1>3, <3>6, StreamAssumption DEF Covers
      <4> QED BY <3>3, <3>6, <4>1 DEF Covers
    <3>7. \A e \in held : Covers(t, e, p)'
      BY <3>2 DEF Covers
    <3> QED BY <3>1, <3>3, <3>4, <3>5, <3>6, <3>7 DEF Tasks
  <2> QED BY <1>1, <2>1, <2>2
<1>7. Frames'
  <2> SUFFICES ASSUME NEW g \in net PROVE FrameOK(g)'
    BY <1>0 DEF Frames
  <2>1. FrameOK(g)
    BY DEF CatalogInv, Frames
  <2> QED BY <1>0, <2>1, FrameKept
<1>8. Callers' /\ Issued' /\ Unissued'
  <2>1. t \notin waiting
    BY <1>0, CallNames DEF CatalogInv, Callers
  <2> QED BY <1>0, <1>6, <2>1 DEF CatalogInv, Callers, Issued, Unissued
<1>9. Listing'
  BY <1>0, <1>5 DEF CatalogInv, Listing, Announced, Belongs
<1>10. Reached'
  <2> SUFFICES ASSUME NEW e \in Delivery, NEW o \in Owned, Belongs(e, o)', Holds(e, o)'
               PROVE  In(e, o)' \/ \E u \in Task : Covers(u, e, o)'
    BY DEF Reached
  <2>1. Belongs(e, o) /\ Holds(e, o)
    BY <1>0 DEF Belongs, Holds
  <2>2. In(e, o) \/ \E u \in Task : Covers(u, e, o)
    BY <2>1 DEF CatalogInv, Reached
  <2>3. CASE In(e, o) /\ o = p
    <3>1. e \in held
      BY <2>1, <2>3 DEF held, In
    <3> QED BY <1>6, <2>3, <3>1
  <2>4. CASE In(e, o) /\ o # p
    BY <1>5, <2>4 DEF In, Announced
  <2> QED BY <1>6, <2>2, <2>3, <2>4
<1> QED BY <1>4, <1>6, <1>7, <1>8, <1>9, <1>10 DEF CatalogInv

(* An announcement. *)
LEMMA AnnounceCatalog ==
    ASSUME CatalogInv, NEW p \in Owned, Announce(p)
    PROVE  CatalogInv'
<1>0. /\ UNCHANGED <<pd, cd, info, net, known, waiting>> /\ UNCHANGED place
      /\ entries' = [entries EXCEPT ![p] = {}] /\ ~Announced(p)
  BY DEF Announce
<1>1. TableType'
  BY <1>0 DEF CatalogInv, TableType
<1>2. entries'[p] = {} /\ \A o \in Owned \ {p} : entries'[o] = entries[o]
  BY <1>0 DEF CatalogInv, TableType
<1>3. /\ TaskType' /\ Tasks'
      /\ \A u, e, o : Covers(u, e, o) => Covers(u, e, o)'
  BY <1>0, PlaceKept DEF CatalogInv
<1>4. Frames'
  <2> SUFFICES ASSUME NEW g \in net PROVE FrameOK(g)'
    BY <1>0 DEF Frames
  <2>1. FrameOK(g)
    BY DEF CatalogInv, Frames
  <2> QED BY <1>0, <2>1, FrameKept
<1>5. Callers' /\ Issued' /\ Unissued'
  BY <1>0 DEF CatalogInv, Callers, Issued, Unissued
<1>6. Listing'
  BY <1>0, <1>2 DEF CatalogInv, Listing, Announced, Belongs
<1>7. Reached'
  <2>1. ASSUME NEW e \in Delivery, NEW o \in Owned, Holds(e, o)'
        PROVE  In(e, o)' \/ (Holds(e, o) /\ ~In(e, o))
    BY <1>0, <1>2, <2>1 DEF Holds, In, Announced
  <2> QED BY <1>0, <1>3, <2>1, ReachedStep DEF CatalogInv
<1> QED BY <1>1, <1>3, <1>4, <1>5, <1>6, <1>7 DEF CatalogInv

(* An answer arrives, or a disconnect is sent. *)
LEMMA MessageCatalog ==
    ASSUME CatalogInv,
           \/ \E f \in net : TryDeliverPendingCtrl(f)
           \/ \E q \in Requester, d \in Delivery : Disconnect(q, d)
    PROVE  CatalogInv'
<1>1. UNCHANGED <<entries, pd, cd, info, known, waiting>> /\ UNCHANGED place
  BY DEF TryDeliverPendingCtrl, Disconnect
<1>2. ASSUME NEW q \in Requester, NEW d \in Delivery, Disconnect(q, d)
      PROVE  \A g \in net' : g \in net \/ FrameOK(g)
  <2> DEFINE g == [kind |-> "disconnect", to |-> At[q], by |-> q, d |-> d]
  <2>1. net' = net \cup {g} /\ d \in known /\ At[q] \in Node
    BY <1>2, StreamAssumption DEF Disconnect
  <2>2. FrameOK(g)
    BY <2>1 DEF FrameOK
  <2> HIDE DEF g
  <2> QED BY <2>1, <2>2
<1>3. \A g \in net' : g \in net \/ FrameOK(g)
  BY <1>2 DEF TryDeliverPendingCtrl
<1> QED BY <1>1, <1>3, TransportCatalog DEF CatalogInv, Callers

(* Every step keeps it. *)
LEMMA StepCatalog == CatalogInv /\ [Next]_vars => CatalogInv'
<1> SUFFICES ASSUME CatalogInv, [Next]_vars PROVE CatalogInv'
  OBVIOUS
<1>1. CASE UNCHANGED vars
  BY <1>1, TransportCatalog DEF vars, CatalogInv, Callers
<1>2. ASSUME NEW f \in net, NEW t \in Task,
             RouteCoordinatorRequest(f, t) \/ RouteDeliveryRequest(f, t)
      PROVE  CatalogInv'
  BY <1>2, ConnectCatalog, DisconnectCatalog
<1>3. ASSUME NEW f \in net, HandlePrivate(f) \/ ForwardPrivate(f) PROVE CatalogInv'
  BY <1>3, HandleCatalog, ForwardCatalog
<1>4. ASSUME NEW t \in Task, TaskStep(t) PROVE CatalogInv'
  BY <1>4, LocalCatalog, CallCatalog, ReturnCatalog, RouteCatalog, EndCatalog DEF TaskStep
<1> QED BY <1>1, <1>2, <1>3, <1>4, WithdrawCatalog, AnnounceCatalog, MessageCatalog DEF Next

(* CatalogReaches: whatever is set up and taken down at the same time, a   *)
(* delivery that prepareProducerLocal or prepareConsumerLocal put into a   *)
(* node's tables is in the entry handleWithdrawLocal will read, or such a  *)
(* withdrawal has it in its list already.                                  *)
THEOREM CatalogFound == Spec => []CatalogReaches
<1>1. CatalogInv => CatalogReaches
  BY DEF CatalogInv, Reached, CatalogReaches, Belongs, Holds, In, Covers
<1> QED BY <1>1, InitCatalog, StepCatalog, PTL DEF Spec

-----------------------------------------------------------------------------
(* Setting up a delivery.  As long as nobody takes it down, the task that  *)
(* sets it up is the only one that works on it, and has one request about  *)
(* it under way at a time.                                                 *)

PathPlace == {"prepP", "prepC", "install", "actP", "actC", "confirm"}
OnPath(t) == pc[t] \in PathPlace

About(f, d) == f.kind \in {"request", "answer"} /\ f.d = d

(* What an ok to the current call says. *)
Done(t) ==
    /\ pc[t] = "actP" => pd[cur[t]] = "active"
    /\ pc[t] = "actC" => cd[cur[t]] = "active"

Alone(t, d) == \A u \in Task \ {t} : (pc[u] = "idle" \/ cur[u] # d) /\ d \notin todo[u]

Token(t, f) ==
    /\ t \in waiting /\ inbox[t] = None
    /\ f.kind = "request" => /\ f.act = Calls[pc[t]].act /\ f.role = Calls[pc[t]].role
    /\ f.kind = "answer" /\ f.ok => Done(t)

Path(t) ==
    /\ cur[t] \notin known /\ Alone(t, cur[t])
    /\ \A f \in net : About(f, cur[t]) => Token(t, f)
    /\ \A f, g \in net : About(f, cur[t]) /\ About(g, cur[t]) => f = g
    /\ inbox[t] # None /\ inbox[t].ok => Done(t)
    /\ pc[t] \in {"actC", "confirm"} => pd[cur[t]] = "active"
    /\ pc[t] = "confirm" => cd[cur[t]] = "active"

(* Answers reach only a task that waits for the delivery. *)
Registered ==
    /\ DOMAIN pendingCtrl = Node /\ \A n \in Node : DOMAIN pendingCtrl[n] = Delivery
    /\ \A n \in Node, d \in Delivery :
          LET t == pendingCtrl[n][d]
          IN  t # None => t \in waiting /\ cur[t] = d /\ node[t] = n

Inboxes == DOMAIN inbox = Task /\ \A t \in Task : t \notin waiting => inbox[t] = None

Paths == \A t \in Task : OnPath(t) /\ cur[t] \notin ended => Path(t)

SetupInv == CatalogInv /\ Registered /\ Inboxes /\ Paths

(* The way of a delivery that is set up: one path, which errors leave. *)
LEMMA PathTable ==
    ASSUME NEW p \in Call
    PROVE  /\ Calls[p].err \notin PathPlace
           /\ p \notin PathPlace => Calls[p].ok \notin PathPlace
           /\ p \in PathPlace =>
                /\ p \in {"prepP", "prepC", "actP", "actC"} /\ Calls[p].ok \in PathPlace
                /\ p \in {"prepP", "actP"} => Calls[p].role = "producer"
                /\ p \in {"prepC", "actC"} => Calls[p].role = "consumer"
                /\ p \in {"actP", "actC"} => Calls[p].act = "activate"
                /\ p = "prepP" => Calls[p].ok = "prepC"
                /\ p = "prepC" => Calls[p].ok = "install"
                /\ p = "actP" => Calls[p].ok = "actC"
                /\ p = "actC" => Calls[p].ok = "confirm"
  BY CallNames DEF Calls, PathPlace

(* Handling a request about one delivery leaves the others alone, and what *)
(* an accepted activation says is so.                                      *)
LEMMA ApplyOthers ==
    ASSUME TableType, NEW n, NEW act, NEW role, NEW d \in Delivery, info[d] # None,
           NEW closeRoute, Apply(n, act, role, d, closeRoute)
    PROVE  /\ \A e \in Delivery \ {d} : pd'[e] = pd[e] /\ cd'[e] = cd[e]
           /\ role = "consumer" => pd' = pd
           /\ role = "producer" => cd' = cd
           /\ act = "activate" /\ Accepts(n, act, role, d) =>
                /\ role = "producer" => pd'[d] = "active"
                /\ role = "consumer" => cd'[d] = "active"
<1> DEFINE mine == Touches(n, role, d)
<1>1. CASE ~Accepts(n, act, role, d)
  BY <1>1 DEF Apply
<1>2. CASE Accepts(n, act, role, d)
  <2>1. /\ pd' = IF info[d].source \in mine THEN [pd EXCEPT ![d] = Becomes(act)] ELSE pd
        /\ cd' = IF info[d].endpoint \in mine THEN [cd EXCEPT ![d] = Becomes(act)] ELSE cd
    BY <1>2 DEF Apply
  <2>2. info[d].source \in Source /\ info[d].endpoint \in Endpoint
    BY DEF TableType, Info
  <2>3. info[d].source # info[d].endpoint
    BY <2>2, StreamAssumption
  <2>4. /\ role = "consumer" => info[d].source \notin mine
        /\ role = "producer" => info[d].endpoint \notin mine
    BY <2>3 DEF Touches, Side
  <2>5. ASSUME act = "activate", role \in {"producer", "consumer"}
        PROVE  Side(role, d) \in mine /\ Becomes(act) = "active"
    BY <1>2, <2>5 DEF Accepts, Touches, Becomes, Side
  <2> HIDE DEF mine
  <2>6. \A e \in Delivery \ {d} : pd'[e] = pd[e] /\ cd'[e] = cd[e]
    BY <2>1 DEF TableType
  <2>7. ASSUME act = "activate", role = "producer" PROVE pd'[d] = "active"
    BY <2>1, <2>5, <2>7 DEF TableType, Side
  <2>8. ASSUME act = "activate", role = "consumer" PROVE cd'[d] = "active"
    BY <2>1, <2>5, <2>8 DEF TableType, Side
  <2> QED BY <2>1, <2>4, <2>6, <2>7, <2>8
<1> QED BY <1>1, <1>2

(* Where going on can lead a task. *)
LEMMA GoesOnWithin ==
    ASSUME TaskType, NEW t \in Task, NEW there, GoesOn(t, there)
    PROVE  /\ cur'[t] \in {cur[t], None} \cup todo[t] /\ todo'[t] \subseteq todo[t]
           /\ pc'[t] \in {there, "idle", "end"}
           /\ there \in PathPlace => pc'[t] = there /\ cur'[t] = cur[t] /\ node'[t] = node[t]
<1>1. \/ Finishes(t)
      \/ TakesNext(t, todo[t])
      \/ pc' = [pc EXCEPT ![t] = there] /\ UNCHANGED <<node, cur, todo, owned>>
  BY DEF GoesOn
<1>2. there \in PathPlace => pc' = [pc EXCEPT ![t] = there] /\ UNCHANGED <<node, cur, todo, owned>>
  BY DEF GoesOn, PathPlace
<1> QED BY <1>1, <1>2 DEF Finishes, TakesNext, TaskType

(* A task's path is kept by steps that are about other deliveries. *)
LEMMA PathKept ==
    ASSUME NEW t \in Task, Path(t), NEW d, d = cur[t],
           pc'[t] = pc[t], cur'[t] = d, t \in waiting' <=> t \in waiting, inbox'[t] = inbox[t],
           pd'[d] = pd[d], cd'[d] = cd[d],
           \A f \in net' : About(f, d) => f \in net,
           Alone(t, d)', d \notin known'
    PROVE  Path(t)'
<1>1. Done(t)' <=> Done(t)
  BY DEF Done
<1>2. \A f \in net' : About(f, d) => Token(t, f)'
  BY <1>1 DEF Path, Token
<1>3. \A f, g \in net' : About(f, d) /\ About(g, d) => f = g
  BY DEF Path
<1>4. \A f : About(f, cur[t])' <=> About(f, d)
  BY DEF About
<1> QED BY <1>1, <1>2, <1>3, <1>4 DEF Path

(* A step of another task. *)
LEMMA OtherPaths ==
    ASSUME SetupInv, NEW u \in Task, pc[u] # "idle",
           \A w \in Task \ {u} : /\ pc'[w] = pc[w] /\ cur'[w] = cur[w] /\ todo'[w] = todo[w]
                                 /\ inbox'[w] = inbox[w] /\ (w \in waiting' <=> w \in waiting),
           cur'[u] \in {cur[u], None} \cup todo[u], todo'[u] \subseteq todo[u],
           \A e \in Delivery \ {cur[u]} :
              /\ pd'[e] = pd[e] /\ cd'[e] = cd[e]
              /\ \A f \in net' : About(f, e) => f \in net,
           known' \subseteq known \cup {cur[u]}, ended \subseteq ended'
    PROVE  \A t \in Task \ {u} : OnPath(t)' /\ cur'[t] \notin ended' => Path(t)'
<1> SUFFICES ASSUME NEW t \in Task \ {u}, OnPath(t)', cur'[t] \notin ended'
             PROVE  Path(t)'
  OBVIOUS
<1>1. PICK d : d = cur[t]
  OBVIOUS
<1>2. Path(t) /\ d \in Delivery
  <2>1. OnPath(t) /\ d \notin ended
    BY <1>1 DEF OnPath
  <2>2. pc[t] # "idle"
    BY <2>1 DEF OnPath, PathPlace
  <2> QED BY <1>1, <2>1, <2>2 DEF SetupInv, Paths, CatalogInv, Tasks, TaskOK
<1>3. d # cur[u] /\ d \notin todo[u] /\ d # None
  BY <1>1, <1>2, StreamAssumption DEF Path, Alone
<1>4. Alone(t, d)'
  BY <1>1, <1>2, <1>3 DEF Path, Alone
<1>5. d \notin known'
  BY <1>1, <1>2, <1>3 DEF Path
<1> QED BY <1>1, <1>2, <1>3, <1>4, <1>5, PathKept

(* Registrations and channels when a task that does not wait goes on. *)
LEMMA WaitsKept ==
    ASSUME SetupInv, UNCHANGED <<pendingCtrl, inbox, waiting>>, NEW u \in Task, u \notin waiting,
           \A w \in Task \ {u} : cur'[w] = cur[w] /\ node'[w] = node[w]
    PROVE  Registered' /\ Inboxes'
<1>1. Inboxes'
  BY DEF SetupInv, Inboxes
<1>2. ASSUME NEW n \in Node, NEW d \in Delivery, pendingCtrl[n][d] # None
      PROVE  LET t == pendingCtrl[n][d] IN t \in waiting /\ cur'[t] = d /\ node'[t] = n
  <2>1. PICK t : t = pendingCtrl[n][d]
    OBVIOUS
  <2>2. t \in waiting /\ cur[t] = d /\ node[t] = n
    BY <1>2, <2>1 DEF SetupInv, Registered
  <2>3. t \in Task \ {u}
    BY <2>2 DEF SetupInv, CatalogInv, Callers
  <2> QED BY <2>1, <2>2, <2>3
<1>3. Registered'
  BY <1>2 DEF SetupInv, Registered
<1> QED BY <1>1, <1>3

(* A task that goes on along its path has nothing about its delivery under *)
(* way.                                                                    *)
LEMMA OwnPath ==
    ASSUME SetupInv, NEW t \in Task, OnPath(t), cur[t] \notin ended,
           NEW d, d = cur[t], cur'[t] = d, OnPath(t)', UNCHANGED <<net, known>>,
           t \notin waiting \/ inbox[t] # None, inbox'[t] = None,
           \A u \in Task \ {t} : pc'[u] = pc[u] /\ cur'[u] = cur[u] /\ todo'[u] = todo[u],
           pc'[t] \in {"actC", "confirm"} => pd'[d] = "active",
           pc'[t] = "confirm" => cd'[d] = "active"
    PROVE  Path(t)'
<1>1. Path(t)
  BY DEF SetupInv, Paths
<1>2. Alone(t, d)'
  BY <1>1 DEF Path, Alone
<1>3. \A f \in net' : ~About(f, d)
  BY <1>1 DEF Path, Token
<1>4. \A f : About(f, cur[t])' <=> About(f, d)
  BY DEF About
<1> QED BY <1>1, <1>2, <1>3, <1>4 DEF Path

(* A call of the node itself. *)
LEMMA LocalSetup ==
    ASSUME SetupInv, NEW t \in Task, CallLocal(t)
    PROVE  Registered' /\ Inboxes' /\ Paths'
<1> DEFINE call == Calls[pc[t]]
           there == IF Accepts(node[t], call.act, call.role, cur[t]) THEN call.ok ELSE call.err
<1>1. /\ pc[t] \in Call /\ t \notin waiting
      /\ Apply(node[t], call.act, call.role, cur[t], ClosesRoute(t, node[t]))
      /\ GoesOn(t, there) /\ UNCHANGED <<info, net, known, ended>> /\ UNCHANGED waits
  BY DEF CallLocal
<1>2. pc[t] # "idle" /\ TaskType /\ TableType
  BY <1>1, CallNames DEF SetupInv, CatalogInv
<1>3. cur[t] \in Delivery /\ info[cur[t]] # None
  BY <1>2 DEF SetupInv, CatalogInv, Tasks, TaskOK
<1>4. \A w \in Task \ {t} : /\ pc'[w] = pc[w] /\ node'[w] = node[w] /\ cur'[w] = cur[w]
                            /\ todo'[w] = todo[w]
  BY <1>1, <1>2, GoesOnAlone
<1>5. Registered' /\ Inboxes'
  BY <1>1, <1>4, WaitsKept
<1>6. /\ cur'[t] \in {cur[t], None} \cup todo[t] /\ todo'[t] \subseteq todo[t]
      /\ pc'[t] \in {there, "idle", "end"}
      /\ there \in PathPlace => pc'[t] = there /\ cur'[t] = cur[t]
  BY <1>1, <1>2, GoesOnWithin
<1>7. /\ \A e \in Delivery \ {cur[t]} : pd'[e] = pd[e] /\ cd'[e] = cd[e]
      /\ call.role = "consumer" => pd' = pd
      /\ call.role = "producer" => cd' = cd
      /\ call.act = "activate" /\ Accepts(node[t], call.act, call.role, cur[t]) =>
           /\ call.role = "producer" => pd'[cur[t]] = "active"
           /\ call.role = "consumer" => cd'[cur[t]] = "active"
  BY <1>1, <1>2, <1>3, ApplyOthers
<1>8. ASSUME OnPath(t)', cur'[t] \notin ended' PROVE Path(t)'
  <2>1. /\ there \in PathPlace /\ pc'[t] = there /\ cur'[t] = cur[t]
        /\ pc[t] \in PathPlace /\ there = call.ok
        /\ Accepts(node[t], call.act, call.role, cur[t])
    BY <1>1, <1>6, <1>8, PathTable DEF OnPath, PathPlace
  <2>2. OnPath(t) /\ cur[t] \notin ended /\ inbox[t] = None
    BY <1>1, <1>8, <2>1 DEF OnPath, SetupInv, Inboxes
  <2>3. Path(t)
    BY <2>2 DEF SetupInv, Paths
  <2>4. there \in {"actC", "confirm"} => pd'[cur[t]] = "active"
    <3>1. CASE pc[t] = "actP"
      BY <1>1, <1>7, <2>1, <3>1, PathTable
    <3>2. CASE pc[t] = "actC"
      BY <1>1, <1>7, <2>1, <2>3, <3>2, PathTable DEF Path
    <3> QED BY <1>1, <2>1, <3>1, <3>2, PathTable
  <2>5. there = "confirm" => cd'[cur[t]] = "active"
    <3>1. CASE pc[t] = "actC"
      BY <1>1, <1>7, <2>1, <3>1, PathTable
    <3> QED BY <1>1, <2>1, <3>1, PathTable
  <2> HIDE DEF there
  <2> QED BY <1>1, <1>4, <1>8, <2>1, <2>2, <2>4, <2>5, OwnPath
<1>9. Paths'
  <2>1. \A u \in Task \ {t} : OnPath(u)' /\ cur'[u] \notin ended' => Path(u)'
    BY <1>1, <1>2, <1>4, <1>6, <1>7, OtherPaths
  <2> QED BY <1>8, <2>1 DEF Paths
<1> QED BY <1>5, <1>9

(* A task calls another node. *)
LEMMA CallSetup ==
    ASSUME SetupInv, NEW t \in Task, CallPrivate(t)
    PROVE  Registered' /\ Inboxes' /\ Paths'
<1>0. PICK g : g = [kind |-> "request", to |-> NextHop(node[t], Target(t)), target |-> Target(t),
                    from |-> node[t], act |-> Calls[pc[t]].act, role |-> Calls[pc[t]].role,
                    d |-> cur[t], closeRoute |-> ClosesRoute(t, Target(t)), task |-> t]
  OBVIOUS
<1>1. /\ pc[t] \in Call /\ t \notin waiting /\ waiting' = waiting \cup {t} /\ net' = net \cup {g}
      /\ pendingCtrl' = [pendingCtrl EXCEPT ![node[t]][cur[t]] = t]
      /\ UNCHANGED <<pd, cd, info, inbox, known, ended>> /\ UNCHANGED place
  BY <1>0 DEF CallPrivate
<1>2. /\ g.kind = "request" /\ g.d = cur[t] /\ g.act = Calls[pc[t]].act
      /\ g.role = Calls[pc[t]].role
  BY <1>0
<1>3. pc[t] # "idle" /\ node[t] \in Node /\ cur[t] \in Delivery
  BY <1>1, CallNames DEF SetupInv, CatalogInv, Tasks, TaskOK
<1>4. Inboxes'
  BY <1>1 DEF SetupInv, Inboxes
<1>5. Registered'
  <2>1. DOMAIN pendingCtrl' = Node /\ \A n \in Node : DOMAIN pendingCtrl'[n] = Delivery
    BY <1>1 DEF SetupInv, Registered
  <2>2. ASSUME NEW n \in Node, NEW d \in Delivery, NEW u, u = pendingCtrl'[n][d], u # None
        PROVE  u \in waiting' /\ cur'[u] = d /\ node'[u] = n
    <3>1. CASE n = node[t] /\ d = cur[t]
      <4>1. u = t
        BY <1>1, <1>3, <2>2, <3>1 DEF SetupInv, Registered
      <4> QED BY <1>1, <3>1, <4>1
    <3>2. CASE ~ (n = node[t] /\ d = cur[t])
      <4>1. u = pendingCtrl[n][d]
        BY <1>1, <1>3, <2>2, <3>2 DEF SetupInv, Registered
      <4> QED BY <1>1, <2>2, <4>1 DEF SetupInv, Registered
    <3> QED BY <3>1, <3>2
  <2> QED BY <2>1, <2>2 DEF Registered
<1>6. ASSUME NEW e \in Delivery \ {cur[t]}, NEW f \in net', About(f, e) PROVE f \in net
  BY <1>1, <1>2, <1>6 DEF About
<1>7. \A u \in Task \ {t} : OnPath(u)' /\ cur'[u] \notin ended' => Path(u)'
  BY <1>1, <1>3, <1>6, OtherPaths
<1>8. ASSUME OnPath(t)', cur'[t] \notin ended' PROVE Path(t)'
  <2>1. Path(t) /\ inbox[t] = None
    BY <1>1, <1>8 DEF SetupInv, Paths, OnPath, Inboxes
  <2>2. \A f \in net : ~About(f, cur[t])
    BY <1>1, <2>1 DEF Path, Token
  <2>3. \A f \in net' : About(f, cur[t])' => f = g
    BY <1>1, <2>2 DEF About
  <2>4. Token(t, g)'
    BY <1>1, <1>2, <2>1 DEF Token
  <2>5. Alone(t, cur[t])'
    BY <1>1, <2>1 DEF Path, Alone
  <2> QED BY <1>1, <2>1, <2>3, <2>4, <2>5 DEF Path
<1> QED BY <1>4, <1>5, <1>7, <1>8 DEF Paths

(* A call ends with an answer, or without. *)
LEMMA ReturnSetup ==
    ASSUME SetupInv, NEW t \in Task, ReceiveAnswer(t) \/ CallTimesOut(t)
    PROVE  Registered' /\ Inboxes' /\ Paths'
<1>1. /\ t \in waiting /\ waiting' = waiting \ {t} /\ inbox' = [inbox EXCEPT ![t] = None]
      /\ pendingCtrl' = [pendingCtrl EXCEPT ![node[t]][cur[t]] = None]
      /\ UNCHANGED <<pd, cd, info, net, known, ended>>
  BY DEF ReceiveAnswer, CallTimesOut, Returns
<1>2. /\ pc[t] \in Call /\ pc[t] # "idle" /\ TaskType
      /\ node[t] \in Node /\ cur[t] \in Delivery
  BY <1>1, CallNames DEF SetupInv, CatalogInv, Callers, Tasks, TaskOK
<1>3. PICK there \in {Calls[pc[t]].ok, Calls[pc[t]].err} :
         /\ GoesOn(t, there)
         /\ there = Calls[pc[t]].err \/ (inbox[t] # None /\ inbox[t].ok)
  BY DEF ReceiveAnswer, CallTimesOut
<1>4. \A w \in Task \ {t} : /\ pc'[w] = pc[w] /\ node'[w] = node[w] /\ cur'[w] = cur[w]
                            /\ todo'[w] = todo[w]
  BY <1>2, <1>3, GoesOnAlone
<1>5. inbox'[t] = None /\ \A w \in Task \ {t} : inbox'[w] = inbox[w]
  BY <1>1 DEF SetupInv, Inboxes
<1>6. Inboxes'
  BY <1>1, <1>5 DEF SetupInv, Inboxes
<1>7. Registered'
  <2>1. DOMAIN pendingCtrl' = Node /\ \A n \in Node : DOMAIN pendingCtrl'[n] = Delivery
    BY <1>1 DEF SetupInv, Registered
  <2>2. ASSUME NEW n \in Node, NEW d \in Delivery, NEW u, u = pendingCtrl'[n][d], u # None
        PROVE  u \in waiting' /\ cur'[u] = d /\ node'[u] = n
    <3>1. ~ (n = node[t] /\ d = cur[t])
      BY <1>1, <1>2, <2>2 DEF SetupInv, Registered
    <3>2. u = pendingCtrl[n][d]
      BY <1>1, <1>2, <2>2, <3>1 DEF SetupInv, Registered
    <3>3. u \in waiting /\ cur[u] = d /\ node[u] = n
      BY <2>2, <3>2 DEF SetupInv, Registered
    <3>4. u \in Task \ {t}
      BY <3>1, <3>3 DEF SetupInv, CatalogInv, Callers
    <3> QED BY <1>1, <1>4, <3>3, <3>4
  <2> QED BY <2>1, <2>2 DEF Registered
<1>8. /\ cur'[t] \in {cur[t], None} \cup todo[t] /\ todo'[t] \subseteq todo[t]
      /\ pc'[t] \in {there, "idle", "end"}
      /\ there \in PathPlace => pc'[t] = there /\ cur'[t] = cur[t]
  BY <1>2, <1>3, GoesOnWithin
<1>9. \A u \in Task \ {t} : OnPath(u)' /\ cur'[u] \notin ended' => Path(u)'
  BY <1>1, <1>2, <1>4, <1>5, <1>8, OtherPaths
<1>10. ASSUME OnPath(t)', cur'[t] \notin ended' PROVE Path(t)'
  <2>1. /\ there \in PathPlace /\ pc'[t] = there /\ cur'[t] = cur[t]
        /\ pc[t] \in PathPlace /\ there = Calls[pc[t]].ok /\ inbox[t] # None /\ inbox[t].ok
    BY <1>2, <1>3, <1>8, <1>10, PathTable DEF OnPath, PathPlace
  <2>2. OnPath(t) /\ cur[t] \notin ended
    BY <1>1, <1>10, <2>1 DEF OnPath
  <2>3. Path(t) /\ Done(t)
    BY <2>1, <2>2 DEF SetupInv, Paths, Path
  <2>4. there \in {"actC", "confirm"} => pd'[cur[t]] = "active"
    BY <1>1, <1>2, <2>1, <2>3, PathTable DEF Path, Done
  <2>5. there = "confirm" => cd'[cur[t]] = "active"
    BY <1>1, <1>2, <2>1, <2>3, PathTable DEF Path, Done
  <2> QED BY <1>1, <1>4, <1>5, <1>10, <2>1, <2>2, <2>4, <2>5, OwnPath
<1> QED BY <1>6, <1>7, <1>9, <1>10 DEF Paths

(* The coordinator's own steps, and the first of a withdrawal. *)
LEMMA RouteSetup ==
    ASSUME SetupInv, NEW t \in Task,
           \/ InstallRoute(t) \/ ConfirmRoute(t) \/ RemoveRoute(t) \/ MarkClosing(t)
           \/ EndLocal(t)
    PROVE  Registered' /\ Inboxes' /\ Paths'
<1>1. PICK there : /\ GoesOn(t, there)
                   /\ there \notin PathPlace \/ (there = "actP" /\ pc[t] = "install")
  <2>1. CASE InstallRoute(t)
    BY <2>1 DEF InstallRoute
  <2>2. CASE ConfirmRoute(t) \/ RemoveRoute(t)
    <3>1. GoesOn(t, "idle") /\ "idle" \notin PathPlace
      BY <2>2 DEF GoesOn, ConfirmRoute, RemoveRoute, PathPlace
    <3> QED BY <3>1
  <2>3. CASE MarkClosing(t)
    <3>1. GoesOn(t, "shutP") /\ "shutP" \notin PathPlace
      BY <2>3 DEF MarkClosing, PathPlace
    <3> QED BY <3>1
  <2>4. CASE EndLocal(t)
    <3>1. PICK there \in {"tellK", "tellC", "tellP"} : GoesOn(t, there)
      BY <2>4 DEF EndLocal
    <3>2. there \notin PathPlace
      BY <3>1 DEF PathPlace
    <3> QED BY <3>1, <3>2
  <2> QED BY <2>1, <2>2, <2>3, <2>4
<1>2. /\ pc[t] \in {"install", "confirm", "remove", "closing", "end"}
      /\ UNCHANGED <<info, net>> /\ UNCHANGED waits
      /\ known' = known \/ (known' = known \cup {cur[t]} /\ pc[t] = "confirm")
      /\ ended \subseteq ended'
      /\ UNCHANGED <<pd, cd>> \/ EndLocal(t)
  BY DEF InstallRoute, ConfirmRoute, RemoveRoute, MarkClosing, EndLocal
<1>3. pc[t] # "idle" /\ pc[t] \notin Call /\ TaskType /\ TableType /\ t \notin waiting
  BY <1>2, CallNames DEF SetupInv, CatalogInv, Callers
<1>4. cur[t] \in Delivery /\ info[cur[t]] # None
  BY <1>3 DEF SetupInv, CatalogInv, Tasks, TaskOK
<1>5. \A w \in Task \ {t} : /\ pc'[w] = pc[w] /\ node'[w] = node[w] /\ cur'[w] = cur[w]
                            /\ todo'[w] = todo[w]
  BY <1>1, <1>3, GoesOnAlone
<1>6. Registered' /\ Inboxes'
  BY <1>2, <1>3, <1>5, WaitsKept
<1>7. /\ cur'[t] \in {cur[t], None} \cup todo[t] /\ todo'[t] \subseteq todo[t]
      /\ pc'[t] \in {there, "idle", "end"}
      /\ there \in PathPlace => pc'[t] = there /\ cur'[t] = cur[t]
  BY <1>1, <1>3, GoesOnWithin
<1>8. \A e \in Delivery \ {cur[t]} : pd'[e] = pd[e] /\ cd'[e] = cd[e]
  <2>1. CASE EndLocal(t)
    <3>1. PICK n, act, role, d, closeRoute : d = cur[t] /\ Apply(n, act, role, d, closeRoute)
      BY <2>1 DEF EndLocal
    <3>2. d \in Delivery /\ info[d] # None /\ TableType /\ Apply(n, act, role, d, closeRoute)
      BY <1>3, <1>4, <3>1
    <3>3. \A e \in Delivery \ {d} : pd'[e] = pd[e] /\ cd'[e] = cd[e]
      BY <3>2, ApplyOthers
    <3> QED BY <3>1, <3>3
  <2> QED BY <1>2, <2>1
<1>9. \A u \in Task \ {t} : OnPath(u)' /\ cur'[u] \notin ended' => Path(u)'
  BY <1>2, <1>3, <1>5, <1>7, <1>8, OtherPaths
<1>10. ASSUME OnPath(t)', cur'[t] \notin ended' PROVE Path(t)'
  <2>1. pc[t] = "install" /\ pc'[t] = "actP" /\ cur'[t] = cur[t]
    BY <1>1, <1>7, <1>10 DEF OnPath, PathPlace
  <2>2. OnPath(t) /\ cur[t] \notin ended /\ inbox[t] = None /\ UNCHANGED <<net, known, inbox>>
    BY <1>2, <1>3, <1>10, <2>1 DEF OnPath, PathPlace, SetupInv, Inboxes
  <2> QED BY <1>3, <1>5, <1>10, <2>1, <2>2, OwnPath
<1> QED BY <1>6, <1>9, <1>10 DEF Paths

(* A private request is handled: if it is about a delivery that is set up, *)
(* it is the one its task waits for.                                       *)
LEMMA HandleSetup ==
    ASSUME SetupInv, NEW f \in net, HandlePrivate(f)
    PROVE  Registered' /\ Inboxes' /\ Paths'
<1>1. /\ Apply(f.to, f.act, f.role, f.d, f.closeRoute) /\ f.kind = "request"
      /\ UNCHANGED <<info, known, ended>> /\ UNCHANGED place /\ UNCHANGED waits
  BY DEF HandlePrivate
<1>2. f.d \in Delivery /\ info[f.d] # None /\ TableType
  BY <1>1 DEF SetupInv, CatalogInv, Frames, FrameOK
<1>3. PICK ok : ok = Accepts(f.to, f.act, f.role, f.d)
  OBVIOUS
<1>4. PICK g : g = [kind |-> "answer", to |-> f.from, act |-> f.act, d |-> f.d,
                    ok |-> ok, task |-> f.task]
  OBVIOUS
<1>5. net' = (net \ {f}) \cup {g} /\ g.kind = "answer" /\ g.d = f.d /\ g.ok = ok
  BY <1>3, <1>4 DEF HandlePrivate
<1>6. /\ \A e \in Delivery \ {f.d} : pd'[e] = pd[e] /\ cd'[e] = cd[e]
      /\ f.role = "consumer" => pd' = pd
      /\ f.act = "activate" /\ ok =>
           /\ f.role = "producer" => pd'[f.d] = "active"
           /\ f.role = "consumer" => cd'[f.d] = "active"
  BY <1>1, <1>2, <1>3, ApplyOthers
<1>7. Registered' /\ Inboxes'
  BY <1>1 DEF SetupInv, Registered, Inboxes
<1>8. ASSUME NEW t \in Task, OnPath(t)', cur'[t] \notin ended' PROVE Path(t)'
  <2>1. PICK d : d = cur[t]
    OBVIOUS
  <2>2. Path(t) /\ d \in Delivery /\ cur'[t] = d /\ pc'[t] = pc[t] /\ pc[t] \in PathPlace
    BY <1>1, <1>8, <2>1 DEF SetupInv, Paths, OnPath, PathPlace, CatalogInv, Tasks, TaskOK
  <2>3. Alone(t, d)' /\ d \notin known'
    BY <1>1, <2>1, <2>2 DEF Path, Alone
  <2>4. CASE f.d # d
    <3>1. \A h \in net' : About(h, d) => h \in net
      BY <1>5, <2>4 DEF About
    <3> QED BY <1>1, <1>6, <2>1, <2>2, <2>3, <2>4, <3>1, PathKept
  <2>5. CASE f.d = d
    <3>1. Token(t, f)
      BY <1>1, <2>1, <2>2, <2>5 DEF Path, About
    <3>2. \A h \in net' : About(h, d) => h = g
      BY <1>1, <1>5, <2>1, <2>2, <2>5 DEF Path, About
    <3>3. /\ t \in waiting /\ inbox[t] = None
          /\ f.act = Calls[pc[t]].act /\ f.role = Calls[pc[t]].role
      BY <1>1, <3>1 DEF Token
    <3>4. pc[t] \in Call
      BY <3>3 DEF SetupInv, CatalogInv, Callers
    <3>5. ok => Done(t)'
      BY <1>6, <2>2, <2>5, <3>3, <3>4, PathTable DEF Done
    <3>6. pc[t] \in {"actC", "confirm"} => pd'[d] = "active"
      <4>1. CASE pc[t] = "actC"
        BY <1>6, <2>1, <2>2, <3>3, <3>4, <4>1, PathTable DEF Path
      <4>2. pc[t] # "confirm"
        BY <3>4, CallNames
      <4> QED BY <4>1, <4>2
    <3>7. Token(t, g)'
      BY <1>1, <1>5, <3>3, <3>5 DEF Token
    <3>8. \A h : About(h, cur[t])' <=> About(h, d)
      BY <2>2 DEF About
    <3>9. pc[t] # "confirm"
      BY <3>4, CallNames
    <3> QED BY <1>1, <2>1, <2>2, <2>3, <3>2, <3>3, <3>6, <3>7, <3>8, <3>9 DEF Path
  <2> QED BY <2>4, <2>5
<1> QED BY <1>7, <1>8 DEF Paths

(* A request goes on: it is the same request. *)
LEMMA ForwardSetup ==
    ASSUME SetupInv, NEW f \in net, ForwardPrivate(f)
    PROVE  Registered' /\ Inboxes' /\ Paths'
<1>1. /\ f.kind = "request" /\ UNCHANGED <<pd, cd, info, known, ended>>
      /\ UNCHANGED place /\ UNCHANGED waits
  BY DEF ForwardPrivate
<1>2. PICK g : g = [f EXCEPT !.to = NextHop(f.to, f.target)]
  OBVIOUS
<1>3. /\ net' = (net \ {f}) \cup {g} /\ g.kind = "request" /\ g.d = f.d /\ g.act = f.act
      /\ g.role = f.role
  <2>1. DOMAIN f = {"kind", "to", "target", "from", "act", "role", "d", "closeRoute", "task"}
    BY <1>1 DEF SetupInv, CatalogInv, Frames, FrameOK
  <2> QED BY <1>1, <1>2, <2>1 DEF ForwardPrivate
<1>4. Registered' /\ Inboxes'
  BY <1>1 DEF SetupInv, Registered, Inboxes
<1>5. ASSUME NEW t \in Task, OnPath(t)', cur'[t] \notin ended' PROVE Path(t)'
  <2>1. PICK d : d = cur[t]
    OBVIOUS
  <2>2. Path(t) /\ cur'[t] = d
    BY <1>1, <1>5, <2>1 DEF SetupInv, Paths, OnPath
  <2>3. Alone(t, d)' /\ d \notin known'
    BY <1>1, <2>1, <2>2 DEF Path, Alone
  <2>4. CASE f.d # d
    <3>1. \A h \in net' : About(h, d) => h \in net
      BY <1>3, <2>4 DEF About
    <3> QED BY <1>1, <2>1, <2>2, <2>3, <3>1, PathKept
  <2>5. CASE f.d = d
    <3>1. Token(t, f) /\ \A h \in net' : About(h, d) => h = g
      BY <1>1, <1>3, <2>1, <2>2, <2>5 DEF Path, About
    <3>2. Token(t, g)'
      BY <1>1, <1>3, <3>1 DEF Token
    <3>3. \A h : About(h, cur[t])' <=> About(h, d)
      BY <2>2 DEF About
    <3>4. inbox[t] = None
      BY <3>1 DEF Token
    <3> QED BY <1>1, <2>1, <2>2, <2>3, <3>1, <3>2, <3>3, <3>4 DEF Path
  <2> QED BY <2>4, <2>5
<1> QED BY <1>4, <1>5 DEF Paths

(* An answer arrives. *)
LEMMA DeliverSetup ==
    ASSUME SetupInv, NEW f \in net, TryDeliverPendingCtrl(f)
    PROVE  Registered' /\ Inboxes' /\ Paths'
<1>1. /\ f.kind = "answer" /\ net' = net \ {f}
      /\ UNCHANGED <<pd, cd, info, known, ended, pendingCtrl, waiting>> /\ UNCHANGED place
  BY DEF TryDeliverPendingCtrl
<1>2. f.d \in Delivery /\ f.to \in Node
  BY <1>1 DEF SetupInv, CatalogInv, Frames, FrameOK
<1>3. PICK u : u = pendingCtrl[f.to][f.d]
  OBVIOUS
<1>4. \/ inbox' = inbox
      \/ u # None /\ inbox[u] = None /\ inbox' = [inbox EXCEPT ![u] = [act |-> f.act, ok |-> f.ok]]
  BY <1>3 DEF TryDeliverPendingCtrl
<1>5. u # None => u \in waiting /\ u \in Task /\ cur[u] = f.d
  BY <1>2, <1>3 DEF SetupInv, Registered, CatalogInv, Callers
<1>6. Registered' /\ Inboxes'
  BY <1>1, <1>4, <1>5 DEF SetupInv, Registered, Inboxes
<1>7. ASSUME NEW t \in Task, OnPath(t)', cur'[t] \notin ended' PROVE Path(t)'
  <2>1. PICK d : d = cur[t]
    OBVIOUS
  <2>2. Path(t) /\ cur'[t] = d
    BY <1>1, <1>7, <2>1 DEF SetupInv, Paths, OnPath
  <2>3. Alone(t, d)' /\ d \notin known'
    BY <1>1, <2>1, <2>2 DEF Path, Alone
  <2>4. CASE inbox'[t] = inbox[t]
    BY <1>1, <2>1, <2>2, <2>3, <2>4, PathKept
  <2>5. CASE inbox'[t] # inbox[t]
    <3>1. u = t /\ f.d = d /\ inbox'[t] = [act |-> f.act, ok |-> f.ok]
      BY <1>4, <1>5, <2>1, <2>5 DEF SetupInv, Inboxes
    <3>2. Token(t, f) /\ \A h \in net' : ~About(h, d)
      BY <1>1, <2>1, <2>2, <3>1 DEF Path, About
    <3>3. inbox'[t].ok => Done(t)'
      BY <1>1, <3>1, <3>2 DEF Token, Done
    <3>4. \A h : About(h, cur[t])' <=> About(h, d)
      BY <2>2 DEF About
    <3> QED BY <1>1, <2>1, <2>2, <2>3, <3>2, <3>3, <3>4 DEF Path
  <2> QED BY <2>4, <2>5
<1> QED BY <1>6, <1>7 DEF Paths

(* Requests of users, announcements: no private frame and no channel.      *)
LEMMA UserSetup ==
    ASSUME SetupInv, UNCHANGED <<pd, cd, known>>, UNCHANGED place, UNCHANGED waits,
           ended \subseteq ended',
           \A d : \A f \in net' : About(f, d) => f \in net
    PROVE  Registered' /\ Inboxes' /\ Paths'
<1>1. Registered' /\ Inboxes'
  BY DEF SetupInv, Registered, Inboxes
<1>2. ASSUME NEW t \in Task, OnPath(t)', cur'[t] \notin ended' PROVE Path(t)'
  <2>1. Path(t)
    BY <1>2 DEF SetupInv, Paths, OnPath
  <2>2. PICK d : d = cur[t]
    OBVIOUS
  <2>3. Alone(t, d)' /\ d \notin known'
    BY <2>1, <2>2 DEF Path, Alone
  <2> QED BY <2>1, <2>2, <2>3, PathKept
<1> QED BY <1>1, <1>2 DEF Paths

(* A user's frame on its way up is no private frame. *)
LEMMA ForwardPublic ==
    ASSUME NEW f \in net, FrameOK(f), f.kind \in {"connect", "disconnect"}, Forward(f)
    PROVE  \A d : \A g \in net' : About(g, d) => g \in net
<1>1. PICK g : g = [f EXCEPT !.to = Parent[f.to]]
  OBVIOUS
<1>2. "kind" \in DOMAIN f
  BY DEF FrameOK
<1>3. g.kind = f.kind
  BY <1>1, <1>2
<1>4. \A h \in net' : h \in net \/ h = g
  BY <1>1 DEF Forward
<1> QED BY <1>3, <1>4 DEF About

(* A task starts: those that set up other deliveries go on undisturbed.    *)
LEMMA StartOthers ==
    ASSUME SetupInv, NEW t \in Task, NEW n, NEW d, NEW there, Starts(t, n, d, there),
           UNCHANGED <<pd, cd, known>>, UNCHANGED waits, ended \subseteq ended',
           \A e : \A f \in net' : About(f, e) => f \in net,
           \A u \in Task \ {t} : OnPath(u) /\ cur[u] \notin ended => cur[u] # d
    PROVE  /\ Registered' /\ Inboxes'
           /\ \A u \in Task \ {t} : OnPath(u)' /\ cur'[u] \notin ended' => Path(u)'
<1>1. /\ pc[t] = "idle" /\ cur' = [cur EXCEPT ![t] = d] /\ pc' = [pc EXCEPT ![t] = there]
      /\ node' = [node EXCEPT ![t] = n] /\ UNCHANGED todo /\ TaskType
  BY DEF Starts, SetupInv, CatalogInv
<1>2. t \notin waiting
  BY <1>1, CallNames DEF SetupInv, CatalogInv, Callers
<1>3. \A u \in Task \ {t} : pc'[u] = pc[u] /\ cur'[u] = cur[u] /\ node'[u] = node[u]
  BY <1>1 DEF TaskType
<1>4. cur'[t] = d
  BY <1>1 DEF TaskType
<1>5. Registered' /\ Inboxes'
  BY <1>2, <1>3, WaitsKept
<1>6. ASSUME NEW u \in Task \ {t}, OnPath(u)', cur'[u] \notin ended' PROVE Path(u)'
  <2>1. OnPath(u) /\ cur[u] \notin ended /\ Path(u) /\ cur[u] # d
    BY <1>3, <1>6 DEF OnPath, SetupInv, Paths
  <2>2. PICK e : e = cur[u]
    OBVIOUS
  <2>3. Alone(u, e)' /\ e \notin known'
    BY <1>1, <1>3, <1>4, <2>1, <2>2 DEF Path, Alone
  <2> QED BY <1>3, <2>1, <2>2, <2>3, PathKept
<1> QED BY <1>5, <1>6

(* A connect: the delivery is a new one. *)
LEMMA ConnectSetup ==
    ASSUME SetupInv, NEW f \in net, NEW t \in Task, RouteCoordinatorRequest(f, t)
    PROVE  Registered' /\ Inboxes' /\ Paths'
<1>0. /\ UNCHANGED <<pd, cd, known, ended>> /\ UNCHANGED waits
      /\ f.kind = "connect" /\ FrameOK(f)
  BY DEF RouteCoordinatorRequest, SetupInv, CatalogInv, Frames
<1>1. CASE UNCHANGED place /\ (Forward(f) \/ net' = net \ {f})
  <2>1. \A d : \A g \in net' : About(g, d) => g \in net
    BY <1>0, <1>1, ForwardPublic
  <2> QED BY <1>0, <1>1, <2>1, UserSetup
<1>2. ASSUME net' = net \ {f}, NEW d \in Delivery, info[d] = None, Starts(t, f.to, d, "prepP")
      PROVE  Registered' /\ Inboxes' /\ Paths'
  <2>1. \A u \in Task : pc[u] # "idle" => cur[u] # d
    BY <1>2 DEF SetupInv, CatalogInv, Tasks, TaskOK
  <2>2. \A u \in Task : d \notin todo[u]
    BY <1>2 DEF SetupInv, CatalogInv, Tasks, TaskOK, Belongs
  <2>3. \A u \in Task : OnPath(u) => pc[u] # "idle"
    BY DEF OnPath, PathPlace
  <2>4. /\ Registered' /\ Inboxes'
        /\ \A u \in Task \ {t} : OnPath(u)' /\ cur'[u] \notin ended' => Path(u)'
    BY <1>0, <1>2, <2>1, <2>3, StartOthers
  <2>5. /\ pc[t] = "idle" /\ cur'[t] = d /\ pc'[t] = "prepP" /\ UNCHANGED todo
        /\ \A u \in Task \ {t} : pc'[u] = pc[u] /\ cur'[u] = cur[u]
    BY <1>2 DEF Starts, SetupInv, CatalogInv, TaskType
  <2>6. inbox'[t] = None
    BY <1>0, <2>5, CallNames DEF SetupInv, CatalogInv, Callers, Inboxes
  <2>7. d \notin known'
    BY <1>0, <1>2 DEF SetupInv, CatalogInv, Issued
  <2>8. \A g \in net' : ~About(g, d)
    BY <1>2 DEF SetupInv, CatalogInv, Frames, FrameOK, About
  <2>9. Alone(t, d)'
    BY <2>1, <2>2, <2>5 DEF Alone
  <2>10. \A g : About(g, cur[t])' <=> About(g, d)
    BY <2>5 DEF About
  <2>11. Path(t)'
    BY <2>5, <2>6, <2>7, <2>8, <2>9, <2>10 DEF Path
  <2> QED BY <2>4, <2>11 DEF Paths
<1> QED BY <1>1, <1>2 DEF RouteCoordinatorRequest

(* A disconnect is about a delivery whose requester was told of it.        *)
LEMMA DisconnectSetup ==
    ASSUME SetupInv, NEW f \in net, NEW t \in Task, RouteDeliveryRequest(f, t)
    PROVE  Registered' /\ Inboxes' /\ Paths'
<1>0. /\ UNCHANGED <<pd, cd, known, ended>> /\ UNCHANGED waits
      /\ f.kind = "disconnect" /\ FrameOK(f)
  BY DEF RouteDeliveryRequest, SetupInv, CatalogInv, Frames
<1>1. CASE UNCHANGED place /\ (Forward(f) \/ net' = net \ {f})
  <2>1. \A d : \A g \in net' : About(g, d) => g \in net
    BY <1>0, <1>1, ForwardPublic
  <2> QED BY <1>0, <1>1, <2>1, UserSetup
<1>2. CASE net' = net \ {f} /\ Starts(t, f.to, f.d, "closing")
  <2>1. f.d \in known
    BY <1>0 DEF FrameOK
  <2>2. \A u \in Task \ {t} : OnPath(u) /\ cur[u] \notin ended => cur[u] # f.d
    BY <2>1 DEF SetupInv, Paths, Path
  <2>3. /\ Registered' /\ Inboxes'
        /\ \A u \in Task \ {t} : OnPath(u)' /\ cur'[u] \notin ended' => Path(u)'
    BY <1>0, <1>2, <2>2, StartOthers
  <2>4. pc'[t] = "closing"
    BY <1>2 DEF Starts, SetupInv, CatalogInv, TaskType
  <2>5. ~ OnPath(t)'
    BY <2>4 DEF OnPath, PathPlace
  <2> QED BY <2>3, <2>5 DEF Paths
<1> QED BY <1>1, <1>2 DEF RouteDeliveryRequest

(* A withdrawal ends what it takes. *)
LEMMA WithdrawSetup ==
    ASSUME SetupInv, NEW p \in Owned, NEW t \in Task, Withdraw(p, t)
    PROVE  Registered' /\ Inboxes' /\ Paths'
<1> DEFINE held == {d \in entries[p] : Holds(d, p)}
<1>1. /\ UNCHANGED <<pd, cd, net, known>> /\ UNCHANGED waits /\ pc[t] = "idle"
      /\ ended' = ended \cup held
      /\ \/ UNCHANGED place
         \/ \E d \in held :
               /\ cur' = [cur EXCEPT ![t] = d] /\ todo' = [todo EXCEPT ![t] = held \ {d}]
               /\ pc' = [pc EXCEPT ![t] = "end"] /\ node' = [node EXCEPT ![t] = OwnerOf[p]]
  BY DEF Withdraw, Holds
<1> HIDE DEF held
<1>2. CASE UNCHANGED place
  BY <1>1, <1>2, UserSetup
<1>3. ASSUME NEW d \in held,
             cur' = [cur EXCEPT ![t] = d], todo' = [todo EXCEPT ![t] = held \ {d}],
             pc' = [pc EXCEPT ![t] = "end"], node' = [node EXCEPT ![t] = OwnerOf[p]]
      PROVE  Registered' /\ Inboxes' /\ Paths'
  <2>1. /\ pc'[t] = "end" /\ cur'[t] = d /\ todo'[t] = held \ {d}
        /\ \A u \in Task \ {t} : /\ pc'[u] = pc[u] /\ cur'[u] = cur[u] /\ node'[u] = node[u]
                                 /\ todo'[u] = todo[u]
    BY <1>3 DEF SetupInv, CatalogInv, TaskType
  <2>2. t \notin waiting
    BY <1>1, CallNames DEF SetupInv, CatalogInv, Callers
  <2>3. Registered' /\ Inboxes'
    BY <1>1, <2>1, <2>2, WaitsKept
  <2>4. ASSUME NEW u \in Task \ {t}, OnPath(u)', cur'[u] \notin ended' PROVE Path(u)'
    <3>1. OnPath(u) /\ cur[u] \notin ended /\ cur[u] \notin held /\ Path(u)
      BY <1>1, <2>1, <2>4 DEF OnPath, SetupInv, Paths
    <3>2. PICK e : e = cur[u]
      OBVIOUS
    <3>3. Alone(u, e)' /\ e \notin known'
      BY <1>1, <1>3, <2>1, <3>1, <3>2 DEF Path, Alone
    <3> QED BY <1>1, <2>1, <3>1, <3>2, <3>3, PathKept
  <2>5. ~ OnPath(t)'
    BY <2>1 DEF OnPath, PathPlace
  <2> QED BY <2>3, <2>4, <2>5 DEF Paths
<1> QED BY <1>1, <1>2, <1>3

(* It holds at the start. *)
LEMMA InitSetup == Init => SetupInv
<1> SUFFICES ASSUME Init PROVE SetupInv
  OBVIOUS
<1>1. CatalogInv
  BY InitCatalog
<1>2. Registered /\ Inboxes
  BY DEF Init, Registered, Inboxes
<1>3. Paths
  BY DEF Init, Paths, OnPath, PathPlace
<1> QED BY <1>1, <1>2, <1>3 DEF SetupInv

(* Every step keeps it. *)
LEMMA StepSetup == SetupInv /\ [Next]_vars => SetupInv'
<1> SUFFICES ASSUME SetupInv, [Next]_vars PROVE SetupInv'
  OBVIOUS
<1> DEFINE Goal == Registered' /\ Inboxes' /\ Paths'
<1>1. CatalogInv'
  BY StepCatalog DEF SetupInv
<1>2. ASSUME UNCHANGED vars PROVE Goal
  BY <1>2, UserSetup DEF vars
<1>3. ASSUME NEW f \in net, NEW t \in Task,
             RouteCoordinatorRequest(f, t) \/ RouteDeliveryRequest(f, t)
      PROVE  Goal
  BY <1>3, ConnectSetup, DisconnectSetup
<1>4. ASSUME NEW f \in net,
             HandlePrivate(f) \/ ForwardPrivate(f) \/ TryDeliverPendingCtrl(f)
      PROVE  Goal
  BY <1>4, HandleSetup, ForwardSetup, DeliverSetup
<1>5. ASSUME NEW t \in Task, TaskStep(t) PROVE Goal
  BY <1>5, LocalSetup, CallSetup, ReturnSetup, RouteSetup DEF TaskStep
<1>6. ASSUME NEW t \in Task, NEW o \in Owned, Withdraw(o, t) PROVE Goal
  BY <1>6, WithdrawSetup
<1>7. ASSUME NEW o \in Owned, Announce(o) PROVE Goal
  BY <1>7, UserSetup DEF Announce
<1>8. ASSUME NEW q \in Requester, NEW d \in Delivery, Disconnect(q, d) PROVE Goal
  <2>1. PICK g : g = [kind |-> "disconnect", to |-> At[q], by |-> q, d |-> d]
    OBVIOUS
  <2>2. net' = net \cup {g} /\ g.kind = "disconnect"
    BY <1>8, <2>1 DEF Disconnect
  <2>3. \A e : \A f \in net' : About(f, e) => f \in net
    BY <2>2 DEF About
  <2> QED BY <1>8, <2>3, UserSetup DEF Disconnect
<1> HIDE DEF Goal
<1>9. Goal
  BY <1>2, <1>3, <1>4, <1>5, <1>6, <1>7, <1>8 DEF Next
<1> QED BY <1>1, <1>9 DEF SetupInv, Goal

(* OkMeansActive: establishDelivery answers ok only when both ends are     *)
(* active or somebody has begun to take the delivery down, whichever other *)
(* calls wait under the same transaction and whatever times out.           *)
THEOREM OkIsActive == Spec => OkMeansActive
<1>1. SetupInv /\ [Next]_vars =>
         [\A d \in known' \ known : d \in ended \/ (pd[d] = "active" /\ cd[d] = "active")]_vars
  <2> SUFFICES ASSUME SetupInv, Next, NEW d \in known' \ known, d \notin ended
               PROVE  pd[d] = "active" /\ cd[d] = "active"
    OBVIOUS
  <2>1. PICK t \in Task : ConfirmRoute(t)
    <3>1. known' # known
      OBVIOUS
    <3>2. \A f \in net : ~HandlePrivate(f) /\ ~ForwardPrivate(f) /\ ~TryDeliverPendingCtrl(f)
      BY <3>1 DEF HandlePrivate, ForwardPrivate, TryDeliverPendingCtrl, Returns
    <3>3. \A f \in net, u \in Task :
             ~RouteCoordinatorRequest(f, u) /\ ~RouteDeliveryRequest(f, u)
      BY <3>1 DEF RouteCoordinatorRequest, RouteDeliveryRequest
    <3>4. \A u \in Task : ~CallLocal(u) /\ ~CallPrivate(u) /\ ~ReceiveAnswer(u)
      BY <3>1 DEF CallLocal, CallPrivate, ReceiveAnswer, Returns
    <3>5. \A u \in Task : ~CallTimesOut(u) /\ ~InstallRoute(u) /\ ~RemoveRoute(u)
      BY <3>1 DEF CallTimesOut, InstallRoute, RemoveRoute, Returns
    <3>6. \A u \in Task : ~MarkClosing(u) /\ ~EndLocal(u)
      BY <3>1 DEF MarkClosing, EndLocal
    <3>7. (\A o \in Owned, u \in Task : ~Withdraw(o, u)) /\ \A o \in Owned : ~Announce(o)
      BY <3>1 DEF Withdraw, Announce
    <3>8. \A q \in Requester, e \in Delivery : ~Disconnect(q, e)
      BY <3>1 DEF Disconnect
    <3> QED BY <3>2, <3>3, <3>4, <3>5, <3>6, <3>7, <3>8 DEF Next, TaskStep
  <2>2. pc[t] = "confirm" /\ d = cur[t]
    BY <2>1 DEF ConfirmRoute
  <2>3. Path(t)
    BY <2>2 DEF SetupInv, Paths, OnPath, PathPlace
  <2> QED BY <2>2, <2>3 DEF Path
<1> QED BY <1>1, InitSetup, StepSetup, PTL DEF Spec, OkMeansActive

-----------------------------------------------------------------------------
(* Taking a delivery down.  Once something has begun to take it down, each *)
(* of its three parts is gone, or a frame or a task is on its way that     *)
(* will make it go; until then nothing touches it.                         *)

Shut(f, d) == f.kind = "request" /\ f.d = d /\ f.act \in {"abort", "close"}

(* A withdrawal that has not begun with d yet, and a task in its midst. *)
Held(u, d) == d \in todo[u] \/ (cur[u] = d /\ pc[u] = "end")
Busy(u, d) == cur[u] = d /\ pc[u] \notin {"idle", "end"}

(* A task works on d at one of the places, with its call still to come. *)
WorksAt(u, d, places) == cur[u] = d /\ pc[u] \in places
CallsNext(u, d, places) == WorksAt(u, d, places) /\ u \notin waiting

ToProducer(u, d) ==
    Held(u, d) \/ WorksAt(u, d, {"closing"})
    \/ CallsNext(u, d, {"undoP", "dropP", "backP", "shutP", "tellP"})

ToConsumer(u, d) ==
    Held(u, d) \/ WorksAt(u, d, {"closing", "dropP", "backP", "shutP"})
    \/ CallsNext(u, d, {"dropC", "shutC", "tellC"})

ToRoute(u, d) ==
    \/ Held(u, d)
    \/ WorksAt(u, d, {"closing", "dropP", "dropC", "backP", "shutP", "shutC", "remove"})
    \/ ThirdCoordinator(d) /\ WorksAt(u, d, {"tellC", "tellP"})
    \/ ThirdCoordinator(d) /\ CallsNext(u, d, {"tellK"})
    \/ info[d].coord = Consumer(d) /\ CallsNext(u, d, {"tellC"})
    \/ info[d].coord = Producer(d) /\ CallsNext(u, d, {"tellP"})

EndsP(d) ==
    \/ pd[d] = "none"
    \/ \E f \in net : Shut(f, d) /\ f.role = "producer"
    \/ \E u \in Task : ToProducer(u, d)

EndsC(d) ==
    \/ cd[d] = "none"
    \/ \E f \in net : Shut(f, d) /\ f.role = "consumer"
    \/ \E u \in Task : ToConsumer(u, d)

EndsR(d) ==
    \/ routes[d] = "none"
    \/ \E f \in net : Shut(f, d) /\ f.closeRoute
    \/ \E u \in Task : ToRoute(u, d)

Doomed(d) == EndsP(d) /\ EndsC(d) /\ EndsR(d)

Untouched(d) ==
    /\ \A f \in net : ~Shut(f, d)
    /\ \A u \in Task : ~Held(u, d) /\ (Busy(u, d) => OnPath(u))

HeldP(d) == \E u \in Task : owned[u] \in Source /\ Held(u, d)
HeldAny(d) == \E u \in Task : Held(u, d)

(* The task that sets d up, its request and the answer to it. *)
On(t, d) == OnPath(t) /\ cur[t] = d
Setup(f, d) == About(f, d) /\ f.act \in {"prepare", "activate"}

(* No answer to its call has said ok; one has. *)
NotYet(t, d) ==
    \/ t \notin waiting
    \/ \E f \in net : Setup(f, d) /\ (f.kind = "request" \/ ~f.ok)
    \/ inbox[t] # None /\ inbox[t].act = Calls[pc[t]].act /\ ~inbox[t].ok

Accepted(t, d) ==
    \/ \E f \in net : Setup(f, d) /\ f.kind = "answer" /\ f.ok
    \/ inbox[t] # None /\ inbox[t].act = Calls[pc[t]].act /\ inbox[t].ok

Ready(d) == Untouched(d) /\ pd[d] = "active" /\ routes[d] = "pending"

Stage(t, d) ==
    /\ pc[t] = "prepP" =>
         /\ routes[d] = "none" /\ cd[d] = "none"
         /\ NotYet(t, d) => pd[d] = "none" /\ Untouched(d)
         /\ pd[d] = "none" \/ Untouched(d) \/ HeldP(d)
    /\ pc[t] = "prepC" =>
         /\ routes[d] = "none"
         /\ NotYet(t, d) => cd[d] = "none" /\ (pd[d] = "none" \/ Untouched(d) \/ HeldP(d))
         /\ pd[d] = "none" \/ cd[d] = "none" \/ Untouched(d) \/ HeldAny(d)
    /\ pc[t] = "install" => pd[d] = "none" \/ cd[d] = "none" \/ Untouched(d) \/ HeldAny(d)
    /\ pc[t] = "actP" =>
         /\ pd[d] = "none" \/ cd[d] = "none" \/ Doomed(d) \/ (Untouched(d) /\ routes[d] = "pending")
         /\ Accepted(t, d) => cd[d] = "none" \/ Doomed(d) \/ Ready(d)
    /\ pc[t] = "actC" =>
         /\ cd[d] = "none" \/ Doomed(d) \/ Ready(d)
         /\ Accepted(t, d) => Doomed(d) \/ (Ready(d) /\ cd[d] = "active")
    /\ pc[t] = "confirm" => Doomed(d) \/ (Ready(d) /\ cd[d] = "active")

Settled(d) ==
    Doomed(d) \/ (Untouched(d) /\ pd[d] = "active" /\ cd[d] = "active" /\ routes[d] = "active")

Whole(d) ==
    /\ \A t \in Task : On(t, d) => Stage(t, d)
    /\ (\A t \in Task : ~On(t, d)) => Settled(d)

Lone(d) ==
    \A t \in Task : On(t, d) => d \notin known /\ \A u \in Task : On(u, d) => u = t

Asked(d) ==
    \A t \in Task : On(t, d) =>
        /\ \A f \in net : Setup(f, d) =>
              /\ t \in waiting
              /\ ~ (inbox[t] # None /\ inbox[t].act \in {"prepare", "activate"})
              /\ f.act = Calls[pc[t]].act
              /\ f.kind = "request" => f.role = Calls[pc[t]].role
        /\ \A f, g \in net : Setup(f, d) /\ Setup(g, d) => f = g

Preparing(d) ==
    \A f \in net : About(f, d) /\ f.act = "prepare" =>
        \E t \in Task : WorksAt(t, d, {"prepP", "prepC"})

Sound(d) == Lone(d) /\ Asked(d) /\ Preparing(d) /\ Whole(d)

(* Whom a request is for, and how a closing request is answered. *)
Addressed(f) ==
    /\ f.kind = "request" =>
         /\ f.role = "producer" => f.target = Producer(f.d)
         /\ f.role = "consumer" => f.target = Consumer(f.d)
         /\ f.closeRoute => f.target = info[f.d].coord /\ f.act = "close"
    /\ f.kind = "answer" /\ f.act \in {"abort", "close"} => f.ok

RoutesInv ==
    /\ routes \in [Delivery -> State \cup {"closing"}]
    /\ \A d \in Delivery : info[d] = None => routes[d] = "none"

AnswersInv ==
    \A t \in Task : inbox[t] # None /\ inbox[t].act \in {"abort", "close"} => inbox[t].ok

EndedInv == \A t \in Task : owned[t] # None => todo[t] \cup {cur[t]} \subseteq ended

AllSound == \A d \in Delivery : info[d] # None /\ ~Excused(d) => Sound(d)

HalfInv ==
    /\ SetupInv /\ RoutesInv /\ AnswersInv /\ EndedInv
    /\ \A f \in net : Addressed(f)
    /\ AllSound

(* What a step leaves alone of a task's work on d. *)
Same(u, d) ==
    /\ Held(u, d)' <=> Held(u, d)
    /\ Held(u, d) => owned'[u] = owned[u]
    /\ Busy(u, d)' <=> Busy(u, d)
    /\ Busy(u, d) => pc'[u] = pc[u] /\ (u \in waiting' <=> u \in waiting) /\ inbox'[u] = inbox[u]

(* What it leaves alone of d itself. *)
Kept(d) ==
    /\ pd'[d] = pd[d] /\ cd'[d] = cd[d] /\ routes'[d] = routes[d] /\ info'[d] = info[d]
    /\ \A f \in net \cup net' : About(f, d) => (f \in net <=> f \in net')

(* A task that is left alone has the same to do. *)
LEMMA SameWork ==
    ASSUME NEW u, NEW d, Same(u, d), info'[d] = info[d]
    PROVE  /\ ToProducer(u, d)' <=> ToProducer(u, d)
           /\ ToConsumer(u, d)' <=> ToConsumer(u, d)
           /\ ToRoute(u, d)' <=> ToRoute(u, d)
           /\ On(u, d)' <=> On(u, d)
           /\ On(u, d) => Busy(u, d)
<1>1. \A S \in SUBSET (Place \ {"idle", "end"}) : WorksAt(u, d, S)' <=> WorksAt(u, d, S)
  BY DEF Same, Busy, WorksAt
<1>2. \A S \in SUBSET (Place \ {"idle", "end"}) : CallsNext(u, d, S)' <=> CallsNext(u, d, S)
  BY <1>1 DEF Same, Busy, WorksAt, CallsNext
<1>3. Held(u, d)' <=> Held(u, d)
  BY DEF Same
<1>4. /\ ThirdCoordinator(d)' <=> ThirdCoordinator(d)
      /\ (info[d].coord = Consumer(d))' <=> info[d].coord = Consumer(d)
      /\ (info[d].coord = Producer(d))' <=> info[d].coord = Producer(d)
  BY DEF ThirdCoordinator, Producer, Consumer
<1>5. ToProducer(u, d)' <=> ToProducer(u, d)
  <2>1. /\ {"closing"} \in SUBSET (Place \ {"idle", "end"})
        /\ {"undoP", "dropP", "backP", "shutP", "tellP"} \in SUBSET (Place \ {"idle", "end"})
    BY CallNames DEF Place
  <2> QED BY <1>1, <1>2, <1>3, <2>1 DEF ToProducer
<1>6. ToConsumer(u, d)' <=> ToConsumer(u, d)
  <2>1. /\ {"closing", "dropP", "backP", "shutP"} \in SUBSET (Place \ {"idle", "end"})
        /\ {"dropC", "shutC", "tellC"} \in SUBSET (Place \ {"idle", "end"})
    BY CallNames DEF Place
  <2> QED BY <1>1, <1>2, <1>3, <2>1 DEF ToConsumer
<1>7. ToRoute(u, d)' <=> ToRoute(u, d)
  <2>1. /\ {"closing", "dropP", "dropC", "backP", "shutP", "shutC", "remove"}
              \in SUBSET (Place \ {"idle", "end"})
        /\ \A S \in {{"tellC", "tellP"}, {"tellK"}, {"tellC"}, {"tellP"}} :
              S \in SUBSET (Place \ {"idle", "end"})
    BY CallNames DEF Place
  <2> QED BY <1>1, <1>2, <1>3, <1>4, <2>1 DEF ToRoute
<1>8. (On(u, d)' <=> On(u, d)) /\ (On(u, d) => Busy(u, d))
  BY DEF Same, Busy, On, OnPath, PathPlace
<1> QED BY <1>5, <1>6, <1>7, <1>8

(* The stages last while nothing but closing touches the delivery. *)
LEMMA WholeKept ==
    ASSUME NEW d \in Delivery, Whole(d),
           \A t \in Task :
              /\ On(t, d)' <=> On(t, d)
              /\ On(t, d) => /\ pc'[t] = pc[t]
                             /\ NotYet(t, d)' => NotYet(t, d)
                             /\ Accepted(t, d)' => Accepted(t, d),
           pd[d] = "none" => pd'[d] = "none", cd[d] = "none" => cd'[d] = "none",
           routes[d] = "none" => routes'[d] = "none",
           Doomed(d) => Doomed(d)',
           Untouched(d) =>
              /\ pd'[d] = pd[d] /\ cd'[d] = cd[d] /\ routes'[d] = routes[d]
              /\ \/ Untouched(d)'
                 \/ /\ Doomed(d)' /\ HeldAny(d)'
                    /\ cd[d] = "none" => pd[d] # "none" /\ HeldP(d)',
           HeldP(d) => pd'[d] = "none" \/ HeldP(d)',
           HeldAny(d) => pd'[d] = "none" \/ cd'[d] = "none" \/ HeldAny(d)'
    PROVE  Whole(d)'
<1>1. Ready(d) => (Ready(d)' /\ cd'[d] = cd[d]) \/ Doomed(d)'
  BY DEF Ready
<1>2. HeldP(d) => HeldAny(d)
  BY DEF HeldP, HeldAny
<1>3. ASSUME NEW t \in Task, On(t, d)' PROVE Stage(t, d)'
  <2>1. /\ Stage(t, d) /\ pc'[t] = pc[t] /\ (NotYet(t, d)' => NotYet(t, d))
        /\ Accepted(t, d)' => Accepted(t, d)
    BY <1>3 DEF Whole
  <2> QED BY <1>1, <1>2, <2>1 DEF Stage
<1>4. ASSUME \A t \in Task : ~On(t, d)' PROVE Settled(d)'
  <2>1. Settled(d)
    BY <1>4 DEF Whole
  <2> QED BY <2>1 DEF Settled
<1> QED BY <1>3, <1>4 DEF Whole

(* A step that adds no request of a path to the frames, and leaves the     *)
(* task on the path alone.                                                 *)
LEMMA OutsideStep ==
    ASSUME NEW d \in Delivery, Sound(d), d \in known' => d \in known,
           \A t \in Task :
              /\ On(t, d)' <=> On(t, d)
              /\ On(t, d) => /\ pc'[t] = pc[t] /\ (t \in waiting' <=> t \in waiting)
                             /\ inbox'[t] = inbox[t],
           \A f \in net' : Setup(f, d) => f \in net,
           pd[d] = "none" => pd'[d] = "none", cd[d] = "none" => cd'[d] = "none",
           routes[d] = "none" => routes'[d] = "none",
           Doomed(d) => Doomed(d)',
           Untouched(d) =>
              /\ pd'[d] = pd[d] /\ cd'[d] = cd[d] /\ routes'[d] = routes[d]
              /\ \/ Untouched(d)'
                 \/ /\ Doomed(d)' /\ HeldAny(d)'
                    /\ cd[d] = "none" => pd[d] # "none" /\ HeldP(d)',
           HeldP(d) => pd'[d] = "none" \/ HeldP(d)',
           HeldAny(d) => pd'[d] = "none" \/ cd'[d] = "none" \/ HeldAny(d)'
    PROVE  Sound(d)'
<1>1. Lone(d)'
  BY DEF Sound, Lone
<1>2. Asked(d)'
  <2>1. ASSUME NEW t \in Task, On(t, d)'
        PROVE  /\ \A f \in net' : Setup(f, d) =>
                    /\ t \in waiting'
                    /\ ~ (inbox'[t] # None /\ inbox'[t].act \in {"prepare", "activate"})
                    /\ f.act = Calls[pc'[t]].act
                    /\ f.kind = "request" => f.role = Calls[pc'[t]].role
               /\ \A f, g \in net' : Setup(f, d) /\ Setup(g, d) => f = g
    <3>1. /\ \A f \in net : Setup(f, d) =>
                    /\ t \in waiting
                    /\ ~ (inbox[t] # None /\ inbox[t].act \in {"prepare", "activate"})
                    /\ f.act = Calls[pc[t]].act
                    /\ f.kind = "request" => f.role = Calls[pc[t]].role
          /\ \A f, g \in net : Setup(f, d) /\ Setup(g, d) => f = g
      BY <2>1 DEF Sound, Asked
    <3> QED BY <2>1, <3>1
  <2>2. \A f : Setup(f, d)' <=> Setup(f, d)
    BY DEF Setup, About
  <2> QED BY <2>1, <2>2 DEF Asked
<1>3. Preparing(d)'
  <2>1. ASSUME NEW f \in net', About(f, d), f.act = "prepare"
        PROVE  \E t \in Task : WorksAt(t, d, {"prepP", "prepC"})'
    <3>1. f \in net
      BY <2>1 DEF Setup
    <3>2. PICK t \in Task : WorksAt(t, d, {"prepP", "prepC"})
      BY <2>1, <3>1 DEF Sound, Preparing
    <3>3. On(t, d)
      BY <3>2 DEF WorksAt, On, OnPath, PathPlace
    <3>4. On(t, d)' /\ pc'[t] = pc[t]
      BY <3>3
    <3> QED BY <3>2, <3>4 DEF WorksAt, On
  <2> QED BY <2>1 DEF Preparing, About
<1>4. ASSUME NEW t \in Task, On(t, d)
      PROVE  (NotYet(t, d)' => NotYet(t, d)) /\ (Accepted(t, d)' => Accepted(t, d))
  <2>1. pc'[t] = pc[t] /\ (t \in waiting' <=> t \in waiting) /\ inbox'[t] = inbox[t]
    BY <1>4
  <2> QED BY <2>1 DEF NotYet, Accepted, Setup, About
<1>5. Whole(d)'
  BY <1>4, WholeKept DEF Sound
<1> QED BY <1>1, <1>2, <1>3, <1>5 DEF Sound

(* A step that is about other deliveries. *)
LEMMA OtherDelivery ==
    ASSUME NEW d \in Delivery, Sound(d), Kept(d), \A u \in Task : Same(u, d),
           d \in known' => d \in known
    PROVE  Sound(d)'
<1>1. /\ pd'[d] = pd[d] /\ cd'[d] = cd[d] /\ routes'[d] = routes[d] /\ info'[d] = info[d]
      /\ \A f \in net \cup net' : About(f, d) => (f \in net <=> f \in net')
  BY DEF Kept
<1>2. \A u \in Task : /\ ToProducer(u, d)' <=> ToProducer(u, d)
                      /\ ToConsumer(u, d)' <=> ToConsumer(u, d)
                      /\ ToRoute(u, d)' <=> ToRoute(u, d)
                      /\ On(u, d)' <=> On(u, d)
                      /\ On(u, d) => Busy(u, d)
  BY <1>1, SameWork
<1>3. \A f : Shut(f, d) => About(f, d)
  BY DEF Shut, About
<1>4. Doomed(d) => Doomed(d)'
  BY <1>1, <1>2, <1>3 DEF Doomed, EndsP, EndsC, EndsR, Shut
<1>5. Untouched(d) => Untouched(d)'
  BY <1>1, <1>2, <1>3 DEF Untouched, Same, Shut, OnPath
<1>6. (HeldP(d) => HeldP(d)') /\ (HeldAny(d) => HeldAny(d)')
  BY DEF HeldP, HeldAny, Same
<1>7. \A f \in net' : Setup(f, d) => f \in net
  BY <1>1 DEF Setup
<1>8. \A t \in Task : On(t, d) => /\ pc'[t] = pc[t] /\ (t \in waiting' <=> t \in waiting)
                                  /\ inbox'[t] = inbox[t]
  BY <1>2 DEF Same
<1> QED BY <1>1, <1>2, <1>4, <1>5, <1>6, <1>7, <1>8, OutsideStep

-----------------------------------------------------------------------------
(* A task goes on. *)

(* A withdrawal keeps what it has still to do, and a task that goes on     *)
(* leaves the deliveries alone that it does not work on.                   *)
LEMMA GoesOnView ==
    ASSUME TaskType, Tasks, NEW t \in Task, NEW there \in Place, pc[t] # "idle",
           owned[t] # None => there \in Ending,
           owned[t] = None => there \notin Ending,
           GoesOn(t, there)
    PROVE  \A e \in Delivery :
              /\ e \in todo[t] => Held(t, e)' /\ owned'[t] = owned[t]
              /\ e # cur[t] => Same(t, e)
<1> SUFFICES ASSUME NEW e \in Delivery
             PROVE  /\ e \in todo[t] => Held(t, e)' /\ owned'[t] = owned[t]
                    /\ e # cur[t] => Same(t, e)
  OBVIOUS
<1>1. \/ Finishes(t) /\ todo[t] = {}
      \/ \E d \in todo[t] :
            /\ cur' = [cur EXCEPT ![t] = d] /\ todo' = [todo EXCEPT ![t] = todo[t] \ {d}]
            /\ pc' = [pc EXCEPT ![t] = "end"]
            /\ UNCHANGED <<node, owned>>
            /\ owned[t] # None
      \/ /\ pc' = [pc EXCEPT ![t] = there] /\ UNCHANGED <<node, cur, todo, owned>>
  BY GoesOnWays
<1>2. CASE Finishes(t) /\ todo[t] = {}
  <2>1. pc'[t] = "idle" /\ todo'[t] = {} /\ e \notin todo[t]
    BY <1>2 DEF Finishes, TaskType
  <2> QED BY <2>1 DEF Same, Held, Busy
<1>3. CASE \E d \in todo[t] :
            /\ cur' = [cur EXCEPT ![t] = d] /\ todo' = [todo EXCEPT ![t] = todo[t] \ {d}]
            /\ pc' = [pc EXCEPT ![t] = "end"]
            /\ UNCHANGED <<node, owned>>
            /\ owned[t] # None
  <2>1. PICK d \in todo[t] :
            /\ cur' = [cur EXCEPT ![t] = d] /\ todo' = [todo EXCEPT ![t] = todo[t] \ {d}]
            /\ pc' = [pc EXCEPT ![t] = "end"]
            /\ UNCHANGED <<node, owned>>
    BY <1>3
  <2>2. /\ cur'[t] = d /\ todo'[t] = todo[t] \ {d} /\ pc'[t] = "end"
        /\ owned'[t] = owned[t]
    BY <2>1 DEF TaskType
  <2> QED BY <2>2 DEF Same, Held, Busy
<1>4. CASE pc' = [pc EXCEPT ![t] = there] /\ UNCHANGED <<node, cur, todo, owned>>
  <2>1. cur'[t] = cur[t] /\ todo'[t] = todo[t] /\ owned'[t] = owned[t]
    BY <1>4
  <2> QED BY <2>1 DEF Same, Held, Busy
<1> QED BY <1>1, <1>2, <1>3, <1>4

(* The next place of a task that does not finish. *)
LEMMA GoesOnTo ==
    ASSUME TaskType, NEW t \in Task, NEW there, GoesOn(t, there),
           there \notin {"idle", "end"}, there = "tellK" => ThirdCoordinator(cur[t])
    PROVE  pc'[t] = there /\ cur'[t] = cur[t] /\ todo'[t] = todo[t] /\ owned'[t] = owned[t]
<1>1. pc' = [pc EXCEPT ![t] = there] /\ UNCHANGED <<node, cur, todo, owned>>
  BY DEF GoesOn
<1> QED BY <1>1 DEF TaskType

(* A delivery that is being taken down stays so in a step of one task. *)
LEMMA DoomedStep ==
    ASSUME NEW d, Doomed(d), NEW t \in Task, info'[d] = info[d],
           \A w \in Task \ {t} : /\ pc'[w] = pc[w] /\ cur'[w] = cur[w] /\ todo'[w] = todo[w]
                                 /\ w \in waiting' <=> w \in waiting,
           pd[d] = "none" => pd'[d] = "none", cd[d] = "none" => cd'[d] = "none",
           routes[d] = "none" => routes'[d] = "none",
           \A f \in net : Shut(f, d) => f \in net',
           ToProducer(t, d) => EndsP(d)', ToConsumer(t, d) => EndsC(d)',
           ToRoute(t, d) => EndsR(d)'
    PROVE  Doomed(d)'
<1>1. \A f : Shut(f, d)' <=> Shut(f, d)
  BY DEF Shut
<1>2. ASSUME NEW w \in Task \ {t}
      PROVE  /\ ToProducer(w, d) => ToProducer(w, d)'
             /\ ToConsumer(w, d) => ToConsumer(w, d)'
             /\ ToRoute(w, d) => ToRoute(w, d)'
  <2>1. /\ Held(w, d)' <=> Held(w, d)
        /\ \A S : WorksAt(w, d, S)' <=> WorksAt(w, d, S)
        /\ \A S : CallsNext(w, d, S)' <=> CallsNext(w, d, S)
    BY <1>2 DEF Held, WorksAt, CallsNext
  <2>2. /\ ThirdCoordinator(d)' <=> ThirdCoordinator(d)
        /\ (info[d].coord = Consumer(d))' <=> info[d].coord = Consumer(d)
        /\ (info[d].coord = Producer(d))' <=> info[d].coord = Producer(d)
    BY DEF ThirdCoordinator, Producer, Consumer
  <2>3. ToProducer(w, d) => ToProducer(w, d)'
    BY <2>1 DEF ToProducer
  <2>4. ToConsumer(w, d) => ToConsumer(w, d)'
    BY <2>1 DEF ToConsumer
  <2>5. ToRoute(w, d) => ToRoute(w, d)'
    BY <2>1, <2>2 DEF ToRoute
  <2> QED BY <2>3, <2>4, <2>5
<1>3. EndsP(d)'
  BY <1>1, <1>2 DEF Doomed, EndsP
<1>4. EndsC(d)'
  BY <1>1, <1>2 DEF Doomed, EndsC
<1>5. EndsR(d)'
  BY <1>1, <1>2 DEF Doomed, EndsR
<1> QED BY <1>3, <1>4, <1>5 DEF Doomed

(* A step of a task that takes a delivery down. *)
LEMMA OffPathStep ==
    ASSUME NEW t \in Task, NEW d \in Delivery, d = cur[t],
           pc[t] \notin PathPlace \cup {"idle"}, UNCHANGED <<info, known>>,
           \A w \in Task \ {t} : /\ pc'[w] = pc[w] /\ cur'[w] = cur[w] /\ todo'[w] = todo[w]
                                 /\ owned'[w] = owned[w] /\ inbox'[w] = inbox[w]
                                 /\ w \in waiting' <=> w \in waiting,
           \A e \in Delivery : /\ e \in todo[t] => Held(t, e)' /\ owned'[t] = owned[t]
                               /\ e # d => Same(t, e),
           pc'[t] \notin PathPlace,
           \A e \in Delivery \ {d} : Kept(e),
           \A f \in net' : Setup(f, d) => f \in net,
           pd[d] = "none" => pd'[d] = "none", cd[d] = "none" => cd'[d] = "none",
           routes[d] = "none" => routes'[d] = "none",
           pc[t] = "end" => IF owned[t] \in Source THEN pd'[d] = "none" ELSE cd'[d] = "none",
           NEW e \in Delivery, Sound(e), e = d /\ Doomed(e) => Doomed(e)'
    PROVE  Sound(e)'
<1>1. \A w \in Task \ {t} : Same(w, e)
  BY DEF Same, Held, Busy
<1>2. CASE e # d
  <2>1. Same(t, e) /\ Kept(e)
    BY <1>2
  <2> QED BY <1>1, <2>1, OtherDelivery
<1>3. CASE e = d
  <2>1. ~Untouched(d)
    <3>1. ~OnPath(t) /\ (Busy(t, d) \/ Held(t, d))
      BY DEF Busy, Held, OnPath
    <3> QED BY <3>1 DEF Untouched
  <2>2. \A u \in Task :
              /\ On(u, d)' <=> On(u, d)
              /\ On(u, d) => /\ pc'[u] = pc[u] /\ (u \in waiting' <=> u \in waiting)
                             /\ inbox'[u] = inbox[u]
    BY DEF On, OnPath
  <2>3. \A u \in Task \ {t} : Held(u, d) => Held(u, d)' /\ owned'[u] = owned[u]
    BY DEF Held
  <2>4. Held(t, d) => (Held(t, d)' /\ owned'[t] = owned[t]) \/ pc[t] = "end"
    BY DEF Held
  <2>5. HeldP(d) => pd'[d] = "none" \/ HeldP(d)'
    BY <2>3, <2>4 DEF HeldP
  <2>6. HeldAny(d) => pd'[d] = "none" \/ cd'[d] = "none" \/ HeldAny(d)'
    BY <2>3, <2>4 DEF HeldAny
  <2>7. Sound(d) /\ (d \in known' => d \in known) /\ (Doomed(d) => Doomed(d)')
    BY <1>3
  <2>8. Sound(d)'
    BY <2>1, <2>2, <2>5, <2>6, <2>7, OutsideStep
  <2> QED BY <1>3, <2>8
<1> QED BY <1>2, <1>3

-----------------------------------------------------------------------------
(* Tasks that take a delivery down. *)

(* A delivery once excused stays so. *)
LEMMA ExcusedKept ==
    ASSUME NEW d, info'[d] = info[d], unsure \subseteq unsure', ended \subseteq ended', Excused(d)
    PROVE  Excused(d)'
  BY DEF Excused, Producer, Consumer

(* Handling a request leaves the routes of other deliveries alone. *)
LEMMA ApplyRoutes ==
    ASSUME RoutesInv, NEW n, NEW act, NEW role, NEW d \in Delivery, NEW closeRoute,
           Apply(n, act, role, d, closeRoute), UNCHANGED info
    PROVE  /\ RoutesInv'
           /\ \A e \in Delivery \ {d} : routes'[e] = routes[e]
           /\ routes'[d] = routes[d] \/ routes'[d] = "none"
           /\ ~closeRoute => routes' = routes
<1>1. \/ routes' = routes
      \/ routes' = [routes EXCEPT ![d] = "none"] /\ closeRoute
  BY DEF Apply
<1> QED BY <1>1 DEF RoutesInv, State

(* An abort or a close makes the part go that it is for. *)
LEMMA ApplyShut ==
    ASSUME TableType, RoutesInv, NEW n, NEW act \in {"abort", "close"}, NEW role,
           NEW d \in Delivery, info[d] # None, NEW closeRoute,
           Apply(n, act, role, d, closeRoute)
    PROVE  /\ Accepts(n, act, role, d)
           /\ pd[d] = "none" => pd'[d] = "none"
           /\ cd[d] = "none" => cd'[d] = "none"
           /\ routes[d] = "none" => routes'[d] = "none"
           /\ role = "producer" /\ n = Producer(d) => pd'[d] = "none"
           /\ role = "consumer" /\ n = Consumer(d) => cd'[d] = "none"
           /\ closeRoute /\ n = info[d].coord => routes'[d] = "none"
<1>1. Accepts(n, act, role, d) /\ Becomes(act) = "none"
  BY DEF Accepts, Becomes
<1>2. /\ pd' = IF info[d].source \in Touches(n, role, d) THEN [pd EXCEPT ![d] = "none"] ELSE pd
      /\ cd' = IF info[d].endpoint \in Touches(n, role, d) THEN [cd EXCEPT ![d] = "none"] ELSE cd
      /\ routes' = IF closeRoute /\ n = info[d].coord
                   THEN [routes EXCEPT ![d] = "none"] ELSE routes
  BY <1>1 DEF Apply
<1>3. /\ role = "producer" /\ n = Producer(d) => info[d].source \in Touches(n, role, d)
      /\ role = "consumer" /\ n = Consumer(d) => info[d].endpoint \in Touches(n, role, d)
  BY DEF Touches, Side, Producer, Consumer
<1> QED BY <1>1, <1>2, <1>3 DEF TableType, RoutesInv

(* The calls of a task that takes a delivery down. *)
LEMMA ShutTable ==
    ASSUME NEW p \in Call, p \notin PathPlace
    PROVE  /\ p \in {"undoP", "dropP", "dropC", "backP", "shutP", "shutC",
                     "tellC", "tellP", "tellK"}
           /\ Calls[p].act \in {"abort", "close"}
           /\ p \in {"undoP", "dropP", "backP", "shutP", "tellP"} => Calls[p].role = "producer"
           /\ p \in {"dropC", "shutC", "tellC"} => Calls[p].role = "consumer"
           /\ p = "tellK" => Calls[p].role = "both"
           /\ p \in {"dropP", "backP"} => Calls[p].ok = "dropC" /\ Calls[p].err = "dropC"
           /\ p = "shutP" => Calls[p].ok = "shutC" /\ Calls[p].err = "remove"
           /\ p \in {"dropC", "shutC"} => Calls[p].ok = "remove" /\ Calls[p].err = "remove"
           /\ p \in {"tellC", "tellP"} => Calls[p].ok = "tellK" /\ Calls[p].err = "tellK"
  BY CallNames DEF Calls, PathPlace

(* Where a task that takes a delivery down goes after its call. *)
LEMMA ShutGoesOn ==
    ASSUME CatalogInv, NEW t \in Task, pc[t] \in Call, pc[t] \notin PathPlace,
           NEW there \in {Calls[pc[t]].ok, Calls[pc[t]].err}, GoesOn(t, there)
    PROVE  /\ \A e \in Delivery : /\ e \in todo[t] => Held(t, e)' /\ owned'[t] = owned[t]
                                  /\ e # cur[t] => Same(t, e)
           /\ pc'[t] \notin PathPlace
           /\ pc[t] \in {"dropP", "backP"} => pc'[t] = "dropC" /\ cur'[t] = cur[t]
           /\ pc[t] = "shutP" /\ there = Calls[pc[t]].ok => pc'[t] = "shutC" /\ cur'[t] = cur[t]
           /\ pc[t] = "shutP" => pc'[t] \in {"shutC", "remove"} /\ cur'[t] = cur[t]
           /\ pc[t] \in {"dropC", "shutC"} => pc'[t] = "remove" /\ cur'[t] = cur[t]
           /\ pc[t] \in {"tellC", "tellP"} /\ ThirdCoordinator(cur[t]) =>
                pc'[t] = "tellK" /\ cur'[t] = cur[t]
<1>1. TaskType /\ Tasks /\ TaskOK(t) /\ pc[t] # "idle"
  BY CallNames DEF CatalogInv, Tasks
<1>2. /\ there \in Place /\ (pc[t] \in Ending => there \in {"end", "tellK"})
      /\ pc[t] \notin Ending => there \notin Ending
  BY CallTable
<1>3. /\ owned[t] # None => there \in Ending
      /\ owned[t] = None => there \notin Ending
  BY <1>1, <1>2 DEF TaskOK, Ending
<1>4. \A e \in Delivery : /\ e \in todo[t] => Held(t, e)' /\ owned'[t] = owned[t]
                          /\ e # cur[t] => Same(t, e)
  BY <1>1, <1>2, <1>3, GoesOnView
<1>5. pc'[t] \notin PathPlace
  <2>1. pc'[t] \in {there, "idle", "end"}
    BY <1>1, GoesOnWithin
  <2>2. there \notin PathPlace
    BY PathTable
  <2> QED BY <2>1, <2>2 DEF PathPlace
<1>6. there \notin {"idle", "end"} /\ (there = "tellK" => ThirdCoordinator(cur[t])) =>
         pc'[t] = there /\ cur'[t] = cur[t]
  BY <1>1, GoesOnTo
<1>7. /\ pc[t] \in {"dropP", "backP"} => there = "dropC"
      /\ pc[t] = "shutP" => there \in {"shutC", "remove"}
      /\ pc[t] = "shutP" /\ there = Calls[pc[t]].ok => there = "shutC"
      /\ pc[t] \in {"dropC", "shutC"} => there = "remove"
      /\ pc[t] \in {"tellC", "tellP"} => there = "tellK"
  BY ShutTable
<1> QED BY <1>4, <1>5, <1>6, <1>7

(* It calls its own node. *)
LEMMA LocalOff ==
    ASSUME HalfInv, NEW t \in Task, CallLocal(t), pc[t] \notin PathPlace
    PROVE  AllSound'
<1> DEFINE call == Calls[pc[t]]
           there == IF Accepts(node[t], call.act, call.role, cur[t]) THEN call.ok ELSE call.err
<1>1. /\ pc[t] \in Call /\ t \notin waiting /\ Target(t) = node[t]
      /\ Apply(node[t], call.act, call.role, cur[t], ClosesRoute(t, node[t]))
      /\ GoesOn(t, there) /\ UNCHANGED <<info, net, known, ended, unsure>> /\ UNCHANGED waits
  BY DEF CallLocal
<1>2. CatalogInv /\ TaskType /\ TableType /\ RoutesInv /\ TaskOK(t) /\ pc[t] # "idle"
  BY <1>1, CallNames DEF HalfInv, SetupInv, CatalogInv, Tasks
<1>3. PICK d \in Delivery : d = cur[t] /\ info[d] # None
  BY <1>2 DEF TaskOK
<1>4. /\ call.act \in {"abort", "close"}
      /\ pc[t] \in {"undoP", "dropP", "dropC", "backP", "shutP", "shutC",
                    "tellC", "tellP", "tellK"}
      /\ pc[t] \in {"undoP", "dropP", "backP", "shutP", "tellP"} => call.role = "producer"
      /\ pc[t] \in {"dropC", "shutC", "tellC"} => call.role = "consumer"
      /\ pc[t] = "tellK" => call.role = "both"
  BY <1>1, ShutTable
<1>5. /\ Accepts(node[t], call.act, call.role, d)
      /\ pd[d] = "none" => pd'[d] = "none"
      /\ cd[d] = "none" => cd'[d] = "none"
      /\ routes[d] = "none" => routes'[d] = "none"
      /\ call.role = "producer" /\ node[t] = Producer(d) => pd'[d] = "none"
      /\ call.role = "consumer" /\ node[t] = Consumer(d) => cd'[d] = "none"
      /\ ClosesRoute(t, node[t]) /\ node[t] = info[d].coord => routes'[d] = "none"
  <2>1. Apply(node[t], call.act, call.role, d, ClosesRoute(t, node[t]))
    BY <1>1, <1>3
  <2> HIDE DEF call
  <2> QED BY <1>2, <1>3, <1>4, <2>1, ApplyShut
<1>6. /\ call.role = "producer" => node[t] = Producer(d)
      /\ call.role = "consumer" => node[t] = Consumer(d)
      /\ call.role = "both" => node[t] = info[d].coord
  BY <1>1, <1>3 DEF Target
<1>7. pc[t] \in Ending /\ node[t] = info[d].coord => routes'[d] = "none"
  BY <1>2, <1>3, <1>5 DEF ClosesRoute, TaskOK
<1>8. there = call.ok
  BY <1>3, <1>5
<1>9. /\ \A e \in Delivery : /\ e \in todo[t] => Held(t, e)' /\ owned'[t] = owned[t]
                             /\ e # d => Same(t, e)
      /\ pc'[t] \notin PathPlace
      /\ pc[t] \in {"dropP", "backP"} => pc'[t] = "dropC" /\ cur'[t] = cur[t]
      /\ pc[t] = "shutP" => pc'[t] = "shutC" /\ cur'[t] = cur[t]
      /\ pc[t] \in {"dropC", "shutC"} => pc'[t] = "remove" /\ cur'[t] = cur[t]
      /\ pc[t] \in {"tellC", "tellP"} /\ ThirdCoordinator(cur[t]) =>
            pc'[t] = "tellK" /\ cur'[t] = cur[t]
  <2>1. GoesOn(t, call.ok)
    BY <1>1, <1>8
  <2> QED BY <1>1, <1>2, <1>3, <2>1, ShutGoesOn
<1> HIDE DEF call, there
<1>10. \A w \in Task \ {t} : /\ pc'[w] = pc[w] /\ cur'[w] = cur[w] /\ todo'[w] = todo[w]
                             /\ owned'[w] = owned[w] /\ inbox'[w] = inbox[w]
                             /\ w \in waiting' <=> w \in waiting
  BY <1>1, <1>2, GoesOnAlone
<1>11. ASSUME Doomed(d) PROVE Doomed(d)'
  <2>1. ToProducer(t, d) => EndsP(d)'
    <3>1. CASE Held(t, d)
      BY <1>4, <1>9, <3>1 DEF Held, EndsP, ToProducer
    <3>2. CASE CallsNext(t, d, {"undoP", "dropP", "backP", "shutP", "tellP"})
      BY <1>4, <1>5, <1>6, <3>2 DEF CallsNext, WorksAt, EndsP
    <3> QED BY <1>4, <3>1, <3>2 DEF ToProducer, WorksAt
  <2>2. ToConsumer(t, d) => EndsC(d)'
    <3>1. CASE Held(t, d)
      BY <1>4, <1>9, <3>1 DEF Held, EndsC, ToConsumer
    <3>2. CASE pc[t] \in {"dropP", "backP", "shutP"}
      <4>1. CallsNext(t, d, {"dropC", "shutC", "tellC"})'
        BY <1>1, <1>3, <1>9, <3>2 DEF CallsNext, WorksAt
      <4> QED BY <4>1 DEF EndsC, ToConsumer
    <3>3. CASE pc[t] \in {"dropC", "shutC", "tellC"}
      BY <1>4, <1>5, <1>6, <3>3 DEF EndsC
    <3> QED BY <1>4, <3>1, <3>2, <3>3 DEF ToConsumer, WorksAt, CallsNext
  <2>3. ToRoute(t, d) => EndsR(d)'
    <3>1. CASE Held(t, d)
      BY <1>4, <1>9, <3>1 DEF Held, EndsR, ToRoute
    <3>2. CASE pc[t] \in {"dropP", "dropC", "backP", "shutP", "shutC"}
      <4>1. WorksAt(t, d, {"closing", "dropP", "dropC", "backP", "shutP", "shutC", "remove"})'
        BY <1>3, <1>9, <3>2 DEF WorksAt
      <4> QED BY <4>1 DEF EndsR, ToRoute
    <3>3. CASE pc[t] \in {"tellC", "tellP"} /\ ThirdCoordinator(d)
      <4>1. CallsNext(t, d, {"tellK"})' /\ ThirdCoordinator(d)'
        BY <1>1, <1>3, <1>9, <3>3
        DEF CallsNext, WorksAt, ThirdCoordinator, Producer, Consumer
      <4> QED BY <4>1 DEF EndsR, ToRoute
    <3>4. CASE pc[t] = "tellK" \/ (pc[t] = "tellC" /\ info[d].coord = Consumer(d))
               \/ (pc[t] = "tellP" /\ info[d].coord = Producer(d))
      BY <1>4, <1>6, <1>7, <3>4 DEF EndsR, Ending
    <3> QED BY <1>4, <3>1, <3>2, <3>3, <3>4 DEF ToRoute, WorksAt, CallsNext
  <2> QED BY <1>1, <1>5, <1>10, <1>11, <2>1, <2>2, <2>3, DoomedStep
<1>12. \A e \in Delivery \ {d} : Kept(e)
  <2>0. Apply(node[t], call.act, call.role, d, ClosesRoute(t, node[t])) /\ UNCHANGED info
    BY <1>1, <1>3
  <2>1. \A e \in Delivery \ {cur[t]} : pd'[e] = pd[e] /\ cd'[e] = cd[e]
    <3>1. cur[t] \in Delivery /\ info[cur[t]] # None
      BY <1>3
    <3> QED BY <1>1, <1>2, <3>1, ApplyOthers, ZenonT(30)
  <2>2. \A e \in Delivery \ {d} : routes'[e] = routes[e]
    BY <1>2, <2>0, ApplyRoutes
  <2> QED BY <1>1, <1>3, <2>1, <2>2 DEF Kept
<1>13. ASSUME NEW e \in Delivery, info'[e] # None, ~Excused(e)' PROVE Sound(e)'
  <2>1. Sound(e)
    BY <1>1, <1>13, ExcusedKept DEF HalfInv, AllSound
  <2>2. pc[t] \notin PathPlace \cup {"idle"} /\ pc[t] # "end"
    BY <1>2, <1>4
  <2> QED BY <1>1, <1>3, <1>5, <1>9, <1>10, <1>11, <1>12, <2>1, <2>2, OffPathStep
<1> QED BY <1>13 DEF AllSound

(* It calls another node. *)
LEMMA CallOff ==
    ASSUME HalfInv, NEW t \in Task, CallPrivate(t), pc[t] \notin PathPlace
    PROVE  AllSound'
<1>0. PICK g : g = [kind |-> "request", to |-> NextHop(node[t], Target(t)), target |-> Target(t),
                    from |-> node[t], act |-> Calls[pc[t]].act, role |-> Calls[pc[t]].role,
                    d |-> cur[t], closeRoute |-> ClosesRoute(t, Target(t)), task |-> t]
  OBVIOUS
<1>1. /\ pc[t] \in Call /\ t \notin waiting /\ waiting' = waiting \cup {t} /\ net' = net \cup {g}
      /\ UNCHANGED <<pd, cd, routes, info, inbox, known, ended, unsure>> /\ UNCHANGED place
  BY <1>0 DEF CallPrivate
<1>2. TaskOK(t) /\ pc[t] # "idle"
  BY <1>1, CallNames DEF HalfInv, SetupInv, CatalogInv, Tasks
<1>3. PICK d \in Delivery : d = cur[t] /\ info[d] # None
  BY <1>2 DEF TaskOK
<1>4. /\ Calls[pc[t]].act \in {"abort", "close"}
      /\ pc[t] \in {"undoP", "dropP", "dropC", "backP", "shutP", "shutC",
                    "tellC", "tellP", "tellK"}
      /\ pc[t] \in {"undoP", "dropP", "backP", "shutP", "tellP"} => g.role = "producer"
      /\ pc[t] \in {"dropC", "shutC", "tellC"} => g.role = "consumer"
      /\ pc[t] = "tellK" => g.role = "both"
  BY <1>0, <1>1, ShutTable
<1>5. Shut(g, d) /\ g \in net' /\ About(g, d) /\ ~Setup(g, d)
  BY <1>0, <1>1, <1>3, <1>4 DEF Shut, About, Setup
<1>6. g.closeRoute <=> pc[t] \in Ending /\ Target(t) = info[d].coord
  BY <1>0, <1>2, <1>3 DEF ClosesRoute, TaskOK
<1>7. /\ g.role = "producer" => Target(t) = Producer(d)
      /\ g.role = "consumer" => Target(t) = Consumer(d)
      /\ g.role = "both" => Target(t) = info[d].coord
  BY <1>0, <1>3 DEF Target
<1>8. ASSUME Doomed(d) PROVE Doomed(d)'
  <2>1. /\ Held(t, d)' <=> Held(t, d)
        /\ \A S : WorksAt(t, d, S)' <=> WorksAt(t, d, S)
        /\ ThirdCoordinator(d)' <=> ThirdCoordinator(d)
    BY <1>1 DEF Held, WorksAt, ThirdCoordinator, Producer, Consumer
  <2>2. Shut(g, d)'
    BY <1>5 DEF Shut
  <2>3. ToProducer(t, d) => EndsP(d)'
    <3>1. CallsNext(t, d, {"undoP", "dropP", "backP", "shutP", "tellP"}) => EndsP(d)'
      BY <1>4, <1>5, <2>2 DEF CallsNext, WorksAt, EndsP
    <3>2. Held(t, d) \/ WorksAt(t, d, {"closing"}) => EndsP(d)'
      BY <2>1 DEF EndsP, ToProducer
    <3> QED BY <3>1, <3>2 DEF ToProducer
  <2>4. ToConsumer(t, d) => EndsC(d)'
    <3>1. CallsNext(t, d, {"dropC", "shutC", "tellC"}) => EndsC(d)'
      BY <1>4, <1>5, <2>2 DEF CallsNext, WorksAt, EndsC
    <3>2. Held(t, d) \/ WorksAt(t, d, {"closing", "dropP", "backP", "shutP"}) => EndsC(d)'
      BY <2>1 DEF EndsC, ToConsumer
    <3> QED BY <3>1, <3>2 DEF ToConsumer
  <2>5. ToRoute(t, d) => EndsR(d)'
    <3>1. ASSUME pc[t] = "tellK" \/ (pc[t] = "tellC" /\ info[d].coord = Consumer(d))
                 \/ (pc[t] = "tellP" /\ info[d].coord = Producer(d))
          PROVE  EndsR(d)'
      <4>1. g.closeRoute
        BY <1>4, <1>6, <1>7, <3>1 DEF Ending
      <4> QED BY <1>5, <2>2, <4>1 DEF EndsR
    <3>2. ASSUME Held(t, d) \/ WorksAt(t, d, {"closing", "dropP", "dropC", "backP", "shutP",
                                              "shutC", "remove"})
                 \/ (ThirdCoordinator(d) /\ WorksAt(t, d, {"tellC", "tellP"}))
          PROVE  EndsR(d)'
      BY <2>1, <3>2 DEF EndsR, ToRoute
    <3> QED BY <3>1, <3>2 DEF ToRoute, WorksAt, CallsNext
  <2> QED BY <1>1, <1>8, <2>3, <2>4, <2>5, DoomedStep
<1>9. \A e \in Delivery : /\ e \in todo[t] => Held(t, e)' /\ owned'[t] = owned[t]
                          /\ e # d => Same(t, e)
  BY <1>1, <1>3 DEF Same, Held, Busy
<1>10. \A e \in Delivery \ {d} : Kept(e)
  BY <1>0, <1>1, <1>3 DEF Kept, About
<1>11. \A f \in net' : Setup(f, d) => f \in net
  BY <1>1, <1>5
<1>12. ASSUME NEW e \in Delivery, info'[e] # None, ~Excused(e)' PROVE Sound(e)'
  <2>1. Sound(e)
    BY <1>1, <1>12, ExcusedKept DEF HalfInv, AllSound
  <2>2. pc[t] \notin PathPlace \cup {"idle"} /\ pc[t] # "end" /\ pc'[t] \notin PathPlace
    BY <1>1, <1>2, <1>4
  <2>3. \A w \in Task \ {t} : w \in waiting' <=> w \in waiting
    BY <1>1
  <2> QED BY <1>1, <1>3, <1>8, <1>9, <1>10, <1>11, <2>1, <2>2, <2>3, OffPathStep
<1> QED BY <1>12 DEF AllSound

(* Its call returns. *)
LEMMA ReturnOff ==
    ASSUME HalfInv, NEW t \in Task, ReceiveAnswer(t) \/ CallTimesOut(t), pc[t] \notin PathPlace
    PROVE  AllSound'
<1>1. /\ t \in waiting /\ waiting' = waiting \ {t} /\ inbox' = [inbox EXCEPT ![t] = None]
      /\ UNCHANGED <<state, info, net, known, ended>>
      /\ unsure' \in {unsure, unsure \cup {cur[t]}}
  BY DEF ReceiveAnswer, CallTimesOut, Returns, NoAnswer
<1>2. CatalogInv /\ TaskType /\ TaskOK(t) /\ pc[t] \in Call /\ DOMAIN inbox = Task
  BY <1>1 DEF HalfInv, SetupInv, CatalogInv, Tasks, Callers, Inboxes
<1>3. pc[t] # "idle"
  BY <1>2, CallNames
<1>4. PICK d \in Delivery : d = cur[t] /\ info[d] # None
  BY <1>2, <1>3 DEF TaskOK
<1>5. PICK there \in {Calls[pc[t]].ok, Calls[pc[t]].err} :
         /\ GoesOn(t, there)
         /\ pc[t] = "shutP" /\ d \notin unsure' => there = Calls[pc[t]].ok
  <2>1. CASE CallTimesOut(t)
    BY <1>4, <2>1 DEF CallTimesOut, NoAnswer, Decisive
  <2>2. CASE ReceiveAnswer(t)
    <3>1. PICK there \in {Calls[pc[t]].ok, Calls[pc[t]].err} :
             /\ GoesOn(t, there) /\ inbox[t] # None
             /\ inbox[t].act = Calls[pc[t]].act /\ inbox[t].ok => there = Calls[pc[t]].ok
             /\ inbox[t].act # Calls[pc[t]].act => NoAnswer(t)
      BY <2>2 DEF ReceiveAnswer
    <3>2. ASSUME pc[t] = "shutP", d \notin unsure'
          PROVE  inbox[t].act = Calls[pc[t]].act /\ inbox[t].ok
      <4>1. inbox[t].act = Calls[pc[t]].act
        BY <1>4, <3>1, <3>2 DEF NoAnswer, Decisive
      <4>2. inbox[t].act \in {"abort", "close"}
        BY <1>2, <3>2, <4>1, ShutTable
      <4> QED BY <3>1, <4>1, <4>2 DEF HalfInv, AnswersInv
    <3> QED BY <3>1, <3>2
  <2> QED BY <2>1, <2>2
<1>6. /\ \A e \in Delivery : /\ e \in todo[t] => Held(t, e)' /\ owned'[t] = owned[t]
                             /\ e # cur[t] => Same(t, e)
      /\ pc'[t] \notin PathPlace
      /\ pc[t] \in {"dropP", "backP"} => pc'[t] = "dropC" /\ cur'[t] = cur[t]
      /\ pc[t] = "shutP" /\ d \notin unsure' => pc'[t] = "shutC" /\ cur'[t] = cur[t]
      /\ pc[t] = "shutP" => pc'[t] \in {"shutC", "remove"} /\ cur'[t] = cur[t]
      /\ pc[t] \in {"dropC", "shutC"} => pc'[t] = "remove" /\ cur'[t] = cur[t]
      /\ pc[t] \in {"tellC", "tellP"} /\ ThirdCoordinator(cur[t]) =>
            pc'[t] = "tellK" /\ cur'[t] = cur[t]
  BY <1>2, <1>5, ShutGoesOn
<1>7. \A w \in Task \ {t} : /\ pc'[w] = pc[w] /\ cur'[w] = cur[w] /\ todo'[w] = todo[w]
                            /\ owned'[w] = owned[w] /\ inbox'[w] = inbox[w]
                            /\ w \in waiting' <=> w \in waiting
  BY <1>1, <1>2, <1>5, GoesOnAlone
<1>8. pc[t] \in {"undoP", "dropP", "dropC", "backP", "shutP", "shutC", "tellC", "tellP", "tellK"}
  BY <1>2, ShutTable
<1>9. ASSUME Doomed(d), d \notin unsure' PROVE Doomed(d)'
  <2>1. Held(t, d) => Held(t, d)'
    BY <1>6, <1>8 DEF Held
  <2>2. ToProducer(t, d) => EndsP(d)'
    BY <1>1, <1>8, <2>1 DEF ToProducer, CallsNext, WorksAt, EndsP
  <2>3. ToConsumer(t, d) => EndsC(d)'
    <3>1. CASE pc[t] \in {"dropP", "backP", "shutP"}
      <4>1. CallsNext(t, d, {"dropC", "shutC", "tellC"})'
        BY <1>1, <1>4, <1>6, <1>9, <3>1 DEF CallsNext, WorksAt
      <4> QED BY <4>1 DEF EndsC, ToConsumer
    <3>2. CASE pc[t] \notin {"dropP", "backP", "shutP"}
      BY <1>1, <1>8, <2>1, <3>2 DEF ToConsumer, CallsNext, WorksAt, EndsC
    <3> QED BY <3>1, <3>2
  <2>4. ToRoute(t, d) => EndsR(d)'
    <3>1. CASE pc[t] \in {"dropP", "dropC", "backP", "shutP", "shutC"}
      <4>1. WorksAt(t, d, {"closing", "dropP", "dropC", "backP", "shutP", "shutC", "remove"})'
        BY <1>4, <1>6, <3>1 DEF WorksAt
      <4> QED BY <4>1 DEF EndsR, ToRoute
    <3>2. CASE pc[t] \in {"tellC", "tellP"} /\ ThirdCoordinator(d)
      <4>1. CallsNext(t, d, {"tellK"})' /\ ThirdCoordinator(d)'
        BY <1>1, <1>4, <1>6, <3>2
        DEF CallsNext, WorksAt, ThirdCoordinator, Producer, Consumer
      <4> QED BY <4>1 DEF EndsR, ToRoute
    <3>3. CASE Held(t, d)
      BY <2>1, <3>3 DEF EndsR, ToRoute
    <3> QED BY <1>1, <1>8, <3>1, <3>2, <3>3 DEF ToRoute, WorksAt, CallsNext
  <2> QED BY <1>1, <1>7, <1>9, <2>2, <2>3, <2>4, DoomedStep
<1>10. \A e \in Delivery \ {d} : Kept(e)
  BY <1>1 DEF Kept
<1>11. ASSUME NEW e \in Delivery, info'[e] # None, ~Excused(e)' PROVE Sound(e)'
  <2>1. Sound(e) /\ e \notin unsure'
    BY <1>1, <1>11, ExcusedKept DEF HalfInv, AllSound, Excused
  <2>2. pc[t] \notin PathPlace \cup {"idle"} /\ pc[t] # "end"
    BY <1>3, <1>8
  <2>3. e = d /\ Doomed(e) => Doomed(e)'
    BY <1>9, <2>1
  <2> QED BY <1>1, <1>4, <1>6, <1>7, <1>10, <2>1, <2>2, <2>3, OffPathStep
<1> QED BY <1>11 DEF AllSound

(* closeDeliveryRoute begins, and removes the route in the end. *)
LEMMA CloseOff ==
    ASSUME HalfInv, NEW t \in Task, MarkClosing(t) \/ RemoveRoute(t)
    PROVE  RoutesInv' /\ AllSound'
<1>1. /\ pc[t] \in {"closing", "remove"} /\ t \notin waiting
      /\ UNCHANGED <<entries, pd, cd, info, net, known, unsure>> /\ UNCHANGED waits
      /\ ended \subseteq ended'
  BY CallNames DEF MarkClosing, RemoveRoute, HalfInv, SetupInv, CatalogInv, Callers
<1>2. CatalogInv /\ TaskType /\ Tasks /\ TaskOK(t) /\ RoutesInv
  BY DEF HalfInv, SetupInv, CatalogInv, Tasks
<1>3. PICK d \in Delivery : d = cur[t] /\ info[d] # None
  BY <1>1, <1>2 DEF TaskOK
<1>4. /\ \A e \in Delivery \ {d} : routes'[e] = routes[e]
      /\ routes[d] = "none" => routes'[d] = "none"
      /\ pc[t] = "remove" => routes'[d] = "none"
      /\ routes' \in [Delivery -> State \cup {"closing"}]
  BY <1>1, <1>2, <1>3 DEF MarkClosing, RemoveRoute, RoutesInv, State
<1>5. RoutesInv'
  BY <1>1, <1>2, <1>3, <1>4 DEF RoutesInv
<1>6. owned[t] = None /\ todo[t] = {}
  BY <1>1, <1>2 DEF TaskOK, Ending
<1>7. /\ pc'[t] \notin PathPlace
      /\ pc[t] = "closing" => pc'[t] = "shutP" /\ cur'[t] = d
      /\ \A e \in Delivery \ {d} : Same(t, e)
      /\ \A w \in Task \ {t} : /\ pc'[w] = pc[w] /\ cur'[w] = cur[w] /\ todo'[w] = todo[w]
                               /\ owned'[w] = owned[w]
  <2>1. CASE MarkClosing(t)
    <3>1. GoesOn(t, "shutP") /\ "shutP" \in Place /\ "shutP" \notin Ending /\ pc[t] = "closing"
      BY <2>1, CallNames DEF MarkClosing, Place, Ending
    <3>2. pc'[t] = "shutP" /\ cur'[t] = cur[t]
      BY <1>2, <3>1, GoesOnTo
    <3>3. \A e \in Delivery \ {d} : Same(t, e)
      BY <1>2, <1>3, <1>6, <3>1, GoesOnView
    <3> QED BY <1>2, <1>3, <3>1, <3>2, <3>3, GoesOnAlone DEF PathPlace
  <2>2. CASE RemoveRoute(t)
    <3>1. Finishes(t) /\ pc[t] = "remove"
      BY <2>2 DEF RemoveRoute
    <3>2. GoesOn(t, "idle") /\ "idle" \in Place /\ "idle" \notin Ending
      BY <3>1 DEF GoesOn, Place, Ending
    <3>3. pc'[t] = "idle"
      BY <1>2, <3>1 DEF Finishes, TaskType
    <3>4. \A e \in Delivery \ {d} : Same(t, e)
      BY <1>2, <1>3, <1>6, <3>1, <3>2, GoesOnView
    <3> QED BY <1>2, <1>3, <3>1, <3>2, <3>3, <3>4, GoesOnAlone DEF PathPlace
  <2> QED BY <2>1, <2>2
<1>8. ASSUME Doomed(d) PROVE Doomed(d)'
  <2>1. CASE pc[t] = "closing"
    <3>1. /\ CallsNext(t, d, {"undoP", "dropP", "backP", "shutP", "tellP"})'
          /\ WorksAt(t, d, {"closing", "dropP", "backP", "shutP"})'
          /\ WorksAt(t, d, {"closing", "dropP", "dropC", "backP", "shutP", "shutC", "remove"})'
      BY <1>1, <1>7, <2>1 DEF CallsNext, WorksAt
    <3> QED BY <3>1 DEF Doomed, EndsP, EndsC, EndsR, ToProducer, ToConsumer, ToRoute
  <2>2. CASE pc[t] = "remove"
    <3>1. ~ToProducer(t, d) /\ ~ToConsumer(t, d)
      BY <1>6, <2>2 DEF ToProducer, ToConsumer, Held, WorksAt, CallsNext
    <3>2. EndsR(d)'
      BY <1>4, <2>2 DEF EndsR
    <3> QED BY <1>1, <1>4, <1>7, <1>8, <3>1, <3>2, DoomedStep
  <2> QED BY <1>1, <2>1, <2>2
<1>9. \A e \in Delivery \ {d} : Kept(e)
  BY <1>1, <1>4 DEF Kept
<1>10. ASSUME NEW e \in Delivery, info'[e] # None, ~Excused(e)' PROVE Sound(e)'
  <2>1. Sound(e)
    BY <1>1, <1>10, ExcusedKept DEF HalfInv, AllSound
  <2>2. pc[t] \notin PathPlace \cup {"idle"} /\ pc[t] # "end"
    BY <1>1 DEF PathPlace
  <2>3. \A x \in Delivery : /\ x \in todo[t] => Held(t, x)' /\ owned'[t] = owned[t]
                            /\ x # d => Same(t, x)
    BY <1>6, <1>7
  <2> QED BY <1>1, <1>3, <1>4, <1>7, <1>8, <1>9, <2>1, <2>2, <2>3, OffPathStep
<1> QED BY <1>5, <1>10 DEF AllSound

(* A withdrawal closes its own side and begins to tell the others. *)
LEMMA EndOff ==
    ASSUME HalfInv, NEW t \in Task, EndLocal(t)
    PROVE  RoutesInv' /\ AllSound'
<1>1. PICK role \in {"producer", "consumer"}, there \in {"tellK", "tellC", "tellP"} :
         /\ pc[t] = "end"
         /\ role = "producer" <=> owned[t] \in Source
         /\ Producer(cur[t]) # Consumer(cur[t]) =>
              there = IF role = "producer" THEN "tellC" ELSE "tellP"
         /\ Apply(node[t], "close", role, cur[t], ClosesRoute(t, node[t]))
         /\ GoesOn(t, there)
         /\ UNCHANGED <<info, net, known, ended, unsure>> /\ UNCHANGED waits
  BY DEF EndLocal
<1>2. CatalogInv /\ TaskType /\ Tasks /\ TableType /\ RoutesInv /\ TaskOK(t)
  BY DEF HalfInv, SetupInv, CatalogInv, Tasks
<1>3. PICK d \in Delivery : d = cur[t] /\ info[d] # None
  BY <1>1, <1>2 DEF TaskOK
<1>4. owned[t] # None /\ Belongs(d, owned[t]) /\ node[t] = OwnerOf[owned[t]] /\ d \in ended
  BY <1>1, <1>2, <1>3 DEF TaskOK, Ending, HalfInv, EndedInv
<1>5. /\ role = "producer" => owned[t] = info[d].source /\ node[t] = Producer(d)
      /\ role = "consumer" => owned[t] = info[d].endpoint /\ node[t] = Consumer(d)
  <2>1. info[d].source \in Source /\ info[d].endpoint \in Endpoint
    BY <1>2, <1>3 DEF TableType, Info
  <2> QED BY <1>1, <1>4, <2>1, StreamAssumption DEF Belongs, Producer, Consumer
<1>6. t \notin waiting
  BY <1>1, CallNames DEF HalfInv, SetupInv, CatalogInv, Callers
<1>7. /\ pd[d] = "none" => pd'[d] = "none"
      /\ cd[d] = "none" => cd'[d] = "none"
      /\ routes[d] = "none" => routes'[d] = "none"
      /\ role = "producer" => pd'[d] = "none"
      /\ role = "consumer" => cd'[d] = "none"
      /\ node[t] = info[d].coord => routes'[d] = "none"
  <2>1. Apply(node[t], "close", role, d, ClosesRoute(t, node[t]))
    BY <1>1, <1>3
  <2>2. ClosesRoute(t, node[t]) <=> node[t] = info[d].coord
    BY <1>3, <1>4 DEF ClosesRoute
  <2>3. "close" \in {"abort", "close"}
    OBVIOUS
  <2> QED BY <1>2, <1>3, <1>5, <2>1, <2>2, <2>3, ApplyShut
<1>8. RoutesInv' /\ \A e \in Delivery \ {cur[t]} : routes'[e] = routes[e]
  <2>1. /\ cur[t] \in Delivery /\ UNCHANGED info
        /\ Apply(node[t], "close", role, cur[t], ClosesRoute(t, node[t]))
    BY <1>1, <1>3
  <2> QED BY <1>2, <2>1, ApplyRoutes
<1>9. \A e \in Delivery \ {cur[t]} : pd'[e] = pd[e] /\ cd'[e] = cd[e]
  <2>1. cur[t] \in Delivery /\ info[cur[t]] # None
    BY <1>3
  <2> QED BY <1>1, <1>2, <2>1, ApplyOthers
<1>10. there \in Place /\ there \in Ending
  BY <1>1, CallNames DEF Place, Ending
<1>11. \A e \in Delivery : /\ e \in todo[t] => Held(t, e)' /\ owned'[t] = owned[t]
                           /\ e # d => Same(t, e)
  BY <1>1, <1>2, <1>3, <1>4, <1>10, GoesOnView
<1>12. \A w \in Task \ {t} : /\ pc'[w] = pc[w] /\ cur'[w] = cur[w] /\ todo'[w] = todo[w]
                             /\ owned'[w] = owned[w]
  BY <1>1, <1>2, GoesOnAlone
<1>13. pc'[t] \notin PathPlace
  <2>1. pc'[t] \in {there, "idle", "end"}
    BY <1>1, <1>2, GoesOnWithin
  <2> QED BY <1>1, <2>1 DEF PathPlace
<1>14. ASSUME Doomed(d), Producer(d) # Consumer(d) PROVE Doomed(d)'
  <2>1. there = IF role = "producer" THEN "tellC" ELSE "tellP"
    BY <1>1, <1>3, <1>14
  <2>2. pc'[t] = there /\ cur'[t] = d
    BY <1>1, <1>2, <1>3, <2>1, GoesOnTo
  <2>3. CallsNext(t, d, {there})'
    BY <1>1, <1>6, <2>2 DEF CallsNext, WorksAt
  <2>4. EndsP(d)'
    <3>1. CASE role = "producer"
      BY <1>7, <3>1 DEF EndsP
    <3>2. CASE role = "consumer"
      <4>1. CallsNext(t, d, {"undoP", "dropP", "backP", "shutP", "tellP"})'
        BY <1>1, <1>6, <2>1, <2>2, <3>2 DEF CallsNext, WorksAt
      <4> QED BY <4>1 DEF EndsP, ToProducer
    <3> QED BY <1>1, <3>1, <3>2
  <2>5. EndsC(d)'
    <3>1. CASE role = "consumer"
      BY <1>7, <3>1 DEF EndsC
    <3>2. CASE role = "producer"
      <4>1. CallsNext(t, d, {"dropC", "shutC", "tellC"})'
        BY <1>1, <1>6, <2>1, <2>2, <3>2 DEF CallsNext, WorksAt
      <4> QED BY <4>1 DEF EndsC, ToConsumer
    <3> QED BY <1>1, <3>1, <3>2
  <2>6. EndsR(d)'
    <3>1. CASE node[t] = info[d].coord
      BY <1>7, <3>1 DEF EndsR
    <3>2. CASE ThirdCoordinator(d)
      <4>1. WorksAt(t, d, {"tellC", "tellP"})' /\ ThirdCoordinator(d)'
        BY <1>1, <2>1, <2>2, <3>2 DEF WorksAt, ThirdCoordinator, Producer, Consumer
      <4> QED BY <4>1 DEF EndsR, ToRoute
    <3>3. CASE node[t] # info[d].coord /\ ~ThirdCoordinator(d)
      <4>1. \/ role = "producer" /\ info[d].coord = Consumer(d)
            \/ role = "consumer" /\ info[d].coord = Producer(d)
        BY <1>1, <1>5, <3>3 DEF ThirdCoordinator
      <4>2. \/ (info[d].coord = Consumer(d))' /\ CallsNext(t, d, {"tellC"})'
            \/ (info[d].coord = Producer(d))' /\ CallsNext(t, d, {"tellP"})'
        BY <1>1, <1>6, <2>1, <2>2, <4>1 DEF CallsNext, WorksAt, Producer, Consumer
      <4> QED BY <4>2 DEF EndsR, ToRoute
    <3> QED BY <3>1, <3>2, <3>3
  <2> QED BY <2>4, <2>5, <2>6 DEF Doomed
<1>15. \A e \in Delivery \ {d} : Kept(e)
  BY <1>1, <1>3, <1>8, <1>9 DEF Kept
<1>16. ASSUME NEW e \in Delivery, info'[e] # None, ~Excused(e)' PROVE Sound(e)'
  <2>1. Sound(e) /\ ~Excused(e)
    BY <1>1, <1>16, ExcusedKept DEF HalfInv, AllSound
  <2>2. pc[t] \notin PathPlace \cup {"idle"}
    BY <1>1 DEF PathPlace
  <2>3. e = d /\ Doomed(e) => Doomed(e)'
    BY <1>4, <1>14, <2>1 DEF Excused
  <2>4. IF owned[t] \in Source THEN pd'[d] = "none" ELSE cd'[d] = "none"
    BY <1>1, <1>7
  <2>5. \A w \in Task \ {t} : /\ pc'[w] = pc[w] /\ cur'[w] = cur[w] /\ todo'[w] = todo[w]
                              /\ owned'[w] = owned[w] /\ inbox'[w] = inbox[w]
                              /\ w \in waiting' <=> w \in waiting
    BY <1>1, <1>12
  <2>6. \A f \in net' : Setup(f, d) => f \in net
    BY <1>1
  <2>7. UNCHANGED <<info, known>>
    BY <1>1
  <2> QED BY <1>3, <1>7, <1>11, <1>13, <1>15, <2>1, <2>2, <2>3, <2>4, <2>5, <2>6, <2>7, OffPathStep
<1> QED BY <1>8, <1>16 DEF AllSound

-----------------------------------------------------------------------------
(* Users and owners. *)

(* A step that leaves all tasks, tables and private frames alone. *)
LEMMA UserHalf ==
    ASSUME HalfInv, UNCHANGED <<pd, cd, routes, info, inbox, waiting, known, ended, unsure>>,
           UNCHANGED place,
           \A f \in net \cup net' : f.kind \in {"request", "answer"} => (f \in net <=> f \in net')
    PROVE  AllSound'
<1>1. ASSUME NEW e \in Delivery, info'[e] # None, ~Excused(e)' PROVE Sound(e)'
  <2>1. Sound(e)
    BY <1>1, ExcusedKept DEF HalfInv, AllSound
  <2>2. Kept(e) /\ \A u \in Task : Same(u, e)
    BY DEF Kept, Same, Held, Busy, About
  <2> QED BY <2>1, <2>2, OtherDelivery
<1> QED BY <1>1 DEF AllSound

(* A task that has nothing to do. *)
LEMMA IdleTask ==
    ASSUME CatalogInv, NEW t \in Task, pc[t] = "idle"
    PROVE  t \notin waiting /\ owned[t] = None /\ todo[t] = {}
  BY CallNames DEF CatalogInv, Callers, Tasks, TaskOK, Ending

(* A disconnect reaches the coordinator. *)
LEMMA DisconnectHalf ==
    ASSUME HalfInv, NEW f \in net, NEW t \in Task, RouteDeliveryRequest(f, t)
    PROVE  AllSound'
<1>1. /\ f.kind = "disconnect"
      /\ UNCHANGED <<pd, cd, routes, info, inbox, waiting, known, ended, unsure>>
  BY DEF RouteDeliveryRequest
<1>2. FrameOK(f) /\ CatalogInv /\ TaskType
  BY DEF HalfInv, SetupInv, CatalogInv, Frames
<1>3. PICK d \in Delivery : d = f.d /\ d \in known /\ info[d] # None
  BY <1>1, <1>2 DEF FrameOK, CatalogInv, Issued
<1>4. \A g \in net \cup net' : g.kind \in {"request", "answer"} => (g \in net <=> g \in net')
  <2>1. Forward(f) \/ net' = net \ {f}
    BY DEF RouteDeliveryRequest
  <2>2. CASE Forward(f)
    <3>1. \A g \in net' : g.kind \in {"request", "answer"} => g \in net
      BY <1>1, <1>2, <2>2, ForwardPublic DEF About
    <3>2. net \ {f} \subseteq net'
      BY <2>2 DEF Forward
    <3> QED BY <1>1, <3>1, <3>2
  <2> QED BY <1>1, <2>1, <2>2
<1>5. CASE UNCHANGED place
  BY <1>1, <1>4, <1>5, UserHalf
<1>6. CASE Starts(t, f.to, d, "closing")
  <2>1. /\ pc[t] = "idle" /\ pc'[t] = "closing" /\ cur'[t] = d /\ todo'[t] = todo[t]
        /\ owned'[t] = owned[t]
        /\ \A u \in Task \ {t} : /\ pc'[u] = pc[u] /\ cur'[u] = cur[u] /\ todo'[u] = todo[u]
                                 /\ owned'[u] = owned[u]
    BY <1>2, <1>6 DEF Starts, TaskType
  <2>2. t \notin waiting /\ todo[t] = {}
    BY <1>2, <2>1, IdleTask
  <2>3. ASSUME NEW e \in Delivery, info'[e] # None, ~Excused(e)' PROVE Sound(e)'
    <3>1. Sound(e)
      BY <1>1, <2>3, ExcusedKept DEF HalfInv, AllSound
    <3>2. CASE e # d
      <4>1. Kept(e)
        BY <1>1, <1>4 DEF Kept, About
      <4>2. \A u \in Task : Same(u, e)
        BY <1>1, <2>1, <2>2, <3>2 DEF Same, Held, Busy
      <4> QED BY <1>1, <3>1, <4>1, <4>2, OtherDelivery
    <3>3. CASE e = d
      <4>1. \A u \in Task : ~On(u, d)
        BY <1>3, <3>1, <3>3 DEF Sound, Lone
      <4>2. \A u \in Task : ~On(u, d)'
        BY <2>1, <4>1 DEF On, OnPath, PathPlace
      <4>3. \A g \in net' : ~ (About(g, d) /\ g.act = "prepare")
        <5>1. ASSUME NEW g \in net', About(g, d), g.act = "prepare" PROVE FALSE
          <6>1. g \in net
            BY <1>4, <5>1 DEF About
          <6>2. PICK u \in Task : WorksAt(u, d, {"prepP", "prepC"})
            BY <3>1, <3>3, <5>1, <6>1 DEF Sound, Preparing
          <6> QED BY <4>1, <6>2 DEF WorksAt, On, OnPath, PathPlace
        <5> QED BY <5>1
      <4>4. Doomed(d)'
        <5>1. /\ WorksAt(t, d, {"closing"})'
              /\ WorksAt(t, d, {"closing", "dropP", "backP", "shutP"})'
              /\ WorksAt(t, d, {"closing", "dropP", "dropC", "backP", "shutP", "shutC", "remove"})'
          BY <2>1 DEF WorksAt
        <5> QED BY <5>1 DEF Doomed, EndsP, EndsC, EndsR, ToProducer, ToConsumer, ToRoute
      <4>5. Sound(d)'
        BY <4>2, <4>3, <4>4 DEF Sound, Lone, Asked, Preparing, Whole, Settled, About
      <4> QED BY <3>3, <4>5
    <3> QED BY <3>2, <3>3
  <2> QED BY <2>3 DEF AllSound
<1> QED BY <1>3, <1>5, <1>6 DEF RouteDeliveryRequest

(* A connection is asked for, and its first call comes next. *)
LEMMA ConnectHalf ==
    ASSUME HalfInv, NEW f \in net, NEW t \in Task, RouteCoordinatorRequest(f, t)
    PROVE  RoutesInv' /\ AllSound'
<1>1. f.kind = "connect" /\ UNCHANGED <<pd, cd, routes, inbox, waiting, known, ended, unsure>>
  BY DEF RouteCoordinatorRequest
<1>2. FrameOK(f) /\ CatalogInv /\ TaskType /\ TableType /\ Tasks /\ RoutesInv
  BY DEF HalfInv, SetupInv, CatalogInv, Frames
<1>3. \A g \in net \cup net' : g.kind \in {"request", "answer"} => (g \in net <=> g \in net')
  <2>1. Forward(f) \/ net' = net \ {f}
    BY DEF RouteCoordinatorRequest
  <2>2. CASE Forward(f)
    <3>1. \A g \in net' : g.kind \in {"request", "answer"} => g \in net
      BY <1>1, <1>2, <2>2, ForwardPublic DEF About
    <3>2. net \ {f} \subseteq net'
      BY <2>2 DEF Forward
    <3> QED BY <1>1, <3>1, <3>2
  <2> QED BY <1>1, <2>1, <2>2
<1>4. CASE UNCHANGED <<info, place>>
  BY <1>1, <1>2, <1>3, <1>4, UserHalf DEF RoutesInv
<1>5. ASSUME NEW d \in Delivery, info[d] = None, NEW i, info' = [info EXCEPT ![d] = i],
             Starts(t, f.to, d, "prepP")
      PROVE  RoutesInv' /\ AllSound'
  <2>1. /\ pc[t] = "idle" /\ pc'[t] = "prepP" /\ cur'[t] = d /\ todo'[t] = todo[t]
        /\ owned'[t] = owned[t]
        /\ \A u \in Task \ {t} : /\ pc'[u] = pc[u] /\ cur'[u] = cur[u] /\ todo'[u] = todo[u]
                                 /\ owned'[u] = owned[u]
    BY <1>2, <1>5 DEF Starts, TaskType
  <2>2. t \notin waiting /\ todo[t] = {}
    BY <1>2, <2>1, IdleTask
  <2>3. \A e \in Delivery \ {d} : info'[e] = info[e]
    BY <1>2, <1>5 DEF TableType
  <2>4. RoutesInv'
    BY <1>1, <1>2, <1>5, <2>3 DEF RoutesInv
  <2>5. ASSUME NEW e \in Delivery, e # d, info'[e] # None, ~Excused(e)' PROVE Sound(e)'
    <3>1. Sound(e)
      BY <1>1, <2>3, <2>5, ExcusedKept DEF HalfInv, AllSound
    <3>2. Kept(e)
      BY <1>1, <1>3, <2>3, <2>5 DEF Kept, About
    <3>3. \A u \in Task : Same(u, e)
      BY <1>1, <2>1, <2>2, <2>5 DEF Same, Held, Busy
    <3> QED BY <1>1, <3>1, <3>2, <3>3, OtherDelivery
  <2>6. Sound(d)'
    <3>1. \A u \in Task : (pc[u] # "idle" => cur[u] # d) /\ d \notin todo[u]
      BY <1>2, <1>5 DEF Tasks, TaskOK, Belongs
    <3>2. \A g \in net' : ~About(g, d)
      <4>1. \A g \in net : ~About(g, d)
        BY <1>2, <1>5 DEF CatalogInv, Frames, FrameOK, About
      <4> QED BY <1>3, <4>1 DEF About
    <3>3. d \notin known' /\ pd'[d] = "none" /\ cd'[d] = "none" /\ routes'[d] = "none"
      BY <1>1, <1>2, <1>5 DEF CatalogInv, Issued, Unissued, RoutesInv
    <3>4. \A u \in Task : On(u, d)' => u = t
      BY <2>1, <3>1 DEF On, OnPath, PathPlace
    <3>5. Untouched(d)'
      <4>1. \A g \in net' : ~Shut(g, d)
        BY <3>2 DEF Shut, About
      <4>2. \A u \in Task : ~Held(u, d)' /\ (Busy(u, d)' => u = t)
        BY <2>1, <2>2, <3>1 DEF Held, Busy
      <4>3. OnPath(t)'
        BY <2>1 DEF OnPath, PathPlace
      <4> QED BY <4>1, <4>2, <4>3 DEF Untouched, Shut
    <3>6. Lone(d)'
      BY <3>3, <3>4 DEF Lone
    <3>7. Asked(d)' /\ Preparing(d)'
      BY <3>2 DEF Asked, Preparing, Setup, About
    <3>8. Stage(t, d)'
      BY <2>1, <3>3, <3>5 DEF Stage
    <3>9. On(t, d)'
      BY <2>1 DEF On, OnPath, PathPlace
    <3>10. Whole(d)'
      BY <3>4, <3>8, <3>9 DEF Whole
    <3> QED BY <3>6, <3>7, <3>10 DEF Sound
  <2> QED BY <2>4, <2>5, <2>6 DEF AllSound
<1>6. CASE \E d \in Delivery :
              /\ info[d] = None
              /\ info' = [info EXCEPT ![d] =
                    [by |-> f.req.by, source |-> f.req.source,
                     endpoint |-> f.req.endpoint, coord |-> f.to]]
              /\ Starts(t, f.to, d, "prepP")
  BY <1>5, <1>6
<1> QED BY <1>4, <1>6 DEF RouteCoordinatorRequest

(* An owner withdraws. *)
LEMMA WithdrawHalf ==
    ASSUME HalfInv, NEW t \in Task, NEW o \in Owned, Withdraw(o, t)
    PROVE  EndedInv' /\ AllSound'
<1>1. PICK held : held = {d \in entries[o] : (IF o \in Source THEN pd[d] ELSE cd[d]) # "none"}
  OBVIOUS
<1>2. /\ pc[t] = "idle" /\ ended' = ended \cup held
      /\ UNCHANGED <<pd, cd, routes, info, inbox, waiting, net, known, unsure>>
  BY <1>1 DEF Withdraw
<1>3. CatalogInv /\ TaskType
  BY DEF HalfInv, SetupInv, CatalogInv
<1>4. t \notin waiting /\ owned[t] = None /\ todo[t] = {}
  BY <1>2, <1>3, IdleTask
<1>5. CASE UNCHANGED place /\ held = {}
  <2>1. UNCHANGED ended
    BY <1>2, <1>5
  <2> QED BY <1>2, <1>5, <2>1, UserHalf DEF HalfInv, EndedInv
<1>6. ASSUME NEW x \in held,
             cur' = [cur EXCEPT ![t] = x], todo' = [todo EXCEPT ![t] = held \ {x}],
             pc' = [pc EXCEPT ![t] = "end"], owned' = [owned EXCEPT ![t] = o]
      PROVE  EndedInv' /\ AllSound'
  <2>1. /\ cur'[t] = x /\ todo'[t] = held \ {x} /\ pc'[t] = "end" /\ owned'[t] = o
        /\ \A u \in Task \ {t} : /\ pc'[u] = pc[u] /\ cur'[u] = cur[u] /\ todo'[u] = todo[u]
                                 /\ owned'[u] = owned[u]
    BY <1>3, <1>6 DEF TaskType
  <2>2. EndedInv'
    BY <1>2, <1>6, <2>1 DEF HalfInv, EndedInv
  <2>3. ASSUME NEW e \in Delivery, info'[e] # None, ~Excused(e)' PROVE Sound(e)'
    <3>1. Sound(e)
      BY <1>2, <2>3, ExcusedKept DEF HalfInv, AllSound
    <3>2. \A u \in Task \ {t} : Same(u, e)
      BY <1>2, <2>1 DEF Same, Held, Busy
    <3>3. Kept(e)
      BY <1>2 DEF Kept
    <3>4. ~Held(t, e) /\ ~Busy(t, e) /\ ~Busy(t, e)' /\ (Held(t, e)' <=> e \in held)
      BY <1>2, <1>4, <1>6, <2>1 DEF Held, Busy
    <3>5. CASE e \notin held
      <4>1. \A u \in Task : Same(u, e)
        BY <3>2, <3>4, <3>5 DEF Same
      <4> QED BY <1>2, <3>1, <3>3, <4>1, OtherDelivery
    <3>6. CASE e \in held
      <4>1. Held(t, e)'
        BY <3>4, <3>6
      <4>2. Doomed(e)' /\ HeldAny(e)'
        BY <4>1 DEF Doomed, EndsP, EndsC, EndsR, ToProducer, ToConsumer, ToRoute, HeldAny
      <4>3. cd[e] = "none" => pd[e] # "none" /\ HeldP(e)'
        BY <1>1, <2>1, <3>6, <4>1 DEF HeldP
      <4>4. \A u \in Task : /\ On(u, e)' <=> On(u, e)
                            /\ On(u, e) => /\ pc'[u] = pc[u] /\ inbox'[u] = inbox[u]
                                           /\ u \in waiting' <=> u \in waiting
        BY <1>2, <2>1 DEF On, OnPath, PathPlace
      <4>5. HeldP(e) => HeldP(e)'
        BY <3>2, <3>4 DEF HeldP, Same
      <4> QED BY <1>2, <3>1, <4>2, <4>3, <4>4, <4>5, OutsideStep
    <3> QED BY <3>5, <3>6
  <2> QED BY <2>2, <2>3 DEF AllSound
<1> QED BY <1>1, <1>5, <1>6 DEF Withdraw

-----------------------------------------------------------------------------
(* The task that sets a delivery up. *)

(* It withdraws nothing, and no other task sets the delivery up. *)
LEMMA PathTask ==
    ASSUME HalfInv, NEW t \in Task, OnPath(t)
    PROVE  /\ owned[t] = None /\ todo[t] = {} /\ cur[t] \in Delivery /\ info[cur[t]] # None
           /\ pc[t] # "idle"
           /\ ~ToProducer(t, cur[t]) /\ ~ToConsumer(t, cur[t]) /\ ~ToRoute(t, cur[t])
<1>1. TaskOK(t) /\ pc[t] \in PathPlace
  BY DEF HalfInv, SetupInv, CatalogInv, Tasks, OnPath
<1>2. owned[t] = None /\ todo[t] = {} /\ pc[t] # "idle"
  BY <1>1 DEF TaskOK, Ending, PathPlace
<1>3. ~ToProducer(t, cur[t]) /\ ~ToConsumer(t, cur[t]) /\ ~ToRoute(t, cur[t])
  BY <1>1, <1>2 DEF PathPlace, ToProducer, ToConsumer, ToRoute, Held, WorksAt, CallsNext
<1> QED BY <1>1, <1>2, <1>3 DEF TaskOK

(* What its calls do to the tables. *)
LEMMA ApplySetup ==
    ASSUME TableType, NEW n, NEW act \in {"prepare", "activate"},
           NEW role \in {"producer", "consumer"}, NEW d \in Delivery, info[d] # None,
           NEW closeRoute, closeRoute => n # info[d].coord, Apply(n, act, role, d, closeRoute)
    PROVE  /\ routes' = routes
           /\ role = "producer" => cd' = cd
           /\ role = "consumer" => pd' = pd
           /\ ~Accepts(n, act, role, d) => pd' = pd /\ cd' = cd
           /\ act = "activate" /\ Accepts(n, act, role, d) =>
                /\ role = "producer" => pd[d] # "none" /\ pd'[d] = "active"
                /\ role = "consumer" => cd[d] # "none" /\ cd'[d] = "active"
<1>1. /\ role = "consumer" => pd' = pd
      /\ role = "producer" => cd' = cd
      /\ act = "activate" /\ Accepts(n, act, role, d) =>
           /\ role = "producer" => pd'[d] = "active"
           /\ role = "consumer" => cd'[d] = "active"
  BY ApplyOthers
<1>2. routes' = routes /\ (~Accepts(n, act, role, d) => pd' = pd /\ cd' = cd)
  BY DEF Apply
<1>3. act = "activate" /\ Accepts(n, act, role, d) =>
        /\ role = "producer" => pd[d] # "none"
        /\ role = "consumer" => cd[d] # "none"
  BY DEF Accepts
<1> QED BY <1>1, <1>2, <1>3

(* The step leaves the other deliveries alone. *)
LEMMA PathElsewhere ==
    ASSUME NEW t \in Task, NEW d \in Delivery, d = cur[t], todo[t] = {}, pc[t] # "idle",
           NEW e \in Delivery, e # d, Sound(e), Kept(e), e \in known' => e \in known,
           todo'[t] = {}, cur'[t] = d \/ pc'[t] = "idle",
           \A w \in Task \ {t} : /\ pc'[w] = pc[w] /\ cur'[w] = cur[w] /\ todo'[w] = todo[w]
                                 /\ owned'[w] = owned[w] /\ inbox'[w] = inbox[w]
                                 /\ w \in waiting' <=> w \in waiting
    PROVE  Sound(e)'
<1>1. \A u \in Task : Same(u, e)
  BY DEF Same, Held, Busy
<1> QED BY <1>1, OtherDelivery

(* It stays on its path, and has no request under way. *)
LEMMA PathStays ==
    ASSUME NEW t \in Task, NEW d \in Delivery, On(t, d), Sound(d), On(t, d)', Stage(t, d)',
           d \in known' => d \in known, \A f \in net' : ~Setup(f, d),
           \A w \in Task \ {t} : pc'[w] = pc[w] /\ cur'[w] = cur[w]
    PROVE  Sound(d)'
<1>1. \A u \in Task : On(u, d)' => u = t
  BY DEF Sound, Lone, On, OnPath
<1>2. Lone(d)'
  BY <1>1 DEF Sound, Lone
<1>3. \A f : Setup(f, d)' <=> Setup(f, d)
  BY DEF Setup, About
<1>4. Asked(d)' /\ Preparing(d)'
  BY <1>3 DEF Asked, Preparing, Setup
<1>5. Whole(d)'
  BY <1>1 DEF Whole
<1> QED BY <1>2, <1>4, <1>5 DEF Sound

(* It leaves its path. *)
LEMMA PathLeft ==
    ASSUME NEW t \in Task, NEW d \in Delivery, On(t, d), Sound(d), ~On(t, d)', Settled(d)',
           \A f \in net' : ~ (About(f, d) /\ f.act = "prepare"),
           \A w \in Task \ {t} : pc'[w] = pc[w] /\ cur'[w] = cur[w]
    PROVE  Sound(d)'
<1>1. \A u \in Task : ~On(u, d)'
  BY DEF Sound, Lone, On, OnPath
<1> QED BY <1>1 DEF Sound, Lone, Asked, Preparing, Whole, About

(* What is untouched stays so while it goes on along its path. *)
LEMMA UntouchedStays ==
    ASSUME NEW t \in Task, NEW d \in Delivery, Untouched(d), todo'[t] = {},
           pc'[t] \in PathPlace \cup {"idle"},
           \A f \in net' : Shut(f, d) => f \in net,
           \A w \in Task \ {t} : pc'[w] = pc[w] /\ cur'[w] = cur[w] /\ todo'[w] = todo[w]
    PROVE  Untouched(d)'
<1>1. \A f \in net' : ~Shut(f, d)
  BY DEF Untouched
<1>2. ~Held(t, d)' /\ (Busy(t, d)' => OnPath(t)')
  BY DEF Held, Busy, OnPath, PathPlace
<1>3. \A w \in Task \ {t} : ~Held(w, d)' /\ (Busy(w, d)' => OnPath(w)')
  BY DEF Untouched, Held, Busy, OnPath
<1> QED BY <1>1, <1>2, <1>3 DEF Untouched, Shut

(* What is being taken down already stays so. *)
LEMMA DoomStays ==
    ASSUME HalfInv, NEW t \in Task, OnPath(t), NEW d, d = cur[t], Doomed(d), info'[d] = info[d],
           \A w \in Task \ {t} : /\ pc'[w] = pc[w] /\ cur'[w] = cur[w] /\ todo'[w] = todo[w]
                                 /\ w \in waiting' <=> w \in waiting,
           pd[d] = "none" => pd'[d] = "none", cd[d] = "none" => cd'[d] = "none",
           routes[d] = "none" => routes'[d] = "none",
           \A f \in net : Shut(f, d) => f \in net'
    PROVE  Doomed(d)'
<1>1. ~ToProducer(t, d) /\ ~ToConsumer(t, d) /\ ~ToRoute(t, d)
  BY PathTask
<1> QED BY <1>1, DoomedStep

(* The first call of the task that undoes what it has set up. *)
LEMMA UndoBegins ==
    ASSUME NEW t \in Task, NEW d, cur'[t] = d, t \notin waiting',
           \/ pc'[t] \in {"dropP", "backP"}
           \/ pc'[t] = "undoP" /\ cd'[d] = "none" /\ routes'[d] = "none"
    PROVE  Doomed(d)'
<1>1. CallsNext(t, d, {"undoP", "dropP", "backP", "shutP", "tellP"})'
  BY DEF CallsNext, WorksAt
<1>2. \/ WorksAt(t, d, {"closing", "dropP", "backP", "shutP"})'
      \/ cd'[d] = "none"
  BY DEF WorksAt
<1>3. \/ WorksAt(t, d, {"closing", "dropP", "dropC", "backP", "shutP", "shutC", "remove"})'
      \/ routes'[d] = "none"
  BY DEF WorksAt
<1> QED BY <1>1, <1>2, <1>3 DEF Doomed, EndsP, EndsC, EndsR, ToProducer, ToConsumer, ToRoute

(* The errors of the calls of a path. *)
LEMMA PathErrors ==
    ASSUME NEW p \in Call, p \in PathPlace
    PROVE  /\ p \in {"prepP", "prepC"} => Calls[p].act = "prepare"
           /\ Calls[p].act \in {"prepare", "activate"}
           /\ p = "prepP" => Calls[p].err = "idle"
           /\ p = "prepC" => Calls[p].err = "undoP"
           /\ p = "actP" => Calls[p].err = "dropP"
           /\ p = "actC" => Calls[p].err = "backP"
  BY CallNames DEF Calls, PathPlace

(* Where a call of the path leads. *)
LEMMA PathGoesOn ==
    ASSUME HalfInv, NEW t \in Task, pc[t] \in Call, OnPath(t),
           NEW there \in {Calls[pc[t]].ok, Calls[pc[t]].err}, GoesOn(t, there)
    PROVE  /\ todo'[t] = {}
           /\ pc[t] = "prepP" /\ there = Calls[pc[t]].err => pc'[t] = "idle"
           /\ ~ (pc[t] = "prepP" /\ there = Calls[pc[t]].err) =>
                pc'[t] = there /\ cur'[t] = cur[t]
<1>1. TaskType /\ todo[t] = {}
  BY PathTask DEF HalfInv, SetupInv, CatalogInv
<1>2. todo'[t] = {}
  BY <1>1, GoesOnWithin
<1>3. ASSUME pc[t] = "prepP", there = Calls[pc[t]].err PROVE pc'[t] = "idle"
  <2>1. there = "idle"
    BY <1>3, PathErrors DEF OnPath
  <2> QED BY <1>1, <2>1 DEF GoesOn, Finishes, TaskType
<1>4. ASSUME ~ (pc[t] = "prepP" /\ there = Calls[pc[t]].err)
      PROVE  pc'[t] = there /\ cur'[t] = cur[t]
  <2>1. CASE there = Calls[pc[t]].ok
    BY <1>1, <2>1, PathTable, GoesOnWithin DEF OnPath
  <2>2. CASE there = Calls[pc[t]].err
    <3>1. there \in {"undoP", "dropP", "backP"}
      BY <1>4, <2>2, PathErrors, PathTable DEF OnPath
    <3> QED BY <1>1, <3>1, GoesOnTo
  <2> QED BY <2>1, <2>2
<1> QED BY <1>2, <1>3, <1>4

(* What the other tasks hold they go on holding. *)
LEMMA OthersHold ==
    ASSUME HalfInv, NEW t \in Task, OnPath(t), NEW d,
           \A w \in Task \ {t} : /\ pc'[w] = pc[w] /\ cur'[w] = cur[w] /\ todo'[w] = todo[w]
                                 /\ owned'[w] = owned[w]
    PROVE  (HeldP(d) => HeldP(d)') /\ (HeldAny(d) => HeldAny(d)')
<1>1. ~Held(t, d)
  BY PathTask DEF Held, OnPath, PathPlace
<1>2. \A w \in Task \ {t} : Held(w, d) => Held(w, d)'
  BY DEF Held
<1> QED BY <1>1, <1>2 DEF HeldP, HeldAny

(* It calls its own node. *)
LEMMA LocalOn ==
    ASSUME HalfInv, NEW t \in Task, CallLocal(t), pc[t] \in PathPlace
    PROVE  AllSound'
<1> DEFINE call == Calls[pc[t]]
           there == IF Accepts(node[t], call.act, call.role, cur[t]) THEN call.ok ELSE call.err
<1>1. /\ pc[t] \in Call /\ t \notin waiting
      /\ Apply(node[t], call.act, call.role, cur[t], ClosesRoute(t, node[t]))
      /\ GoesOn(t, there) /\ UNCHANGED <<info, net, known, ended, unsure>> /\ UNCHANGED waits
  BY DEF CallLocal
<1>2. TaskType /\ TableType /\ OnPath(t) /\ inbox[t] = None
  BY <1>1 DEF HalfInv, SetupInv, CatalogInv, OnPath, Inboxes
<1>3. /\ owned[t] = None /\ todo[t] = {} /\ cur[t] \in Delivery
      /\ info[cur[t]] # None /\ pc[t] # "idle"
  BY <1>2, PathTask
<1>4. PICK d \in Delivery : d = cur[t]
  BY <1>3
<1>5. /\ pc[t] \in {"prepP", "prepC", "actP", "actC"}
      /\ call.act \in {"prepare", "activate"}
      /\ pc[t] \in {"prepP", "actP"} => call.role = "producer"
      /\ pc[t] \in {"prepC", "actC"} => call.role = "consumer"
      /\ pc[t] \in {"actP", "actC"} => call.act = "activate"
      /\ pc[t] = "prepP" => call.ok = "prepC"
      /\ pc[t] = "prepC" => call.ok = "install" /\ call.err = "undoP"
      /\ pc[t] = "actP" => call.ok = "actC" /\ call.err = "dropP"
      /\ pc[t] = "actC" => call.ok = "confirm" /\ call.err = "backP"
  BY <1>1, PathTable, PathErrors
<1>6. ~ClosesRoute(t, node[t])
  BY <1>3 DEF ClosesRoute
<1>7. /\ todo'[t] = {}
      /\ pc[t] = "prepP" /\ there = call.err => pc'[t] = "idle"
      /\ ~ (pc[t] = "prepP" /\ there = call.err) => pc'[t] = there /\ cur'[t] = d
  BY <1>1, <1>2, <1>4, PathGoesOn
<1>8. \A w \in Task \ {t} : /\ pc'[w] = pc[w] /\ cur'[w] = cur[w] /\ todo'[w] = todo[w]
                            /\ owned'[w] = owned[w] /\ inbox'[w] = inbox[w]
                            /\ w \in waiting' <=> w \in waiting
  BY <1>1, <1>2, GoesOnAlone
<1> DEFINE accepted == Accepts(node[t], call.act, call.role, cur[t])
<1>9. /\ routes' = routes
      /\ call.role = "producer" => cd' = cd
      /\ call.role = "consumer" => pd' = pd
      /\ ~accepted => pd' = pd /\ cd' = cd
      /\ call.act = "activate" /\ accepted =>
            /\ call.role = "producer" => pd[cur[t]] # "none" /\ pd'[cur[t]] = "active"
            /\ call.role = "consumer" => cd[cur[t]] # "none" /\ cd'[cur[t]] = "active"
  <2>1. call.role \in {"producer", "consumer"}
    BY <1>5
  <2> HIDE DEF call
  <2> QED BY <1>1, <1>2, <1>3, <1>5, <1>6, <2>1, ApplySetup
<1>10. \A e \in Delivery \ {cur[t]} : pd'[e] = pd[e] /\ cd'[e] = cd[e]
  BY <1>1, <1>2, <1>3, ApplyOthers
<1>11. there = IF accepted THEN call.ok ELSE call.err
  OBVIOUS
<1>12. call.ok # call.err
  BY <1>5, <1>1, PathTable
<1> HIDE DEF call, there, accepted
<1>13. ASSUME NEW e \in Delivery, e # d, info'[e] # None, ~Excused(e)' PROVE Sound(e)'
  <2>1. Sound(e)
    BY <1>1, <1>13, ExcusedKept DEF HalfInv, AllSound
  <2>2. Kept(e)
    BY <1>1, <1>4, <1>9, <1>10, <1>13 DEF Kept
  <2>3. e \in known' => e \in known
    BY <1>1
  <2> QED BY <1>3, <1>4, <1>7, <1>8, <1>13, <2>1, <2>2, <2>3, PathElsewhere
<1>14. ASSUME info'[d] # None, ~Excused(d)' PROVE Sound(d)'
  <2>1. Sound(d) /\ On(t, d)
    BY <1>1, <1>2, <1>4, <1>14, ExcusedKept DEF HalfInv, AllSound, On
  <2>2. Stage(t, d) /\ NotYet(t, d)
    BY <1>1, <2>1 DEF Sound, Whole, NotYet
  <2>3. \A f \in net' : ~Setup(f, d)
    BY <1>1, <2>1 DEF Sound, Asked
  <2>4. (HeldP(d) => HeldP(d)') /\ (HeldAny(d) => HeldAny(d)')
    BY <1>2, <1>8, OthersHold
  <2>5. CASE accepted
    <3>1. there = call.ok /\ pc'[t] = there /\ cur'[t] = d
      BY <1>7, <1>11, <1>12, <2>5
    <3>2. pc'[t] \in PathPlace /\ On(t, d)'
      BY <1>5, <3>1 DEF PathPlace, On, OnPath
    <3>3. Untouched(d) => Untouched(d)'
      BY <1>1, <1>7, <1>8, <3>2, UntouchedStays
    <3>4. ASSUME pc[t] \in {"actP", "actC"}, Doomed(d) PROVE Doomed(d)'
      <4>1. (pd[d] = "none" => pd'[d] = "none") /\ (cd[d] = "none" => cd'[d] = "none")
        BY <1>4, <1>5, <1>9, <2>5, <3>4
      <4> QED BY <1>1, <1>2, <1>4, <1>8, <1>9, <3>4, <4>1, DoomStays
    <3>5. ~Accepted(t, d)'
      <4>1. \A f \in net' : ~Setup(f, d)'
        BY <2>3 DEF Setup, About
      <4>2. inbox'[t] = None
        BY <1>1, <1>2
      <4> QED BY <4>1, <4>2 DEF Accepted
    <3>6. Stage(t, d)'
      <4>1. CASE pc[t] = "prepP"
        BY <1>5, <1>9, <2>2, <3>1, <3>3, <4>1 DEF Stage
      <4>2. CASE pc[t] = "prepC"
        <5>1. HeldP(d) => HeldAny(d)
          BY DEF HeldP, HeldAny
        <5> QED BY <1>5, <1>9, <2>2, <2>4, <3>1, <3>3, <4>2, <5>1 DEF Stage
      <4>3. CASE pc[t] = "actP"
        BY <1>4, <1>5, <1>9, <2>2, <2>5, <3>1, <3>3, <3>4, <3>5, <4>3 DEF Stage, Ready
      <4>4. CASE pc[t] = "actC"
        BY <1>4, <1>5, <1>9, <2>2, <2>5, <3>1, <3>3, <3>4, <4>4 DEF Stage, Ready
      <4> QED BY <1>5, <4>1, <4>2, <4>3, <4>4
    <3> QED BY <1>1, <1>8, <2>1, <2>3, <3>2, <3>6, PathStays
  <2>6. CASE ~accepted
    <3>1. there = call.err /\ UNCHANGED <<pd, cd, routes>>
      BY <1>5, <1>9, <1>11, <2>6
    <3>2. ~On(t, d)'
      BY <1>5, <1>7, <3>1 DEF On, OnPath, PathPlace
    <3>3. Doomed(d)'
      <4>1. CASE pc[t] = "prepP"
        BY <2>2, <3>1, <4>1 DEF Stage, Doomed, EndsP, EndsC, EndsR
      <4>2. CASE pc[t] # "prepP"
        <5>1. cur'[t] = d /\ t \notin waiting' /\ pc'[t] = there
          BY <1>1, <1>7, <4>2
        <5>2. \/ pc'[t] \in {"dropP", "backP"}
              \/ pc'[t] = "undoP" /\ cd'[d] = "none" /\ routes'[d] = "none"
          BY <1>5, <2>2, <3>1, <4>2, <5>1 DEF Stage
        <5> QED BY <5>1, <5>2, UndoBegins
      <4> QED BY <4>1, <4>2
    <3>4. \A f \in net' : ~ (About(f, d) /\ f.act = "prepare")
      BY <2>3 DEF Setup
    <3>5. Settled(d)'
      BY <3>3 DEF Settled
    <3> QED BY <1>8, <2>1, <3>2, <3>4, <3>5, PathLeft
  <2> QED BY <2>5, <2>6
<1> QED BY <1>13, <1>14 DEF AllSound

(* It calls another node. *)
LEMMA CallOn ==
    ASSUME HalfInv, NEW t \in Task, CallPrivate(t), pc[t] \in PathPlace
    PROVE  AllSound'
<1>0. PICK g : g = [kind |-> "request", to |-> NextHop(node[t], Target(t)), target |-> Target(t),
                    from |-> node[t], act |-> Calls[pc[t]].act, role |-> Calls[pc[t]].role,
                    d |-> cur[t], closeRoute |-> ClosesRoute(t, Target(t)), task |-> t]
  OBVIOUS
<1>1. /\ pc[t] \in Call /\ t \notin waiting /\ waiting' = waiting \cup {t} /\ net' = net \cup {g}
      /\ UNCHANGED <<pd, cd, routes, info, inbox, known, ended, unsure>> /\ UNCHANGED place
  BY <1>0 DEF CallPrivate
<1>2. OnPath(t) /\ inbox[t] = None
  BY <1>1 DEF HalfInv, SetupInv, OnPath, Inboxes
<1>3. todo[t] = {} /\ cur[t] \in Delivery /\ pc[t] # "idle"
  BY <1>2, PathTask
<1>4. PICK d \in Delivery : d = cur[t]
  BY <1>3
<1>5. /\ g.kind = "request" /\ g.d = d /\ g.act = Calls[pc[t]].act /\ g.role = Calls[pc[t]].role
      /\ g.act \in {"prepare", "activate"}
  BY <1>0, <1>1, <1>4, PathErrors
<1>6. /\ Setup(g, d) /\ ~Shut(g, d)
      /\ g.act = "prepare" => pc[t] \in {"prepP", "prepC"}
  BY <1>1, <1>5, PathTable DEF Setup, About, Shut
<1>7. \A w \in Task \ {t} : w \in waiting' <=> w \in waiting
  BY <1>1
<1>8. ASSUME NEW e \in Delivery, e # d, info'[e] # None, ~Excused(e)' PROVE Sound(e)'
  <2>1. Sound(e)
    BY <1>1, <1>8, ExcusedKept DEF HalfInv, AllSound
  <2>2. Kept(e)
    BY <1>1, <1>5, <1>8 DEF Kept, About
  <2> QED BY <1>1, <1>3, <1>4, <1>7, <1>8, <2>1, <2>2, PathElsewhere
<1>9. ASSUME info'[d] # None, ~Excused(d)' PROVE Sound(d)'
  <2>1. Sound(d) /\ On(t, d)
    BY <1>1, <1>2, <1>4, <1>9, ExcusedKept DEF HalfInv, AllSound, On
  <2>2. Stage(t, d) /\ NotYet(t, d)
    BY <1>1, <2>1 DEF Sound, Whole, NotYet
  <2>3. \A f \in net' : Setup(f, d) => f = g
    BY <1>1, <2>1 DEF Sound, Asked
  <2>4. \A u \in Task : On(u, d)' <=> u = t
    BY <1>1, <2>1 DEF Sound, Lone, On, OnPath
  <2>5. Lone(d)'
    BY <1>1, <2>1, <2>4 DEF Sound, Lone
  <2>6. Asked(d)'
    <3>1. \A f : Setup(f, d)' <=> Setup(f, d)
      BY DEF Setup, About
    <3>2. t \in waiting' /\ inbox'[t] = None /\ pc'[t] = pc[t]
      BY <1>1, <1>2
    <3> QED BY <1>5, <2>3, <2>4, <3>1, <3>2 DEF Asked
  <2>7. Preparing(d)'
    <3>1. ASSUME NEW f \in net', About(f, d), f.act = "prepare"
          PROVE  WorksAt(t, d, {"prepP", "prepC"})'
      <4>1. f = g
        BY <2>3, <3>1 DEF Setup
      <4> QED BY <1>1, <1>4, <1>6, <3>1, <4>1 DEF WorksAt
    <3> QED BY <3>1 DEF Preparing, About
  <2>8. Untouched(d) => Untouched(d)'
    <3>1. \A f \in net' : Shut(f, d) => f \in net
      BY <1>1, <1>6
    <3> QED BY <1>1, <1>3, <3>1, UntouchedStays
  <2>9. Doomed(d) => Doomed(d)'
    BY <1>1, <1>2, <1>4, <1>7, DoomStays
  <2>10. (HeldP(d) => HeldP(d)') /\ (HeldAny(d) => HeldAny(d)')
    BY <1>1, <1>2, OthersHold
  <2>11. ~Accepted(t, d)'
    <3>1. \A f \in net' : Setup(f, d)' => f.kind = "request"
      BY <1>5, <2>3 DEF Setup, About
    <3>2. inbox'[t] = None
      BY <1>1, <1>2
    <3> QED BY <3>1, <3>2 DEF Accepted
  <2>12. Stage(t, d)'
    <3>1. pc'[t] = pc[t] /\ pd'[d] = pd[d] /\ cd'[d] = cd[d] /\ routes'[d] = routes[d]
      BY <1>1
    <3>2. Ready(d) => Ready(d)'
      BY <2>8, <3>1 DEF Ready
    <3> QED BY <2>2, <2>8, <2>9, <2>10, <2>11, <3>1, <3>2 DEF Stage
  <2>13. Whole(d)'
    BY <2>4, <2>12 DEF Whole
  <2> QED BY <2>5, <2>6, <2>7, <2>13 DEF Sound
<1> QED BY <1>8, <1>9 DEF AllSound

(* Its call returns. *)
LEMMA ReturnOn ==
    ASSUME HalfInv, NEW t \in Task, ReceiveAnswer(t) \/ CallTimesOut(t), pc[t] \in PathPlace
    PROVE  AllSound'
<1>1. /\ t \in waiting /\ waiting' = waiting \ {t} /\ inbox' = [inbox EXCEPT ![t] = None]
      /\ UNCHANGED <<pd, cd, routes, info, net, known, ended>>
      /\ unsure' \in {unsure, unsure \cup {cur[t]}}
  BY DEF ReceiveAnswer, CallTimesOut, Returns, NoAnswer
<1>2. TaskType /\ OnPath(t) /\ pc[t] \in Call /\ DOMAIN inbox = Task
  BY <1>1 DEF HalfInv, SetupInv, CatalogInv, OnPath, Inboxes, Callers
<1>3. todo[t] = {} /\ cur[t] \in Delivery /\ pc[t] # "idle"
  BY <1>2, PathTask
<1>4. PICK d \in Delivery : d = cur[t]
  BY <1>3
<1>5. /\ pc[t] \in {"prepP", "prepC", "actP", "actC"}
      /\ Calls[pc[t]].act \in {"prepare", "activate"}
      /\ pc[t] = "prepP" => Calls[pc[t]].ok = "prepC"
      /\ pc[t] = "prepC" => Calls[pc[t]].ok = "install" /\ Calls[pc[t]].err = "undoP"
      /\ pc[t] = "actP" => Calls[pc[t]].ok = "actC" /\ Calls[pc[t]].err = "dropP"
      /\ pc[t] = "actC" => Calls[pc[t]].ok = "confirm" /\ Calls[pc[t]].err = "backP"
      /\ Calls[pc[t]].ok # Calls[pc[t]].err
  BY <1>2, PathTable, PathErrors
<1>6. PICK there \in {Calls[pc[t]].ok, Calls[pc[t]].err} :
         /\ GoesOn(t, there)
         /\ there = Calls[pc[t]].ok =>
              inbox[t] # None /\ inbox[t].act = Calls[pc[t]].act /\ inbox[t].ok
         /\ there = Calls[pc[t]].err /\ pc[t] \in {"prepP", "prepC"} /\ d \notin unsure' =>
              inbox[t] # None /\ inbox[t].act = Calls[pc[t]].act /\ ~inbox[t].ok
  <2>1. CASE CallTimesOut(t)
    <3>1. GoesOn(t, Calls[pc[t]].err) /\ NoAnswer(t)
      BY <2>1 DEF CallTimesOut
    <3>2. pc[t] \in {"prepP", "prepC"} => d \in unsure'
      BY <1>4, <3>1 DEF NoAnswer, Decisive
    <3> QED BY <1>5, <3>1, <3>2
  <2>2. CASE ReceiveAnswer(t)
    <3>1. /\ inbox[t] # None
          /\ GoesOn(t, IF inbox[t].act = Calls[pc[t]].act /\ inbox[t].ok
                       THEN Calls[pc[t]].ok ELSE Calls[pc[t]].err)
          /\ inbox[t].act # Calls[pc[t]].act => NoAnswer(t)
      BY <2>2 DEF ReceiveAnswer
    <3>2. inbox[t].act # Calls[pc[t]].act /\ pc[t] \in {"prepP", "prepC"} => d \in unsure'
      BY <1>4, <3>1 DEF NoAnswer, Decisive
    <3>3. CASE inbox[t].act = Calls[pc[t]].act /\ inbox[t].ok
      BY <1>5, <3>1, <3>3
    <3>4. CASE ~ (inbox[t].act = Calls[pc[t]].act /\ inbox[t].ok)
      BY <1>5, <3>1, <3>2, <3>4
    <3> QED BY <3>3, <3>4
  <2> QED BY <2>1, <2>2
<1>7. /\ todo'[t] = {}
      /\ pc[t] = "prepP" /\ there = Calls[pc[t]].err => pc'[t] = "idle"
      /\ ~ (pc[t] = "prepP" /\ there = Calls[pc[t]].err) => pc'[t] = there /\ cur'[t] = d
  BY <1>2, <1>4, <1>6, PathGoesOn
<1>8. \A w \in Task \ {t} : /\ pc'[w] = pc[w] /\ cur'[w] = cur[w] /\ todo'[w] = todo[w]
                            /\ owned'[w] = owned[w] /\ inbox'[w] = inbox[w]
                            /\ w \in waiting' <=> w \in waiting
  BY <1>1, <1>2, <1>6, GoesOnAlone
<1>9. ASSUME NEW e \in Delivery, e # d, info'[e] # None, ~Excused(e)' PROVE Sound(e)'
  <2>1. Sound(e)
    BY <1>1, <1>9, ExcusedKept DEF HalfInv, AllSound
  <2>2. Kept(e)
    BY <1>1 DEF Kept
  <2>3. cur'[t] = d \/ pc'[t] = "idle"
    BY <1>7
  <2> QED BY <1>1, <1>3, <1>4, <1>7, <1>8, <1>9, <2>1, <2>2, <2>3, PathElsewhere
<1>10. ASSUME info'[d] # None, ~Excused(d)' PROVE Sound(d)'
  <2>1. Sound(d) /\ On(t, d) /\ d \notin unsure'
    BY <1>1, <1>2, <1>4, <1>10, ExcusedKept DEF HalfInv, AllSound, On, Excused
  <2>2. Stage(t, d)
    BY <2>1 DEF Sound, Whole
  <2>3. (inbox[t] # None /\ inbox[t].act = Calls[pc[t]].act) => \A f \in net' : ~Setup(f, d)
    BY <1>1, <1>5, <2>1 DEF Sound, Asked
  <2>4. (HeldP(d) => HeldP(d)') /\ (HeldAny(d) => HeldAny(d)')
    BY <1>2, <1>8, OthersHold
  <2>5. CASE there = Calls[pc[t]].ok
    <3>1. pc'[t] = there /\ cur'[t] = d /\ Accepted(t, d)
      BY <1>5, <1>6, <1>7, <2>5 DEF Accepted
    <3>2. pc'[t] \in PathPlace /\ On(t, d)'
      BY <1>5, <2>5, <3>1 DEF PathPlace, On, OnPath
    <3>3. Untouched(d) => Untouched(d)'
      BY <1>1, <1>7, <1>8, <3>2, UntouchedStays
    <3>4. Doomed(d) => Doomed(d)'
      BY <1>1, <1>2, <1>4, <1>8, DoomStays
    <3>5. \A f \in net' : ~Setup(f, d)
      BY <1>6, <2>3, <2>5
    <3>6. ~Accepted(t, d)'
      <4>1. inbox'[t] = None
        BY <1>1, <1>2
      <4> QED BY <3>5, <4>1 DEF Accepted, Setup, About
    <3>7. Ready(d) => Ready(d)'
      BY <1>1, <3>3 DEF Ready
    <3>8. Stage(t, d)'
      <4>1. pd'[d] = pd[d] /\ cd'[d] = cd[d] /\ routes'[d] = routes[d]
        BY <1>1
      <4>2. CASE pc[t] = "prepP"
        BY <1>5, <2>2, <2>4, <2>5, <3>1, <3>3, <4>1, <4>2 DEF Stage
      <4>3. CASE pc[t] = "prepC"
        BY <1>5, <2>2, <2>4, <2>5, <3>1, <3>3, <4>1, <4>3 DEF Stage
      <4>4. CASE pc[t] = "actP"
        BY <1>5, <2>2, <2>5, <3>1, <3>4, <3>6, <3>7, <4>1, <4>4 DEF Stage
      <4>5. CASE pc[t] = "actC"
        BY <1>5, <2>2, <2>5, <3>1, <3>4, <3>7, <4>1, <4>5 DEF Stage
      <4> QED BY <1>5, <4>2, <4>3, <4>4, <4>5
    <3> QED BY <1>1, <1>8, <2>1, <3>2, <3>5, <3>8, PathStays
  <2>6. CASE there = Calls[pc[t]].err
    <3>1. ~On(t, d)'
      BY <1>5, <1>7, <2>6 DEF On, OnPath, PathPlace
    <3>2. pc[t] \in {"prepP", "prepC"} => NotYet(t, d) /\ \A f \in net' : ~Setup(f, d)
      BY <1>6, <2>1, <2>3, <2>6 DEF NotYet
    <3>3. Doomed(d)'
      <4>1. CASE pc[t] = "prepP"
        BY <1>1, <2>2, <3>2, <4>1 DEF Stage, Doomed, EndsP, EndsC, EndsR
      <4>2. CASE pc[t] # "prepP"
        <5>1. cur'[t] = d /\ t \notin waiting' /\ pc'[t] = there
          BY <1>1, <1>7, <4>2
        <5>2. \/ pc'[t] \in {"dropP", "backP"}
              \/ pc'[t] = "undoP" /\ cd'[d] = "none" /\ routes'[d] = "none"
          BY <1>1, <1>5, <2>2, <2>6, <3>2, <4>2, <5>1 DEF Stage
        <5> QED BY <5>1, <5>2, UndoBegins
      <4> QED BY <4>1, <4>2
    <3>4. \A f \in net' : ~ (About(f, d) /\ f.act = "prepare")
      <4>1. CASE pc[t] \in {"prepP", "prepC"}
        BY <3>2, <4>1 DEF Setup
      <4>2. CASE pc[t] \in {"actP", "actC"}
        <5>1. \A f \in net' : Setup(f, d) => f.act = "activate"
          BY <1>1, <1>2, <2>1, <4>2, PathTable DEF Sound, Asked
        <5> QED BY <5>1 DEF Setup
      <4> QED BY <1>5, <4>1, <4>2
    <3>5. Settled(d)'
      BY <3>3 DEF Settled
    <3> QED BY <1>8, <2>1, <3>1, <3>4, <3>5, PathLeft
  <2> QED BY <2>5, <2>6
<1> QED BY <1>9, <1>10 DEF AllSound

(* It installs the route, and confirms it in the end. *)
LEMMA RouteOn ==
    ASSUME HalfInv, NEW t \in Task, InstallRoute(t) \/ ConfirmRoute(t)
    PROVE  RoutesInv' /\ AllSound'
<1>1. /\ pc[t] \in {"install", "confirm"} /\ t \notin waiting
      /\ UNCHANGED <<entries, pd, cd, info, net, ended, unsure>> /\ UNCHANGED waits
      /\ known' = IF pc[t] = "confirm" THEN known \cup {cur[t]} ELSE known
  BY CallNames DEF InstallRoute, ConfirmRoute, HalfInv, SetupInv, CatalogInv, Callers
<1>2. TaskType /\ RoutesInv /\ OnPath(t) /\ inbox[t] = None
  BY <1>1 DEF HalfInv, SetupInv, CatalogInv, OnPath, PathPlace, Inboxes
<1>3. todo[t] = {} /\ cur[t] \in Delivery /\ pc[t] # "idle" /\ info[cur[t]] # None
  BY <1>2, PathTask
<1>4. PICK d \in Delivery : d = cur[t]
  BY <1>3
<1>5. /\ routes' \in [Delivery -> State \cup {"closing"}]
      /\ \A e \in Delivery \ {d} : routes'[e] = routes[e]
      /\ pc[t] = "install" => routes'[d] = "pending"
      /\ pc[t] = "confirm" => routes'[d] = IF routes[d] = "none" THEN "none" ELSE "active"
  BY <1>1, <1>2, <1>4 DEF InstallRoute, ConfirmRoute, RoutesInv, State
<1>6. RoutesInv'
  BY <1>1, <1>2, <1>3, <1>4, <1>5 DEF RoutesInv
<1>7. /\ todo'[t] = {}
      /\ pc[t] = "install" => pc'[t] = "actP" /\ cur'[t] = d
      /\ pc[t] = "confirm" => pc'[t] = "idle"
      /\ \A w \in Task \ {t} : /\ pc'[w] = pc[w] /\ cur'[w] = cur[w] /\ todo'[w] = todo[w]
                               /\ owned'[w] = owned[w]
  <2>1. CASE InstallRoute(t)
    <3>1. GoesOn(t, "actP") /\ pc[t] = "install"
      BY <2>1 DEF InstallRoute
    <3>2. pc'[t] = "actP" /\ cur'[t] = cur[t] /\ todo'[t] = todo[t]
      BY <1>2, <3>1, GoesOnTo
    <3> QED BY <1>2, <1>3, <1>4, <3>1, <3>2, GoesOnAlone
  <2>2. CASE ConfirmRoute(t)
    <3>1. Finishes(t) /\ pc[t] = "confirm"
      BY <2>2 DEF ConfirmRoute
    <3> QED BY <1>2, <1>3, <3>1 DEF Finishes, TaskType
  <2> QED BY <2>1, <2>2
<1>8. ASSUME NEW e \in Delivery, e # d, info'[e] # None, ~Excused(e)' PROVE Sound(e)'
  <2>1. Sound(e)
    BY <1>1, <1>8, ExcusedKept DEF HalfInv, AllSound
  <2>2. Kept(e)
    BY <1>1, <1>5, <1>8 DEF Kept
  <2>3. (cur'[t] = d \/ pc'[t] = "idle") /\ (e \in known' => e \in known)
    BY <1>1, <1>4, <1>7, <1>8
  <2>4. \A w \in Task \ {t} : inbox'[w] = inbox[w] /\ (w \in waiting' <=> w \in waiting)
    BY <1>1
  <2> QED BY <1>3, <1>4, <1>7, <1>8, <2>1, <2>2, <2>3, <2>4, PathElsewhere
<1>9. ASSUME info'[d] # None, ~Excused(d)' PROVE Sound(d)'
  <2>1. Sound(d) /\ On(t, d)
    BY <1>1, <1>2, <1>4, <1>9, ExcusedKept DEF HalfInv, AllSound, On
  <2>2. Stage(t, d)
    BY <2>1 DEF Sound, Whole
  <2>3. \A f \in net' : ~Setup(f, d)
    BY <1>1, <2>1 DEF Sound, Asked
  <2>4. Untouched(d) => Untouched(d)'
    <3>1. pc'[t] \in PathPlace \cup {"idle"}
      BY <1>1, <1>7 DEF PathPlace
    <3> QED BY <1>1, <1>7, <3>1, UntouchedStays
  <2>5. HeldAny(d) => Doomed(d)'
    <3>1. HeldAny(d) => HeldAny(d)'
      BY <1>2, <1>7, OthersHold
    <3>2. HeldAny(d)' => Doomed(d)'
      BY DEF HeldAny, Doomed, EndsP, EndsC, EndsR, ToProducer, ToConsumer, ToRoute
    <3> QED BY <3>1, <3>2
  <2>6. CASE pc[t] = "install"
    <3>1. On(t, d)'
      BY <1>7, <2>6 DEF On, OnPath, PathPlace
    <3>2. ~Accepted(t, d)'
      <4>1. inbox'[t] = None
        BY <1>1, <1>2
      <4> QED BY <2>3, <4>1 DEF Accepted, Setup, About
    <3>3. Stage(t, d)'
      BY <1>1, <1>5, <1>7, <2>2, <2>4, <2>5, <2>6, <3>2 DEF Stage
    <3>4. d \in known' => d \in known
      BY <1>1, <2>6
    <3> QED BY <1>7, <2>1, <2>3, <3>1, <3>3, <3>4, PathStays
  <2>7. CASE pc[t] = "confirm"
    <3>1. ~On(t, d)'
      BY <1>7, <2>7 DEF On, OnPath, PathPlace
    <3>2. Doomed(d) => Doomed(d)'
      <4>1. routes[d] = "none" => routes'[d] = "none"
        BY <1>5, <2>7
      <4> QED BY <1>1, <1>2, <1>4, <1>7, <4>1, DoomStays
    <3>3. Settled(d)'
      BY <1>1, <1>5, <2>2, <2>4, <2>7, <3>2 DEF Stage, Settled, Ready
    <3>4. \A f \in net' : ~ (About(f, d) /\ f.act = "prepare")
      BY <2>3 DEF Setup
    <3> QED BY <1>7, <2>1, <3>1, <3>3, <3>4, PathLeft
  <2> QED BY <1>1, <2>6, <2>7
<1> QED BY <1>6, <1>8, <1>9 DEF AllSound

-----------------------------------------------------------------------------
(* Frames. *)

(* A node handles a request to close: the part that it is for is gone. *)
LEMMA HandleShut ==
    ASSUME HalfInv, NEW f \in net, HandlePrivate(f), NEW d \in Delivery, Shut(f, d),
           f.to = f.target, Sound(d)
    PROVE  Sound(d)'
<1>1. PICK g : g = [kind |-> "answer", to |-> f.from, act |-> f.act, d |-> f.d,
                    ok |-> Accepts(f.to, f.act, f.role, f.d), task |-> f.task]
  OBVIOUS
<1>2. /\ f.kind = "request" /\ f.d = d /\ f.act \in {"abort", "close"}
      /\ Apply(f.to, f.act, f.role, d, f.closeRoute) /\ net' = (net \ {f}) \cup {g}
      /\ UNCHANGED <<info, inbox, waiting, known>> /\ UNCHANGED place
  BY <1>1 DEF HandlePrivate, Shut
<1>3. TableType /\ RoutesInv /\ info[d] # None /\ Addressed(f)
  BY <1>2 DEF HalfInv, SetupInv, CatalogInv, Frames, FrameOK
<1>4. /\ pd[d] = "none" => pd'[d] = "none"
      /\ cd[d] = "none" => cd'[d] = "none"
      /\ routes[d] = "none" => routes'[d] = "none"
      /\ f.role = "producer" => pd'[d] = "none"
      /\ f.role = "consumer" => cd'[d] = "none"
      /\ f.closeRoute => routes'[d] = "none"
  <2>1. /\ f.role = "producer" => f.to = Producer(d)
        /\ f.role = "consumer" => f.to = Consumer(d)
        /\ f.closeRoute => f.to = info[d].coord
    BY <1>2, <1>3 DEF Addressed
  <2>2. /\ pd[d] = "none" => pd'[d] = "none"
        /\ cd[d] = "none" => cd'[d] = "none"
        /\ routes[d] = "none" => routes'[d] = "none"
        /\ f.role = "producer" /\ f.to = Producer(d) => pd'[d] = "none"
        /\ f.role = "consumer" /\ f.to = Consumer(d) => cd'[d] = "none"
        /\ f.closeRoute /\ f.to = info[d].coord => routes'[d] = "none"
    BY <1>2, <1>3, ApplyShut
  <2> QED BY <2>1, <2>2
<1>5. ~Untouched(d)
  BY DEF Untouched
<1>6. ~Setup(g, d) /\ ~Shut(g, d)
  BY <1>1, <1>2 DEF Setup, Shut
<1>7. \A h : Shut(h, d)' <=> Shut(h, d)
  BY DEF Shut
<1>8. \A u \in Task : Same(u, d)
  BY <1>2 DEF Same, Held, Busy
<1>9. \A u \in Task : /\ ToProducer(u, d)' <=> ToProducer(u, d)
                      /\ ToConsumer(u, d)' <=> ToConsumer(u, d)
                      /\ ToRoute(u, d)' <=> ToRoute(u, d)
  BY <1>2, <1>8, SameWork
<1>10. ASSUME Doomed(d) PROVE Doomed(d)'
  <2>1. EndsP(d)'
    BY <1>2, <1>4, <1>7, <1>9, <1>10 DEF Doomed, EndsP
  <2>2. EndsC(d)'
    BY <1>2, <1>4, <1>7, <1>9, <1>10 DEF Doomed, EndsC
  <2>3. EndsR(d)'
    BY <1>2, <1>4, <1>7, <1>9, <1>10 DEF Doomed, EndsR
  <2> QED BY <2>1, <2>2, <2>3 DEF Doomed
<1>11. /\ HeldP(d) => HeldP(d)'
       /\ HeldAny(d) => HeldAny(d)'
  BY <1>8 DEF HeldP, HeldAny, Same
<1>12. /\ \A h \in net' : Setup(h, d) => h \in net
       /\ \A u \in Task : On(u, d)' <=> On(u, d)
       /\ \A u \in Task : pc'[u] = pc[u] /\ inbox'[u] = inbox[u]
       /\ \A u \in Task : u \in waiting' <=> u \in waiting
       /\ d \in known' => d \in known
  BY <1>2, <1>6 DEF On, OnPath
<1> QED BY <1>4, <1>5, <1>10, <1>11, <1>12, OutsideStep

(* A node handles a request of a path, or a late one. *)
LEMMA HandleOpen ==
    ASSUME HalfInv, NEW f \in net, HandlePrivate(f), NEW d \in Delivery, f.d = d,
           f.act \in {"prepare", "activate"}, f.to = f.target, Sound(d)
    PROVE  Sound(d)'
<1>1. PICK g : g = [kind |-> "answer", to |-> f.from, act |-> f.act, d |-> f.d,
                    ok |-> Accepts(f.to, f.act, f.role, f.d), task |-> f.task]
  OBVIOUS
<1>2. /\ f.kind = "request"
      /\ Apply(f.to, f.act, f.role, d, f.closeRoute) /\ net' = (net \ {f}) \cup {g}
      /\ UNCHANGED <<info, inbox, waiting, known>> /\ UNCHANGED place
  BY <1>1 DEF HandlePrivate
<1>3. TableType /\ info[d] # None /\ Addressed(f) /\ f.role \in {"producer", "consumer"}
  BY <1>2 DEF HalfInv, SetupInv, CatalogInv, Frames, FrameOK, Role
<1> DEFINE accepted == Accepts(f.to, f.act, f.role, d)
<1>4. /\ routes' = routes
      /\ f.role = "producer" => cd' = cd
      /\ f.role = "consumer" => pd' = pd
      /\ ~accepted => pd' = pd /\ cd' = cd
      /\ f.act = "activate" /\ accepted =>
           /\ f.role = "producer" => pd[d] # "none" /\ pd'[d] = "active"
           /\ f.role = "consumer" => cd[d] # "none" /\ cd'[d] = "active"
  <2>1. ~f.closeRoute
    BY <1>2, <1>3 DEF Addressed
  <2> QED BY <1>2, <1>3, <2>1, ApplySetup
<1>5. /\ g.kind = "answer" /\ g.d = d /\ g.act = f.act /\ (g.ok <=> accepted)
  BY <1>1
<1> HIDE DEF accepted
<1>6. Setup(f, d) /\ Setup(g, d) /\ ~Shut(f, d) /\ ~Shut(g, d)
  BY <1>2, <1>5 DEF Setup, About, Shut
<1>7. \A h : (Shut(h, d)' <=> Shut(h, d)) /\ (Setup(h, d)' <=> Setup(h, d))
  BY DEF Shut, Setup, About
<1>8. \A u \in Task : Same(u, d)
  BY <1>2 DEF Same, Held, Busy
<1>9. \A u \in Task : /\ ToProducer(u, d)' <=> ToProducer(u, d)
                      /\ ToConsumer(u, d)' <=> ToConsumer(u, d)
                      /\ ToRoute(u, d)' <=> ToRoute(u, d)
                      /\ On(u, d)' <=> On(u, d)
  BY <1>2, <1>8, SameWork
<1>10. ASSUME Doomed(d), f.act = "activate" PROVE Doomed(d)'
  <2>1. (pd[d] = "none" => pd'[d] = "none") /\ (cd[d] = "none" => cd'[d] = "none")
    BY <1>3, <1>4, <1>10
  <2>2. \A h \in net : Shut(h, d) => h \in net'
    BY <1>2, <1>6
  <2> QED BY <1>4, <1>7, <1>9, <1>10, <2>1, <2>2 DEF Doomed, EndsP, EndsC, EndsR
<1>11. Untouched(d) => Untouched(d)'
  <2>1. \A h \in net' : Shut(h, d) => h \in net
    BY <1>2, <1>6
  <2> QED BY <1>2, <1>7, <1>8, <2>1 DEF Untouched, Same, OnPath
<1>12. /\ HeldP(d) => HeldP(d)'
       /\ HeldAny(d) => HeldAny(d)'
       /\ HeldP(d) => HeldAny(d)
  BY <1>8 DEF HeldP, HeldAny, Same
<1>13. Lone(d)'
  BY <1>2, <1>9 DEF Sound, Lone
<1>14. CASE \A u \in Task : ~On(u, d)
  <2>1. f.act = "activate"
    <3>1. SUFFICES ASSUME f.act = "prepare" PROVE FALSE
      OBVIOUS
    <3>2. PICK u \in Task : WorksAt(u, d, {"prepP", "prepC"})
      BY <1>2, <3>1 DEF Sound, Preparing, About
    <3> QED BY <1>14, <3>2 DEF WorksAt, On, OnPath, PathPlace
  <2>2. Asked(d)'
    BY <1>9, <1>14 DEF Asked
  <2>3. Preparing(d)'
    <3>1. ASSUME NEW h \in net', About(h, d), h.act = "prepare"
          PROVE  \E u \in Task : WorksAt(u, d, {"prepP", "prepC"})'
      <4>1. h \in net
        BY <1>2, <1>5, <2>1, <3>1
      <4>2. PICK u \in Task : WorksAt(u, d, {"prepP", "prepC"})
        BY <3>1, <4>1 DEF Sound, Preparing
      <4> QED BY <1>14, <4>2 DEF WorksAt, On, OnPath, PathPlace
    <3> QED BY <3>1 DEF Preparing, About
  <2>4. Settled(d)'
    <3>1. Settled(d)
      BY <1>14 DEF Sound, Whole
    <3> QED BY <1>3, <1>4, <1>10, <1>11, <2>1, <3>1 DEF Settled
  <2>5. Whole(d)'
    BY <1>9, <1>14, <2>4 DEF Whole
  <2> QED BY <1>13, <2>2, <2>3, <2>5 DEF Sound
<1>15. ASSUME NEW t \in Task, On(t, d) PROVE Sound(d)'
  <2>1. \A u \in Task : On(u, d)' => u = t
    BY <1>9, <1>15 DEF Sound, Lone
  <2>2. /\ t \in waiting /\ f.act = Calls[pc[t]].act /\ f.role = Calls[pc[t]].role
        /\ ~ (inbox[t] # None /\ inbox[t].act \in {"prepare", "activate"})
        /\ \A h \in net : Setup(h, d) => h = f
    BY <1>2, <1>6, <1>15 DEF Sound, Asked
  <2>3. pc'[t] = pc[t] /\ inbox'[t] = inbox[t] /\ t \in waiting'
    BY <1>2, <2>2
  <2>4. \A h \in net' : Setup(h, d) => h = g
    BY <1>2, <2>2
  <2>5. Asked(d)'
    BY <1>5, <1>7, <2>1, <2>2, <2>3, <2>4 DEF Asked
  <2>6. /\ pc[t] \in Call /\ pc[t] \in {"prepP", "prepC", "actP", "actC"}
        /\ pc[t] \in {"prepP", "prepC"} => Calls[pc[t]].act = "prepare"
        /\ pc[t] \in {"actP", "actC"} => Calls[pc[t]].act = "activate"
        /\ pc[t] \in {"prepP", "actP"} => Calls[pc[t]].role = "producer"
        /\ pc[t] \in {"prepC", "actC"} => Calls[pc[t]].role = "consumer"
    <3>1. pc[t] \in Call /\ pc[t] \in PathPlace
      BY <1>15, <2>2 DEF HalfInv, SetupInv, CatalogInv, Callers, On, OnPath
    <3> QED BY <3>1, PathTable, PathErrors
  <2>7. Preparing(d)'
    <3>1. ASSUME NEW h \in net', About(h, d), h.act = "prepare"
          PROVE  WorksAt(t, d, {"prepP", "prepC"})'
      <4>1. h = g
        BY <2>4, <3>1 DEF Setup
      <4>2. pc[t] \in {"prepP", "prepC"}
        BY <1>5, <2>2, <2>6, <3>1, <4>1
      <4> QED BY <1>9, <1>15, <2>3, <4>2 DEF WorksAt, On
    <3> QED BY <3>1 DEF Preparing, About
  <2>8. NotYet(t, d) /\ Stage(t, d)
    BY <1>2, <1>6, <1>15 DEF NotYet, Sound, Whole
  <2>9. (NotYet(t, d)' => ~accepted) /\ (Accepted(t, d)' => accepted)
    <3>1. ~ (inbox'[t] # None /\ inbox'[t].act = Calls[pc'[t]].act)
      BY <2>2, <2>3, <2>6
    <3>2. NotYet(t, d)' => ~accepted
      BY <1>5, <1>7, <2>3, <2>4, <3>1 DEF NotYet
    <3>3. Accepted(t, d)' => accepted
      BY <1>5, <1>7, <2>4, <3>1 DEF Accepted
    <3> QED BY <3>2, <3>3
  <2>10. Stage(t, d)'
    <3>1. CASE pc[t] = "prepP"
      <4>1. cd' = cd /\ routes' = routes /\ (NotYet(t, d)' => pd' = pd)
        BY <1>4, <2>2, <2>6, <2>9, <3>1
      <4> QED BY <1>11, <2>3, <2>8, <3>1, <4>1 DEF Stage
    <3>2. CASE pc[t] = "prepC"
      <4>1. pd' = pd /\ routes' = routes /\ (NotYet(t, d)' => cd' = cd)
        BY <1>4, <2>2, <2>6, <2>9, <3>2
      <4> QED BY <1>11, <1>12, <2>3, <2>8, <3>2, <4>1 DEF Stage
    <3>3. CASE pc[t] = "actP"
      <4>1. /\ cd' = cd /\ routes' = routes /\ (pd[d] = "none" => pd'[d] = "none")
            /\ Accepted(t, d)' => pd[d] # "none" /\ pd'[d] = "active"
            /\ Doomed(d) => Doomed(d)'
        BY <1>4, <1>10, <2>2, <2>6, <2>9, <3>3
      <4> QED BY <1>11, <2>3, <2>8, <3>3, <4>1 DEF Stage, Ready
    <3>4. CASE pc[t] = "actC"
      <4>1. /\ pd' = pd /\ routes' = routes /\ (cd[d] = "none" => cd'[d] = "none")
            /\ Accepted(t, d)' => cd[d] # "none" /\ cd'[d] = "active"
            /\ Doomed(d) => Doomed(d)'
        BY <1>4, <1>10, <2>2, <2>6, <2>9, <3>4
      <4> QED BY <1>11, <2>3, <2>8, <3>4, <4>1 DEF Stage, Ready
    <3> QED BY <2>6, <3>1, <3>2, <3>3, <3>4
  <2>11. Whole(d)'
    BY <1>9, <1>15, <2>1, <2>10 DEF Whole
  <2> QED BY <1>13, <2>5, <2>7, <2>11 DEF Sound
<1> QED BY <1>14, <1>15

(* A node handles a private request. *)
LEMMA HandleHalf ==
    ASSUME HalfInv, NEW f \in net, HandlePrivate(f)
    PROVE  RoutesInv' /\ AllSound'
<1>1. PICK g : g = [kind |-> "answer", to |-> f.from, act |-> f.act, d |-> f.d,
                    ok |-> Accepts(f.to, f.act, f.role, f.d), task |-> f.task]
  OBVIOUS
<1>2. /\ f.kind = "request" /\ Apply(f.to, f.act, f.role, f.d, f.closeRoute)
      /\ net' = (net \ {f}) \cup {g}
      /\ unsure' = IF f.to # f.target THEN unsure \cup {f.d} ELSE unsure
      /\ UNCHANGED <<info, inbox, waiting, known, ended>> /\ UNCHANGED place
  BY <1>1 DEF HandlePrivate
<1>3. TableType /\ RoutesInv /\ f.d \in Delivery /\ info[f.d] # None /\ f.act \in Acts
  BY <1>2 DEF HalfInv, SetupInv, CatalogInv, Frames, FrameOK
<1>4. RoutesInv' /\ \A e \in Delivery \ {f.d} : routes'[e] = routes[e]
  <2>1. UNCHANGED info
    BY <1>2
  <2> QED BY <1>2, <1>3, <2>1, ApplyRoutes
<1>5. \A e \in Delivery \ {f.d} : pd'[e] = pd[e] /\ cd'[e] = cd[e]
  <2>1. PICK ok : ok = Accepts(f.to, f.act, f.role, f.d)
    OBVIOUS
  <2>2. /\ \A e \in Delivery \ {f.d} : pd'[e] = pd[e] /\ cd'[e] = cd[e]
        /\ f.role = "consumer" => pd' = pd
        /\ f.act = "activate" /\ ok =>
             /\ f.role = "producer" => pd'[f.d] = "active"
             /\ f.role = "consumer" => cd'[f.d] = "active"
    BY <1>2, <1>3, <2>1, ApplyOthers
  <2> QED BY <2>2
<1>6. ASSUME NEW e \in Delivery, info'[e] # None, ~Excused(e)' PROVE Sound(e)'
  <2>1. unsure \subseteq unsure'
    BY <1>2
  <2>2. Sound(e)
    BY <1>2, <1>6, <2>1, ExcusedKept DEF HalfInv, AllSound
  <2>3. CASE e # f.d
    <3>1. Kept(e)
      BY <1>1, <1>2, <1>4, <1>5, <2>3 DEF Kept, About
    <3>2. \A u \in Task : Same(u, e)
      BY <1>2 DEF Same, Held, Busy
    <3> QED BY <1>2, <2>2, <3>1, <3>2, OtherDelivery
  <2>4. CASE e = f.d
    <3>1. f.to = f.target
      BY <1>2, <1>6, <2>4 DEF Excused
    <3>2. CASE f.act \in {"abort", "close"}
      BY <1>2, <2>2, <2>4, <3>1, <3>2, HandleShut DEF Shut
    <3>3. CASE f.act \in {"prepare", "activate"}
      BY <2>2, <2>4, <3>1, <3>3, HandleOpen
    <3> QED BY <1>3, <3>2, <3>3 DEF Acts
  <2> QED BY <2>3, <2>4
<1> QED BY <1>4, <1>6 DEF AllSound

(* The core passes a request on. *)
LEMMA ForwardHalf ==
    ASSUME HalfInv, NEW f \in net, ForwardPrivate(f)
    PROVE  AllSound'
<1>1. PICK g : g = [f EXCEPT !.to = NextHop(f.to, f.target)]
  OBVIOUS
<1>2. /\ f.kind = "request" /\ net' = (net \ {f}) \cup {g}
      /\ UNCHANGED <<pd, cd, routes, info, inbox, waiting, known, ended, unsure>> /\ UNCHANGED place
  BY <1>1 DEF ForwardPrivate
<1>3. /\ g.kind = "request" /\ g.d = f.d /\ g.act = f.act /\ g.role = f.role
      /\ g.closeRoute = f.closeRoute
  <2>1. DOMAIN f = {"kind", "to", "target", "from", "act", "role", "d", "closeRoute", "task"}
    BY <1>2 DEF HalfInv, SetupInv, CatalogInv, Frames, FrameOK
  <2> QED BY <1>1, <1>2, <2>1
<1>4. ASSUME NEW d \in Delivery, info'[d] # None, ~Excused(d)' PROVE Sound(d)'
  <2>1. Sound(d)
    BY <1>2, <1>4, ExcusedKept DEF HalfInv, AllSound
  <2>2. /\ Shut(g, d) <=> Shut(f, d)
        /\ Setup(g, d) <=> Setup(f, d)
        /\ About(g, d) <=> About(f, d)
    BY <1>2, <1>3 DEF Shut, Setup, About
  <2>3. \A h : /\ Shut(h, d)' <=> Shut(h, d)
               /\ Setup(h, d)' <=> Setup(h, d)
               /\ About(h, d)' <=> About(h, d)
    BY DEF Shut, Setup, About
  <2>4. \A u \in Task : Same(u, d)
    BY <1>2 DEF Same, Held, Busy
  <2>5. \A u \in Task : /\ ToProducer(u, d)' <=> ToProducer(u, d)
                        /\ ToConsumer(u, d)' <=> ToConsumer(u, d)
                        /\ ToRoute(u, d)' <=> ToRoute(u, d)
                        /\ On(u, d)' <=> On(u, d)
    BY <1>2, <2>4, SameWork
  <2>6. Doomed(d) => Doomed(d)'
    <3>1. EndsP(d) => EndsP(d)'
      BY <1>2, <1>3, <2>2, <2>3, <2>5 DEF EndsP
    <3>2. EndsC(d) => EndsC(d)'
      BY <1>2, <1>3, <2>2, <2>3, <2>5 DEF EndsC
    <3>3. EndsR(d) => EndsR(d)'
      BY <1>2, <1>3, <2>2, <2>3, <2>5 DEF EndsR
    <3> QED BY <3>1, <3>2, <3>3 DEF Doomed
  <2>7. Untouched(d) => Untouched(d)'
    BY <1>2, <2>2, <2>3, <2>4 DEF Untouched, Same, OnPath
  <2>8. (HeldP(d) => HeldP(d)') /\ (HeldAny(d) => HeldAny(d)')
    BY <2>4 DEF HeldP, HeldAny, Same
  <2>9. Lone(d)'
    BY <1>2, <2>1, <2>5 DEF Sound, Lone
  <2>10. Asked(d)'
    <3>1. ASSUME NEW t \in Task, On(t, d)'
          PROVE  /\ \A h \in net' : Setup(h, d) =>
                      /\ t \in waiting'
                      /\ ~ (inbox'[t] # None /\ inbox'[t].act \in {"prepare", "activate"})
                      /\ h.act = Calls[pc'[t]].act
                      /\ h.kind = "request" => h.role = Calls[pc'[t]].role
                 /\ \A h, k \in net' : Setup(h, d) /\ Setup(k, d) => h = k
      <4>1. /\ \A h \in net : Setup(h, d) =>
                      /\ t \in waiting
                      /\ ~ (inbox[t] # None /\ inbox[t].act \in {"prepare", "activate"})
                      /\ h.act = Calls[pc[t]].act
                      /\ h.kind = "request" => h.role = Calls[pc[t]].role
            /\ \A h, k \in net : Setup(h, d) /\ Setup(k, d) => h = k
        BY <2>1, <2>5, <3>1 DEF Sound, Asked
      <4> QED BY <1>2, <1>3, <2>2, <4>1
    <3> QED BY <2>3, <3>1 DEF Asked
  <2>11. Preparing(d)'
    <3>1. \A h \in net' : About(h, d) /\ h.act = "prepare" =>
             \E t \in Task : WorksAt(t, d, {"prepP", "prepC"})
      BY <1>2, <1>3, <2>1, <2>2 DEF Sound, Preparing
    <3>2. \A t \in Task : WorksAt(t, d, {"prepP", "prepC"})' <=> WorksAt(t, d, {"prepP", "prepC"})
      BY <1>2 DEF WorksAt
    <3> QED BY <2>3, <3>1, <3>2 DEF Preparing
  <2>12. \A t \in Task : /\ NotYet(t, d)' => NotYet(t, d)
                         /\ Accepted(t, d)' => Accepted(t, d)
    BY <1>2, <1>3, <2>2, <2>3 DEF NotYet, Accepted
  <2>13. Whole(d)'
    BY <1>2, <2>1, <2>5, <2>6, <2>7, <2>8, <2>12, WholeKept DEF Sound
  <2> QED BY <2>9, <2>10, <2>11, <2>13 DEF Sound
<1> QED BY <1>4 DEF AllSound

(* An answer is delivered, or nobody waits for it. *)
LEMMA DeliverHalf ==
    ASSUME HalfInv, NEW f \in net, TryDeliverPendingCtrl(f)
    PROVE  AnswersInv' /\ AllSound'
<1>1. /\ f.kind = "answer" /\ net' = net \ {f}
      /\ UNCHANGED <<pd, cd, routes, info, waiting, known, ended, unsure>> /\ UNCHANGED place
  BY DEF TryDeliverPendingCtrl
<1>2. f.to \in Node /\ f.d \in Delivery /\ Addressed(f) /\ DOMAIN inbox = Task
  BY <1>1 DEF HalfInv, SetupInv, CatalogInv, Frames, FrameOK, Inboxes
<1>3. ASSUME NEW t \in Task, inbox'[t] # inbox[t]
      PROVE  /\ inbox[t] = None /\ inbox'[t] = [act |-> f.act, ok |-> f.ok]
             /\ t \in waiting /\ cur[t] = f.d
  <2>1. PICK w : w = pendingCtrl[f.to][f.d]
    OBVIOUS
  <2>2. inbox' = IF w = None \/ inbox[w] # None THEN inbox
                 ELSE [inbox EXCEPT ![w] = [act |-> f.act, ok |-> f.ok]]
    BY <2>1 DEF TryDeliverPendingCtrl
  <2>3. w # None => w \in waiting /\ cur[w] = f.d
    BY <1>2, <2>1 DEF HalfInv, SetupInv, Registered
  <2> QED BY <1>2, <1>3, <2>2, <2>3
<1>4. AnswersInv'
  <2>1. ASSUME NEW t \in Task, inbox'[t] # None, inbox'[t].act \in {"abort", "close"}
        PROVE  inbox'[t].ok
    <3>1. CASE inbox'[t] = inbox[t]
      BY <2>1, <3>1 DEF HalfInv, AnswersInv
    <3>2. CASE inbox'[t] # inbox[t]
      <4>1. inbox'[t].act = f.act /\ inbox'[t].ok = f.ok
        BY <1>3, <3>2
      <4> QED BY <1>1, <1>2, <2>1, <4>1 DEF Addressed
    <3> QED BY <3>1, <3>2
  <2> QED BY <2>1 DEF AnswersInv
<1>5. ASSUME NEW d \in Delivery, info'[d] # None, ~Excused(d)' PROVE Sound(d)'
  <2>1. Sound(d)
    BY <1>1, <1>5, ExcusedKept DEF HalfInv, AllSound
  <2>2. \A h : /\ Shut(h, d)' <=> Shut(h, d)
               /\ Setup(h, d)' <=> Setup(h, d)
               /\ About(h, d)' <=> About(h, d)
    BY DEF Shut, Setup, About
  <2>3. ~Shut(f, d)
    BY <1>1 DEF Shut
  <2>4. \A u \in Task : /\ Held(u, d)' <=> Held(u, d)
                        /\ Busy(u, d)' <=> Busy(u, d)
                        /\ OnPath(u)' <=> OnPath(u)
                        /\ On(u, d)' <=> On(u, d)
                        /\ \A S : WorksAt(u, d, S)' <=> WorksAt(u, d, S)
                        /\ \A S : CallsNext(u, d, S)' <=> CallsNext(u, d, S)
    BY <1>1 DEF Held, Busy, OnPath, On, WorksAt, CallsNext
  <2>5. Doomed(d) => Doomed(d)'
    <3>1. /\ ThirdCoordinator(d)' <=> ThirdCoordinator(d)
          /\ (info[d].coord = Consumer(d))' <=> info[d].coord = Consumer(d)
          /\ (info[d].coord = Producer(d))' <=> info[d].coord = Producer(d)
      BY <1>1 DEF ThirdCoordinator, Producer, Consumer
    <3>2. \A u \in Task : ToProducer(u, d)' <=> ToProducer(u, d)
      BY <2>4 DEF ToProducer
    <3>3. \A u \in Task : ToConsumer(u, d)' <=> ToConsumer(u, d)
      BY <2>4 DEF ToConsumer
    <3>4. \A u \in Task : ToRoute(u, d)' <=> ToRoute(u, d)
      BY <2>4, <3>1 DEF ToRoute
    <3> QED BY <1>1, <2>2, <2>3, <3>2, <3>3, <3>4 DEF Doomed, EndsP, EndsC, EndsR
  <2>6. Untouched(d) => Untouched(d)'
    BY <1>1, <2>2, <2>4 DEF Untouched
  <2>7. (HeldP(d) => HeldP(d)') /\ (HeldAny(d) => HeldAny(d)')
    BY <1>1, <2>4 DEF HeldP, HeldAny
  <2>8. Lone(d)'
    BY <1>1, <2>1, <2>4 DEF Sound, Lone
  <2>9. ASSUME NEW t \in Task, On(t, d), inbox'[t] # inbox[t]
        PROVE  /\ t \in waiting /\ About(f, d) /\ inbox'[t].act = f.act /\ inbox'[t].ok = f.ok
               /\ Calls[pc[t]].act \in {"prepare", "activate"}
    <3>1. inbox'[t] = [act |-> f.act, ok |-> f.ok] /\ t \in waiting /\ cur[t] = f.d
      BY <1>3, <2>9
    <3>2. pc[t] \in Call /\ pc[t] \in PathPlace /\ d = f.d
      BY <2>9, <3>1 DEF HalfInv, SetupInv, CatalogInv, Callers, On, OnPath
    <3> QED BY <1>1, <3>1, <3>2, PathErrors DEF About
  <2>10. Asked(d)'
    <3>1. ASSUME NEW t \in Task, On(t, d)
          PROVE  /\ \A h \in net' : Setup(h, d) =>
                      /\ t \in waiting'
                      /\ ~ (inbox'[t] # None /\ inbox'[t].act \in {"prepare", "activate"})
                      /\ h.act = Calls[pc'[t]].act
                      /\ h.kind = "request" => h.role = Calls[pc'[t]].role
                 /\ \A h, k \in net' : Setup(h, d) /\ Setup(k, d) => h = k
      <4>1. /\ \A h \in net : Setup(h, d) =>
                      /\ t \in waiting
                      /\ ~ (inbox[t] # None /\ inbox[t].act \in {"prepare", "activate"})
                      /\ h.act = Calls[pc[t]].act
                      /\ h.kind = "request" => h.role = Calls[pc[t]].role
            /\ \A h, k \in net : Setup(h, d) /\ Setup(k, d) => h = k
        BY <2>1, <3>1 DEF Sound, Asked
      <4>2. ASSUME NEW h \in net', Setup(h, d)
            PROVE  ~ (inbox'[t] # None /\ inbox'[t].act \in {"prepare", "activate"})
        <5>1. CASE inbox'[t] = inbox[t]
          BY <1>1, <4>1, <4>2, <5>1
        <5>2. CASE inbox'[t] # inbox[t]
          <6>1. ~Setup(f, d)
            BY <1>1, <4>1, <4>2
          <6> QED BY <2>9, <3>1, <5>2, <6>1 DEF Setup
        <5> QED BY <5>1, <5>2
      <4> QED BY <1>1, <4>1, <4>2
    <3> QED BY <2>2, <2>4, <3>1 DEF Asked
  <2>11. Preparing(d)'
    BY <1>1, <2>1, <2>2, <2>4 DEF Sound, Preparing
  <2>12. ASSUME NEW t \in Task, On(t, d)
         PROVE  /\ pc'[t] = pc[t] /\ (NotYet(t, d)' => NotYet(t, d))
                /\ Accepted(t, d)' => Accepted(t, d)
    <3>1. CASE inbox'[t] = inbox[t]
      BY <1>1, <2>2, <3>1 DEF NotYet, Accepted
    <3>2. CASE inbox'[t] # inbox[t]
      <4>1. /\ t \in waiting /\ About(f, d) /\ inbox'[t].act = f.act /\ inbox'[t].ok = f.ok
            /\ Calls[pc[t]].act \in {"prepare", "activate"}
        BY <2>9, <2>12, <3>2
      <4>2. f.act = Calls[pc[t]].act => Setup(f, d)
        BY <4>1 DEF Setup
      <4>3. NotYet(t, d)' => NotYet(t, d)
        BY <1>1, <2>2, <4>1, <4>2 DEF NotYet
      <4>4. Accepted(t, d)' => Accepted(t, d)
        BY <1>1, <2>2, <4>1, <4>2 DEF Accepted
      <4> QED BY <1>1, <4>3, <4>4
    <3> QED BY <3>1, <3>2
  <2>13. Whole(d)'
    BY <1>1, <2>1, <2>4, <2>5, <2>6, <2>7, <2>12, WholeKept DEF Sound
  <2> QED BY <2>8, <2>10, <2>11, <2>13 DEF Sound
<1> QED BY <1>4, <1>5 DEF AllSound

-----------------------------------------------------------------------------
(* The rest of the invariant. *)

(* A withdrawal works on what it has recorded. *)
LEMMA EndedGoesOn ==
    ASSUME TaskType, EndedInv, NEW t \in Task, NEW there, GoesOn(t, there), ended \subseteq ended'
    PROVE  EndedInv'
<1>1. \/ Finishes(t)
      \/ TakesNext(t, todo[t])
      \/ pc' = [pc EXCEPT ![t] = there] /\ UNCHANGED <<node, cur, todo, owned>>
  BY DEF GoesOn
<1>2. \A u \in Task \ {t} : cur'[u] = cur[u] /\ todo'[u] = todo[u] /\ owned'[u] = owned[u]
  BY GoesOnAlone
<1>3. owned'[t] # None => owned[t] # None /\ todo'[t] \cup {cur'[t]} \subseteq todo[t] \cup {cur[t]}
  BY <1>1 DEF Finishes, TakesNext, TaskType
<1> QED BY <1>2, <1>3 DEF EndedInv

(* Requests in flight are for whom they were for. *)
LEMMA AddressedKept ==
    ASSUME \A f \in net : Addressed(f),
           \A f \in net : f.kind = "request" => info'[f.d] = info[f.d],
           \A f \in net' : f \in net \/ f.kind \in {"connect", "disconnect"} \/ Addressed(f)'
    PROVE  \A f \in net' : Addressed(f)'
  BY DEF Addressed, Producer, Consumer

(* The requests of a task, and the answers. *)
LEMMA AddressedStep ==
    ASSUME HalfInv, [Next]_vars
    PROVE  \A f \in net' : Addressed(f)'
<1>1. \A f \in net : Addressed(f)
  BY DEF HalfInv
<1>2. ASSUME UNCHANGED info, net' \subseteq net PROVE \A f \in net' : Addressed(f)'
  BY <1>1, <1>2, AddressedKept
<1>3. ASSUME NEW t \in Task, CallPrivate(t) PROVE \A f \in net' : Addressed(f)'
  <2>1. PICK g : g = [kind |-> "request", to |-> NextHop(node[t], Target(t)),
                      target |-> Target(t), from |-> node[t], act |-> Calls[pc[t]].act,
                      role |-> Calls[pc[t]].role, d |-> cur[t],
                      closeRoute |-> ClosesRoute(t, Target(t)), task |-> t]
    OBVIOUS
  <2>2. pc[t] \in Call /\ net' = net \cup {g} /\ UNCHANGED info
    BY <1>3, <2>1 DEF CallPrivate
  <2>3. g.closeRoute => g.act = "close"
    <3>1. owned[t] # None => pc[t] \in Ending
      BY DEF HalfInv, SetupInv, CatalogInv, Tasks, TaskOK
    <3>2. pc[t] \in Ending => Calls[pc[t]].act = "close"
      BY <2>2, CallNames DEF Ending, Calls
    <3> QED BY <2>1, <3>1, <3>2 DEF ClosesRoute
  <2>4. Addressed(g)
    BY <2>1, <2>3 DEF Addressed, Target, ClosesRoute
  <2>5. Addressed(g)'
    BY <2>2, <2>4 DEF Addressed, Producer, Consumer
  <2> QED BY <1>1, <2>2, <2>5, AddressedKept
<1>4. ASSUME NEW f \in net, HandlePrivate(f) PROVE \A h \in net' : Addressed(h)'
  <2>1. PICK g : g = [kind |-> "answer", to |-> f.from, act |-> f.act, d |-> f.d,
                      ok |-> Accepts(f.to, f.act, f.role, f.d), task |-> f.task]
    OBVIOUS
  <2>2. net' = (net \ {f}) \cup {g} /\ UNCHANGED info
    BY <1>4, <2>1 DEF HandlePrivate
  <2>3. f.act \in {"abort", "close"} => Accepts(f.to, f.act, f.role, f.d)
    BY DEF Accepts
  <2>4. Addressed(g)'
    BY <2>1, <2>3 DEF Addressed
  <2> QED BY <1>1, <2>2, <2>4, AddressedKept
<1>5. ASSUME NEW f \in net, ForwardPrivate(f) PROVE \A h \in net' : Addressed(h)'
  <2>1. PICK g : g = [f EXCEPT !.to = NextHop(f.to, f.target)]
    OBVIOUS
  <2>2. f.kind = "request" /\ net' = (net \ {f}) \cup {g} /\ UNCHANGED info
    BY <1>5, <2>1 DEF ForwardPrivate
  <2>3. DOMAIN f = {"kind", "to", "target", "from", "act", "role", "d", "closeRoute", "task"}
    BY <2>2 DEF HalfInv, SetupInv, CatalogInv, Frames, FrameOK
  <2>4. /\ g.kind = "request" /\ g.d = f.d /\ g.act = f.act /\ g.role = f.role
        /\ g.closeRoute = f.closeRoute /\ g.target = f.target
    BY <2>1, <2>2, <2>3
  <2>5. Addressed(g)'
    BY <1>1, <2>2, <2>4 DEF Addressed, Producer, Consumer
  <2> QED BY <1>1, <2>2, <2>5, AddressedKept
<1>6. ASSUME NEW f \in net, NEW t \in Task, RouteCoordinatorRequest(f, t)
      PROVE  \A h \in net' : Addressed(h)'
  <2>1. FrameOK(f) /\ TableType /\ f.kind = "connect"
    BY <1>6 DEF HalfInv, SetupInv, CatalogInv, Frames, RouteCoordinatorRequest
  <2>2. \A h \in net : h.kind = "request" => h.d \in Delivery /\ info[h.d] # None
    BY DEF HalfInv, SetupInv, CatalogInv, Frames, FrameOK
  <2>3. \A h \in net : h.kind = "request" => info'[h.d] = info[h.d]
    <3>1. UNCHANGED info \/ \E i : \E d \in Delivery : info[d] = None /\ info' = [info EXCEPT ![d] = i]
      BY <1>6 DEF RouteCoordinatorRequest
    <3> QED BY <2>1, <2>2, <3>1 DEF TableType
  <2>4. \A h \in net' : h \in net \/ h.kind \in {"connect", "disconnect"}
    <3>1. Forward(f) \/ net' = net \ {f}
      BY <1>6 DEF RouteCoordinatorRequest
    <3>2. PICK g : g = [f EXCEPT !.to = Parent[f.to]]
      OBVIOUS
    <3>3. g.kind = "connect"
      BY <2>1, <3>2 DEF FrameOK
    <3> QED BY <3>1, <3>2, <3>3 DEF Forward
  <2> QED BY <1>1, <2>3, <2>4, AddressedKept
<1>7. ASSUME NEW f \in net, NEW t \in Task, RouteDeliveryRequest(f, t)
      PROVE  \A h \in net' : Addressed(h)'
  <2>1. FrameOK(f) /\ f.kind = "disconnect" /\ UNCHANGED info
    BY <1>7 DEF HalfInv, SetupInv, CatalogInv, Frames, RouteDeliveryRequest
  <2>2. \A h \in net' : h \in net \/ h.kind \in {"connect", "disconnect"}
    <3>1. Forward(f) \/ net' = net \ {f}
      BY <1>7 DEF RouteDeliveryRequest
    <3>2. PICK g : g = [f EXCEPT !.to = Parent[f.to]]
      OBVIOUS
    <3>3. g.kind = "disconnect"
      BY <2>1, <3>2 DEF FrameOK
    <3> QED BY <3>1, <3>2, <3>3 DEF Forward
  <2> QED BY <1>1, <2>1, <2>2, AddressedKept
<1>8. ASSUME NEW q \in Requester, NEW d \in Delivery, Disconnect(q, d)
      PROVE  \A h \in net' : Addressed(h)'
  <2>1. \A h \in net' : h \in net \/ h.kind = "disconnect"
    BY <1>8 DEF Disconnect
  <2>2. UNCHANGED info
    BY <1>8 DEF Disconnect
  <2> QED BY <1>1, <2>1, <2>2, AddressedKept
<1>9. ASSUME NEW f \in net, TryDeliverPendingCtrl(f) PROVE \A h \in net' : Addressed(h)'
  BY <1>2, <1>9 DEF TryDeliverPendingCtrl
<1>10. ASSUME NEW t \in Task, TaskStep(t), ~CallPrivate(t) PROVE \A h \in net' : Addressed(h)'
  BY <1>2, <1>10 DEF TaskStep, CallLocal, ReceiveAnswer, CallTimesOut, Returns, InstallRoute,
     ConfirmRoute, RemoveRoute, MarkClosing, EndLocal
<1>11. ASSUME NEW t \in Task, NEW o \in Owned, Withdraw(o, t) PROVE \A h \in net' : Addressed(h)'
  BY <1>2, <1>11 DEF Withdraw
<1>12. ASSUME NEW o \in Owned, Announce(o) PROVE \A h \in net' : Addressed(h)'
  BY <1>2, <1>12 DEF Announce
<1>13. ASSUME UNCHANGED vars PROVE \A h \in net' : Addressed(h)'
  BY <1>2, <1>13 DEF vars
<1> QED BY <1>3, <1>4, <1>5, <1>6, <1>7, <1>8, <1>9, <1>10, <1>11, <1>12, <1>13 DEF Next

(* A task's step. *)
LEMMA TaskHalf ==
    ASSUME HalfInv, NEW t \in Task, TaskStep(t)
    PROVE  RoutesInv' /\ AnswersInv' /\ EndedInv' /\ AllSound'
<1>1. TaskType /\ RoutesInv /\ AnswersInv /\ EndedInv /\ DOMAIN inbox = Task
  BY DEF HalfInv, SetupInv, CatalogInv, Inboxes
<1>2. CASE CallLocal(t)
  <2>1. /\ pc[t] \in Call /\ UNCHANGED <<info, inbox, ended>>
        /\ Apply(node[t], Calls[pc[t]].act, Calls[pc[t]].role, cur[t], ClosesRoute(t, node[t]))
        /\ \E there : GoesOn(t, there)
    BY <1>2 DEF CallLocal
  <2>2. cur[t] \in Delivery
    BY <2>1, CallNames DEF HalfInv, SetupInv, CatalogInv, Tasks, TaskOK
  <2>3. RoutesInv'
    <3>1. UNCHANGED info
      BY <2>1
    <3> QED BY <1>1, <2>1, <2>2, <3>1, ApplyRoutes
  <2>4. EndedInv' /\ AnswersInv'
    BY <1>1, <2>1, EndedGoesOn DEF AnswersInv
  <2> QED BY <1>2, <2>3, <2>4, LocalOff, LocalOn
<1>3. CASE CallPrivate(t)
  <2>1. UNCHANGED <<routes, info, inbox, ended>> /\ UNCHANGED place
    BY <1>3 DEF CallPrivate
  <2>2. RoutesInv' /\ AnswersInv' /\ EndedInv'
    BY <1>1, <2>1 DEF RoutesInv, AnswersInv, EndedInv
  <2> QED BY <1>3, <2>2, CallOff, CallOn
<1>4. CASE ReceiveAnswer(t) \/ CallTimesOut(t)
  <2>1. /\ UNCHANGED <<routes, info, ended>> /\ inbox' = [inbox EXCEPT ![t] = None]
        /\ \E there : GoesOn(t, there)
    BY <1>4 DEF ReceiveAnswer, CallTimesOut, Returns
  <2>2. RoutesInv' /\ AnswersInv' /\ EndedInv'
    BY <1>1, <2>1, EndedGoesOn DEF RoutesInv, AnswersInv
  <2> QED BY <1>4, <2>2, ReturnOff, ReturnOn
<1>5. CASE InstallRoute(t) \/ ConfirmRoute(t) \/ RemoveRoute(t) \/ MarkClosing(t)
  <2>1. UNCHANGED inbox /\ ended \subseteq ended' /\ \E there : GoesOn(t, there)
    <3>1. Finishes(t) => GoesOn(t, "idle")
      BY DEF GoesOn
    <3> QED BY <1>5, <3>1 DEF InstallRoute, ConfirmRoute, RemoveRoute, MarkClosing
  <2>2. AnswersInv' /\ EndedInv'
    BY <1>1, <2>1, EndedGoesOn DEF AnswersInv
  <2> QED BY <1>5, <2>2, RouteOn, CloseOff
<1>6. CASE EndLocal(t)
  <2>1. UNCHANGED <<inbox, ended>> /\ \E there : GoesOn(t, there)
    BY <1>6 DEF EndLocal
  <2>2. AnswersInv' /\ EndedInv'
    BY <1>1, <2>1, EndedGoesOn DEF AnswersInv
  <2> QED BY <1>6, <2>2, EndOff
<1> QED BY <1>2, <1>3, <1>4, <1>5, <1>6 DEF TaskStep

(* A frame's step. *)
LEMMA FrameHalf ==
    ASSUME HalfInv, NEW f \in net,
           \/ HandlePrivate(f) \/ ForwardPrivate(f) \/ TryDeliverPendingCtrl(f)
           \/ \E t \in Task : RouteCoordinatorRequest(f, t) \/ RouteDeliveryRequest(f, t)
    PROVE  RoutesInv' /\ AnswersInv' /\ EndedInv' /\ AllSound'
<1>1. CatalogInv /\ TaskType /\ RoutesInv /\ AnswersInv /\ EndedInv
  BY DEF HalfInv, SetupInv, CatalogInv
<1>2. CASE HandlePrivate(f) \/ ForwardPrivate(f)
  <2>1. /\ UNCHANGED <<info, inbox, ended>> /\ UNCHANGED place
        /\ (ForwardPrivate(f) => UNCHANGED routes)
    BY <1>2 DEF HandlePrivate, ForwardPrivate
  <2>2. AnswersInv' /\ EndedInv' /\ (ForwardPrivate(f) => RoutesInv')
    BY <1>1, <2>1 DEF RoutesInv, AnswersInv, EndedInv
  <2> QED BY <1>2, <2>2, HandleHalf, ForwardHalf
<1>3. CASE TryDeliverPendingCtrl(f)
  <2>1. UNCHANGED <<routes, info, ended>> /\ UNCHANGED place
    BY <1>3 DEF TryDeliverPendingCtrl
  <2>2. RoutesInv' /\ EndedInv'
    BY <1>1, <2>1 DEF RoutesInv, EndedInv
  <2> QED BY <1>3, <2>2, DeliverHalf
<1>4. ASSUME NEW t \in Task, RouteCoordinatorRequest(f, t) \/ RouteDeliveryRequest(f, t)
      PROVE  RoutesInv' /\ AnswersInv' /\ EndedInv' /\ AllSound'
  <2>1. UNCHANGED <<routes, inbox, ended>> /\ (RouteDeliveryRequest(f, t) => UNCHANGED info)
    BY <1>4 DEF RouteCoordinatorRequest, RouteDeliveryRequest
  <2>2. UNCHANGED place \/ \E n, d, there : Starts(t, n, d, there)
    BY <1>4 DEF RouteCoordinatorRequest, RouteDeliveryRequest
  <2>3. EndedInv'
    <3>1. ASSUME NEW n, NEW d, NEW there, Starts(t, n, d, there) PROVE EndedInv'
      <4>1. pc[t] = "idle" /\ UNCHANGED <<todo, owned>> /\ \A u \in Task \ {t} : cur'[u] = cur[u]
        BY <1>1, <3>1 DEF Starts, TaskType
      <4>2. owned[t] = None
        BY <1>1, <4>1, IdleTask
      <4> QED BY <1>1, <2>1, <4>1, <4>2 DEF EndedInv
    <3>2. UNCHANGED place => EndedInv'
      BY <1>1, <2>1 DEF EndedInv
    <3> QED BY <2>2, <3>1, <3>2
  <2>4. AnswersInv' /\ (RouteDeliveryRequest(f, t) => RoutesInv')
    BY <1>1, <2>1 DEF AnswersInv, RoutesInv
  <2> QED BY <1>4, <2>3, <2>4, ConnectHalf, DisconnectHalf
<1> QED BY <1>2, <1>3, <1>4

(* The invariant holds at first. *)
LEMMA InitHalf == Init => HalfInv
<1> SUFFICES ASSUME Init PROVE HalfInv
  OBVIOUS
<1>1. /\ SetupInv /\ routes = [d \in Delivery |-> "none"] /\ info = [d \in Delivery |-> None]
      /\ inbox = [t \in Task |-> None] /\ owned = [t \in Task |-> None]
  BY InitSetup DEF Init
<1>2. RoutesInv /\ AnswersInv /\ EndedInv
  BY <1>1 DEF RoutesInv, State, AnswersInv, EndedInv
<1>3. \A f \in net : f.kind = "connect"
  BY DEF Init
<1>4. \A f \in net : Addressed(f)
  BY <1>3 DEF Addressed
<1>5. AllSound
  BY <1>1 DEF AllSound
<1> QED BY <1>1, <1>2, <1>4, <1>5 DEF HalfInv

(* Every step keeps it. *)
LEMMA StepHalf == HalfInv /\ [Next]_vars => HalfInv'
<1> SUFFICES ASSUME HalfInv, [Next]_vars PROVE HalfInv'
  OBVIOUS
<1>1. SetupInv'
  BY StepSetup DEF HalfInv
<1>2. \A f \in net' : Addressed(f)'
  BY AddressedStep
<1>3. RoutesInv' /\ AnswersInv' /\ EndedInv' /\ AllSound'
  <2>1. RoutesInv /\ AnswersInv /\ EndedInv /\ AllSound
    BY DEF HalfInv
  <2>2. ASSUME UNCHANGED <<pd, cd, routes, info, inbox, waiting, known, ended, unsure>>,
               UNCHANGED place, \A f \in net' \ net : f.kind = "disconnect", net \subseteq net'
        PROVE  RoutesInv' /\ AnswersInv' /\ EndedInv' /\ AllSound'
    BY <2>1, <2>2, UserHalf DEF RoutesInv, AnswersInv, EndedInv
  <2>3. ASSUME NEW q \in Requester, NEW d \in Delivery, Disconnect(q, d)
        PROVE  RoutesInv' /\ AnswersInv' /\ EndedInv' /\ AllSound'
    BY <2>2, <2>3 DEF Disconnect
  <2>4. ASSUME NEW o \in Owned, Announce(o)
        PROVE  RoutesInv' /\ AnswersInv' /\ EndedInv' /\ AllSound'
    BY <2>2, <2>4 DEF Announce
  <2>5. ASSUME UNCHANGED vars PROVE RoutesInv' /\ AnswersInv' /\ EndedInv' /\ AllSound'
    BY <2>2, <2>5 DEF vars
  <2>6. ASSUME NEW t \in Task, NEW o \in Owned, Withdraw(o, t)
        PROVE  RoutesInv' /\ AnswersInv' /\ EndedInv' /\ AllSound'
    BY <2>1, <2>6, WithdrawHalf DEF Withdraw, RoutesInv, AnswersInv
  <2> QED BY <2>3, <2>4, <2>5, <2>6, TaskHalf, FrameHalf DEF Next
<1> QED BY <1>1, <1>2, <1>3 DEF HalfInv

(* NoHalfOpen: when nothing is under way, producer, consumer and the       *)
(* coordinator's route agree about a delivery, however establishDelivery,  *)
(* closeDeliveryRoute, the withdrawals and the two-second timeouts of      *)
(* callPrivate have overlapped: a part that is left has a frame or a task  *)
(* on its way to it, unless all three are active and nothing touches them. *)
THEOREM NeverHalfOpen == Spec => []NoHalfOpen
<1>1. ASSUME HalfInv PROVE NoHalfOpen
  <2> SUFFICES ASSUME Quiet, NEW d \in Delivery, ~Excused(d)
               PROVE  \/ pd[d] = "active" /\ cd[d] = "active" /\ routes[d] = "active"
                      \/ pd[d] = "none" /\ cd[d] = "none" /\ routes[d] = "none"
    BY DEF NoHalfOpen
  <2>1. CASE info[d] = None
    BY <1>1, <2>1 DEF HalfInv, SetupInv, CatalogInv, Unissued, RoutesInv
  <2>2. CASE info[d] # None
    <3>1. Whole(d)
      BY <1>1, <2>2 DEF HalfInv, AllSound, Sound
    <3>2. \A t \in Task : pc[t] = "idle" /\ todo[t] = {}
      BY <1>1, IdleTask DEF Quiet, HalfInv, SetupInv
    <3>3. \A t \in Task : ~On(t, d)
      BY <3>2 DEF On, OnPath, PathPlace
    <3>4. \A t \in Task : ~ToProducer(t, d) /\ ~ToConsumer(t, d) /\ ~ToRoute(t, d)
      BY <3>2 DEF ToProducer, ToConsumer, ToRoute, Held, WorksAt, CallsNext
    <3>5. \A f \in net : ~Shut(f, d)
      BY DEF Quiet, Shut
    <3>6. Settled(d)
      BY <3>1, <3>3 DEF Whole
    <3> QED BY <3>4, <3>5, <3>6 DEF Settled, Doomed, EndsP, EndsC, EndsR
  <2> QED BY <2>1, <2>2
<1> QED BY <1>1, InitHalf, StepHalf, PTL DEF Spec

=============================================================================
