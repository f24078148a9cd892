--------------------------- MODULE TopicBusProofs ---------------------------
(***************************************************************************)
(* Proofs about TopicBus.  The two indexes agree for any number of workers *)
(* and any failures; the parent is told exactly what is wanted when the    *)
(* hub handles one frame or event at a time.                               *)
(***************************************************************************)
EXTENDS TopicBus, TLAPS

Asking == {"subscribe", "unsubscribe"}

(* Whom a busy worker works for.  A request comes from an open connection, *)
(* the callback handles a closed one, and only subscribers roll back.      *)
Busy ==
    \A w \in Worker : pc[w] # "idle" =>
        /\ kind[w] \in Asking => conn[w] \in Conn \ closed
        /\ kind[w] = "closed" =>
              conn[w] \in closed /\ pc[w] \in {"apply", "up", "send"}
        /\ kind[w] = "other" => pc[w] \notin {"up", "send", "rollback"}
        /\ pc[w] = "rollback" => kind[w] = "subscribe"

Mirror == \A c \in Conn, t \in Topic : c \in topicSubs[t] <=> t \in connSubs[c]

(* A closed connection is forgotten, or removeConnAll is about to run.     *)
ClosedGone ==
    \A c \in closed : \/ connSubs[c] = {}
                      \/ \E w \in Worker : pc[w] = "apply" /\ kind[w] = "closed"
                                           /\ conn[w] = c

IndexInv == TypeOK /\ Busy /\ Mirror /\ ClosedGone

(* The parent that is connected is the one told last.                      *)
Synced == parent # 0 /\ seenParent = parent

Stable == {"idle", "find", "clear", "compare", "gather", "resend", "apply"}

Calm == (\A w \in Worker : pc[w] \in Stable) =>
           told \subseteq active /\ (Synced => active = Wanted /\ told = Wanted)

(* While a worker resubscribes.                                            *)
Resubscribing(w) ==
    /\ pc[w] = "compare" => up[w] # 0
    /\ pc[w] \in {"gather", "resend", "note"} => up[w] # 0 /\ up[w] # seenParent
    /\ pc[w] \in {"resend", "note"} => need[w] = Wanted
    /\ pc[w] = "note" => /\ told \subseteq Wanted
                         /\ up[w] = parent => told = Wanted
                         /\ Synced => active = Wanted /\ told = Wanted

(* While a worker has something to tell the parent.                        *)
Telling(w) ==
    /\ pc[w] \in {"up", "send"} /\ kind[w] = "subscribe" =>
          /\ need[w] \subseteq active /\ told \subseteq active
          /\ need[w] \cap told = {}
          /\ Synced => active = Wanted /\ told = Wanted \ need[w]
    /\ pc[w] \in {"up", "send"} /\ kind[w] # "subscribe" =>
          /\ told \subseteq active \cup need[w]
          /\ need[w] \cap Wanted = {}
          /\ Synced => active = Wanted /\ told = Wanted \cup need[w]
    /\ pc[w] = "send" => up[w] # 0 /\ (up[w] # parent => ~Synced /\ told = {})
    /\ pc[w] = "rollback" => ~Synced /\ told = {}

ExactInv ==
    /\ active \subseteq Wanted
    /\ parent = 0 => told = {}
    /\ Calm
    /\ \A w \in Worker : Resubscribing(w) /\ Telling(w)

USE DEF hub, link, work, Place, Kind, Asking, Goto, Done

-----------------------------------------------------------------------------
(* The indexes agree.                                                      *)

(* Initially nobody has subscribed and every worker is idle.               *)
LEMMA InitIndex == Init => IndexInv
<1> SUFFICES ASSUME Init PROVE IndexInv
  OBVIOUS
<1>1. TypeOK
  <2>1. 0 \in 0..MaxParents /\ 0 \in 0..MaxRequests /\ 0 \in 0..0
    BY TopicBusAssumption
  <2> QED
    BY <2>1 DEF Init, TypeOK
<1>2. Busy /\ Mirror /\ ClosedGone
  BY DEF Init, Busy, Mirror, ClosedGone
<1> QED
  BY <1>1, <1>2 DEF IndexInv

(* What becomes of the worker after its request was applied.               *)
LEMMA ThenTellType ==
  ASSUME TypeOK, NEW w \in Worker, NEW topics \in SUBSET Topic, ThenTell(w, topics)
  PROVE  /\ pc' \in [Worker -> Place] /\ kind' \in [Worker -> Kind]
         /\ conn' \in [Worker -> Conn \cup {NoConn}]
         /\ asked' \in [Worker -> SUBSET Topic] /\ need' \in [Worker -> SUBSET Topic]
         /\ up' \in [Worker -> 0..lives]
  BY DEF TypeOK, ThenTell

(* A connection that drops topics leaves the indexes well formed.          *)
LEMMA DropType ==
  ASSUME TypeOK, NEW w \in Worker, NEW c \in Conn, NEW topics \in SUBSET Topic,
         Drop(w, c, topics), ApplyFrame
  PROVE  TypeOK'
<1> DEFINE gone == topics \cap connSubs[c]
           last == {t \in gone : topicSubs[t] = {c} /\ t \in active}
<1>1. gone \in SUBSET Topic /\ last \in SUBSET Topic
  BY DEF TypeOK
<1>2. active' \in SUBSET Topic /\ topicSubs' \in [Topic -> SUBSET Conn]
  BY <1>1 DEF TypeOK, Drop
<1>3. connSubs' \in [Conn -> SUBSET Topic]
  BY <1>1 DEF TypeOK, Drop
<1>4. ThenTell(w, last)
  BY DEF Drop
<1> HIDE DEF gone, last
<1> QED
  BY <1>1, <1>2, <1>3, <1>4, ThenTellType DEF TypeOK, ApplyFrame

(* The parent comes, logs in and goes; the hub's state stays.             *)
LEMMA IndexParent ==
  ASSUME IndexInv, ParentUp \/ ParentNamed \/ ParentDown
  PROVE  IndexInv'
<1>1. CASE ParentUp
  <2>1. TypeOK'
    <3>1. lives' \in 0..MaxParents /\ 0..lives \subseteq 0..lives'
      BY <1>1, TopicBusAssumption DEF IndexInv, TypeOK, ParentUp
    <3>2. up' \in [Worker -> 0..lives'] /\ seenParent' \in 0..lives'
      BY <1>1, <3>1 DEF IndexInv, TypeOK, ParentUp
    <3> QED
      BY <1>1, <3>1, <3>2 DEF IndexInv, TypeOK, ParentUp
  <2>2. Busy'
    BY <1>1 DEF IndexInv, TypeOK, Busy, ParentUp
  <2>3. Mirror'
    BY <1>1, TopicBusAssumption DEF IndexInv, TypeOK, Busy, Mirror, ParentUp
  <2>4. ClosedGone'
    BY <1>1 DEF IndexInv, TypeOK, Busy, ClosedGone, ParentUp
  <2> QED
    BY <2>1, <2>2, <2>3, <2>4 DEF IndexInv
<1>2. CASE ParentNamed
  <2>1. TypeOK'
    BY <1>2, TopicBusAssumption DEF IndexInv, TypeOK, Busy, ParentNamed
  <2>2. Busy'
    BY <1>2 DEF IndexInv, TypeOK, Busy, ParentNamed
  <2>3. Mirror'
    BY <1>2, TopicBusAssumption DEF IndexInv, TypeOK, Busy, Mirror, ParentNamed
  <2>4. ClosedGone'
    BY <1>2 DEF IndexInv, TypeOK, Busy, ClosedGone, ParentNamed
  <2> QED
    BY <2>1, <2>2, <2>3, <2>4 DEF IndexInv
<1>3. CASE ParentDown
  <2>1. TypeOK'
    BY <1>3, TopicBusAssumption DEF IndexInv, TypeOK, Busy, ParentDown
  <2>2. Busy'
    BY <1>3 DEF IndexInv, TypeOK, Busy, ParentDown
  <2>3. Mirror'
    BY <1>3, TopicBusAssumption DEF IndexInv, TypeOK, Busy, Mirror, ParentDown
  <2>4. ClosedGone'
    BY <1>3 DEF IndexInv, TypeOK, Busy, ClosedGone, ParentDown
  <2> QED
    BY <2>1, <2>2, <2>3, <2>4 DEF IndexInv
<1> QED
  BY <1>1, <1>2, <1>3

(* Telling a new parent everything changes neither index.                 *)
LEMMA IndexResubscribe ==
  ASSUME IndexInv, NEW w \in Worker, Resubscribe(w)
  PROVE  IndexInv'
<1>1. CASE ResubscribeFind(w)
  <2>1. TypeOK'
    BY <1>1, TopicBusAssumption DEF IndexInv, TypeOK, Busy, ResubscribeFind, ResubscribeFrame
  <2>2. Busy'
    BY <1>1 DEF IndexInv, TypeOK, Busy, ResubscribeFind, ResubscribeFrame
  <2>3. Mirror'
    BY <1>1, TopicBusAssumption DEF IndexInv, TypeOK, Busy, Mirror, ResubscribeFind, ResubscribeFrame
  <2>4. ClosedGone'
    BY <1>1 DEF IndexInv, TypeOK, Busy, ClosedGone, ResubscribeFind, ResubscribeFrame
  <2> QED
    BY <2>1, <2>2, <2>3, <2>4 DEF IndexInv
<1>2. CASE ResubscribeClear(w)
  <2>1. TypeOK'
    BY <1>2, TopicBusAssumption DEF IndexInv, TypeOK, Busy, ResubscribeClear, ResubscribeFrame
  <2>2. Busy'
    BY <1>2 DEF IndexInv, TypeOK, Busy, ResubscribeClear, ResubscribeFrame
  <2>3. Mirror'
    BY <1>2, TopicBusAssumption DEF IndexInv, TypeOK, Busy, Mirror, ResubscribeClear, ResubscribeFrame
  <2>4. ClosedGone'
    BY <1>2 DEF IndexInv, TypeOK, Busy, ClosedGone, ResubscribeClear, ResubscribeFrame
  <2> QED
    BY <2>1, <2>2, <2>3, <2>4 DEF IndexInv
<1>3. CASE ResubscribeCompare(w)
  <2>1. TypeOK'
    BY <1>3, TopicBusAssumption DEF IndexInv, TypeOK, Busy, ResubscribeCompare, ResubscribeFrame
  <2>2. Busy'
    BY <1>3 DEF IndexInv, TypeOK, Busy, ResubscribeCompare, ResubscribeFrame
  <2>3. Mirror'
    BY <1>3, TopicBusAssumption DEF IndexInv, TypeOK, Busy, Mirror, ResubscribeCompare, ResubscribeFrame
  <2>4. ClosedGone'
    BY <1>3 DEF IndexInv, TypeOK, Busy, ClosedGone, ResubscribeCompare, ResubscribeFrame
  <2> QED
    BY <2>1, <2>2, <2>3, <2>4 DEF IndexInv
<1>4. CASE ResubscribeGather(w)
  <2>1. TypeOK'
    BY <1>4, TopicBusAssumption DEF IndexInv, TypeOK, Busy, ResubscribeGather, Wanted, ResubscribeFrame
  <2>2. Busy'
    BY <1>4 DEF IndexInv, TypeOK, Busy, ResubscribeGather, Wanted, ResubscribeFrame
  <2>3. Mirror'
    BY <1>4, TopicBusAssumption DEF IndexInv, TypeOK, Busy, Mirror, ResubscribeGather, Wanted, ResubscribeFrame
  <2>4. ClosedGone'
    BY <1>4 DEF IndexInv, TypeOK, Busy, ClosedGone, ResubscribeGather, Wanted, ResubscribeFrame
  <2> QED
    BY <2>1, <2>2, <2>3, <2>4 DEF IndexInv
<1>5. CASE ResubscribeSend(w)
  <2>1. TypeOK'
    BY <1>5, TopicBusAssumption DEF IndexInv, TypeOK, Busy, ResubscribeSend, Sent, ResubscribeFrame
  <2>2. Busy'
    BY <1>5 DEF IndexInv, TypeOK, Busy, ResubscribeSend, Sent, ResubscribeFrame
  <2>3. Mirror'
    BY <1>5, TopicBusAssumption DEF IndexInv, TypeOK, Busy, Mirror, ResubscribeSend, Sent, ResubscribeFrame
  <2>4. ClosedGone'
    BY <1>5 DEF IndexInv, TypeOK, Busy, ClosedGone, ResubscribeSend, Sent, ResubscribeFrame
  <2> QED
    BY <2>1, <2>2, <2>3, <2>4 DEF IndexInv
<1>6. CASE ResubscribeNote(w)
  <2>1. TypeOK'
    BY <1>6, TopicBusAssumption DEF IndexInv, TypeOK, Busy, ResubscribeNote, ResubscribeFrame
  <2>2. Busy'
    BY <1>6 DEF IndexInv, TypeOK, Busy, ResubscribeNote, ResubscribeFrame
  <2>3. Mirror'
    BY <1>6, TopicBusAssumption DEF IndexInv, TypeOK, Busy, Mirror, ResubscribeNote, ResubscribeFrame
  <2>4. ClosedGone'
    BY <1>6 DEF IndexInv, TypeOK, Busy, ClosedGone, ResubscribeNote, ResubscribeFrame
  <2> QED
    BY <2>1, <2>2, <2>3, <2>4 DEF IndexInv
<1> QED
  BY <1>1, <1>2, <1>3, <1>4, <1>5, <1>6 DEF Resubscribe

(* subscribe, unsubscribe and the callback change both indexes alike.     *)
LEMMA IndexApply ==
  ASSUME IndexInv, NEW w \in Worker, Apply(w)
  PROVE  IndexInv'
<1>1. CASE AddSubscriptions(w)
  <2>1. TypeOK'
    <3> DEFINE new == asked[w] \ connSubs[conn[w]]
               first == {t \in new : topicSubs[t] = {} /\ t \notin active}
    <3>1. new \in SUBSET Topic /\ first \in SUBSET Topic /\ conn[w] \in Conn
      BY <1>1 DEF IndexInv, TypeOK, Busy, AddSubscriptions
    <3>2. active' \in SUBSET Topic /\ topicSubs' \in [Topic -> SUBSET Conn]
      BY <1>1, <3>1 DEF IndexInv, TypeOK, AddSubscriptions
    <3>3. connSubs' \in [Conn -> SUBSET Topic]
      BY <1>1, <3>1 DEF IndexInv, TypeOK, AddSubscriptions
    <3>4. ThenTell(w, first) /\ ApplyFrame
      BY <1>1 DEF AddSubscriptions
    <3> HIDE DEF new, first
    <3> QED
      BY <3>1, <3>2, <3>3, <3>4, ThenTellType DEF IndexInv, TypeOK, ApplyFrame
  <2>2. Busy'
    BY <1>1 DEF IndexInv, TypeOK, Busy, AddSubscriptions, ThenTell, ApplyFrame
  <2>3. Mirror'
    BY <1>1, TopicBusAssumption DEF IndexInv, TypeOK, Busy, Mirror, AddSubscriptions, ThenTell, ApplyFrame
  <2>4. ClosedGone'
    BY <1>1 DEF IndexInv, TypeOK, Busy, ClosedGone, AddSubscriptions, ThenTell, ApplyFrame
  <2> QED
    BY <2>1, <2>2, <2>3, <2>4 DEF IndexInv
<1>2. CASE RemoveSubscriptions(w)
  <2>1. TypeOK'
    BY <1>2, DropType DEF IndexInv, TypeOK, Busy, RemoveSubscriptions
  <2>2. Busy'
    BY <1>2 DEF IndexInv, TypeOK, Busy, RemoveSubscriptions, Drop, ThenTell, ApplyFrame
  <2>3. Mirror'
    BY <1>2, TopicBusAssumption DEF IndexInv, TypeOK, Busy, Mirror, RemoveSubscriptions, Drop, ThenTell, ApplyFrame
  <2>4. ClosedGone'
    BY <1>2 DEF IndexInv, TypeOK, Busy, ClosedGone, RemoveSubscriptions, Drop, ThenTell, ApplyFrame
  <2> QED
    BY <2>1, <2>2, <2>3, <2>4 DEF IndexInv
<1>3. CASE RemoveConnAll(w)
  <2>1. TypeOK'
    BY <1>3, DropType DEF IndexInv, TypeOK, Busy, RemoveConnAll
  <2>2. Busy'
    BY <1>3 DEF IndexInv, TypeOK, Busy, RemoveConnAll, Drop, ThenTell, ApplyFrame
  <2>3. Mirror'
    BY <1>3, TopicBusAssumption DEF IndexInv, TypeOK, Busy, Mirror, RemoveConnAll, Drop, ThenTell, ApplyFrame
  <2>4. ClosedGone'
    BY <1>3 DEF IndexInv, TypeOK, Busy, ClosedGone, RemoveConnAll, Drop, ThenTell, ApplyFrame
  <2> QED
    BY <2>1, <2>2, <2>3, <2>4 DEF IndexInv
<1>4. CASE HandleOther(w)
  <2>1. TypeOK'
    BY <1>4, TopicBusAssumption DEF IndexInv, TypeOK, Busy, HandleOther, ApplyFrame
  <2>2. Busy'
    BY <1>4 DEF IndexInv, TypeOK, Busy, HandleOther, ApplyFrame
  <2>3. Mirror'
    BY <1>4, TopicBusAssumption DEF IndexInv, TypeOK, Busy, Mirror, HandleOther, ApplyFrame
  <2>4. ClosedGone'
    BY <1>4 DEF IndexInv, TypeOK, Busy, ClosedGone, HandleOther, ApplyFrame
  <2> QED
    BY <2>1, <2>2, <2>3, <2>4 DEF IndexInv
<1> QED
  BY <1>1, <1>2, <1>3, <1>4 DEF Apply

(* Telling the parent about a request changes neither index.              *)
LEMMA IndexTell ==
  ASSUME IndexInv, NEW w \in Worker, Tell(w)
  PROVE  IndexInv'
<1>1. CASE UpFind(w)
  <2>1. TypeOK'
    BY <1>1, TopicBusAssumption DEF IndexInv, TypeOK, Busy, UpFind
  <2>2. Busy'
    BY <1>1 DEF IndexInv, TypeOK, Busy, UpFind
  <2>3. Mirror'
    BY <1>1, TopicBusAssumption DEF IndexInv, TypeOK, Busy, Mirror, UpFind
  <2>4. ClosedGone'
    BY <1>1 DEF IndexInv, TypeOK, Busy, ClosedGone, UpFind
  <2> QED
    BY <2>1, <2>2, <2>3, <2>4 DEF IndexInv
<1>2. CASE UpSend(w)
  <2>1. TypeOK'
    BY <1>2, TopicBusAssumption DEF IndexInv, TypeOK, Busy, UpSend, Sent
  <2>2. Busy'
    BY <1>2 DEF IndexInv, TypeOK, Busy, UpSend, Sent
  <2>3. Mirror'
    BY <1>2, TopicBusAssumption DEF IndexInv, TypeOK, Busy, Mirror, UpSend, Sent
  <2>4. ClosedGone'
    BY <1>2 DEF IndexInv, TypeOK, Busy, ClosedGone, UpSend, Sent
  <2> QED
    BY <2>1, <2>2, <2>3, <2>4 DEF IndexInv
<1>3. CASE RollbackUpstreamMarks(w)
  <2>1. TypeOK'
    BY <1>3, TopicBusAssumption DEF IndexInv, TypeOK, Busy, RollbackUpstreamMarks
  <2>2. Busy'
    BY <1>3 DEF IndexInv, TypeOK, Busy, RollbackUpstreamMarks
  <2>3. Mirror'
    BY <1>3, TopicBusAssumption DEF IndexInv, TypeOK, Busy, Mirror, RollbackUpstreamMarks
  <2>4. ClosedGone'
    BY <1>3 DEF IndexInv, TypeOK, Busy, ClosedGone, RollbackUpstreamMarks
  <2> QED
    BY <2>1, <2>2, <2>3, <2>4 DEF IndexInv
<1> QED
  BY <1>1, <1>2, <1>3 DEF Tell

(* A frame comes from an open connection, or from the parent.              *)
LEMMA IndexOnReceive ==
  ASSUME IndexInv, NEW w \in Worker, NEW c \in Conn \cup {NoConn},
         NEW k \in {"subscribe", "unsubscribe", "other"}, NEW ts \in SUBSET Topic,
         c = NoConn => k = "other", OnReceive(w, c, k, ts)
  PROVE  IndexInv'
<1>1. TypeOK'
  BY TopicBusAssumption DEF IndexInv, TypeOK, Busy, OnReceive, Begin, Handling
<1>2. Busy'
  BY DEF IndexInv, TypeOK, Busy, OnReceive, Begin, Handling
<1>3. Mirror'
  BY TopicBusAssumption DEF IndexInv, TypeOK, Busy, Mirror, OnReceive, Begin, Handling
<1>4. ClosedGone'
  BY DEF IndexInv, TypeOK, Busy, ClosedGone, OnReceive, Begin, Handling
<1> QED
  BY <1>1, <1>2, <1>3, <1>4 DEF IndexInv

(* A connection closes when none of its frames is being handled.           *)
LEMMA IndexConnClosed ==
  ASSUME IndexInv, NEW w \in Worker, NEW c \in Conn, ConnClosed(w, c)
  PROVE  IndexInv'
<1>1. TypeOK'
  BY TopicBusAssumption DEF IndexInv, TypeOK, Busy, ConnClosed, Begin, Handling
<1>2. Busy'
  BY DEF IndexInv, TypeOK, Busy, ConnClosed, Begin, Handling
<1>3. Mirror'
  BY TopicBusAssumption DEF IndexInv, TypeOK, Busy, Mirror, ConnClosed, Begin, Handling
<1>4. ClosedGone'
  BY DEF IndexInv, TypeOK, Busy, ClosedGone, ConnClosed, Begin, Handling
<1> QED
  BY <1>1, <1>2, <1>3, <1>4 DEF IndexInv

(* Every step preserves the invariant.                                     *)
LEMMA IndexNext == IndexInv /\ [Next]_vars => IndexInv'
<1> SUFFICES ASSUME IndexInv, [Next]_vars PROVE IndexInv'
  OBVIOUS
<1>1. CASE ParentUp \/ ParentNamed \/ ParentDown
  BY <1>1, IndexParent
<1>2. ASSUME NEW w \in Worker, NEW c \in Conn,
             ConnClosed(w, c)
      PROVE  IndexInv'
  BY <1>2, IndexConnClosed
<1>3. ASSUME NEW w \in Worker, NEW c \in Conn,
             NEW k \in {"subscribe", "unsubscribe"}, NEW ts \in SUBSET Topic \ {{}},
             OnReceive(w, c, k, ts)
      PROVE  IndexInv'
  BY <1>3, IndexOnReceive, TopicBusAssumption
<1>4. ASSUME NEW w \in Worker, NEW c \in Conn \cup {NoConn},
             OnReceive(w, c, "other", {})
      PROVE  IndexInv'
  BY <1>4, IndexOnReceive
<1>5. ASSUME NEW w \in Worker, Step(w)
      PROVE  IndexInv'
  BY <1>5, IndexResubscribe, IndexApply, IndexTell DEF Step
<1>6. CASE UNCHANGED vars
  BY <1>6 DEF vars, IndexInv, TypeOK, Busy, Mirror, ClosedGone
<1> QED
  BY <1>1, <1>2, <1>3, <1>4, <1>5, <1>6 DEF Next

(* Every variable of the hub keeps its type, for any number of workers,    *)
(* connections, topics and parents.                                        *)
THEOREM TypeCorrect == Spec => []TypeOK
<1>1. IndexInv => TypeOK
  BY DEF IndexInv
<1> QED
  BY InitIndex, IndexNext, <1>1, PTL DEF Spec

(* h.topicSubs and h.connSubs always say the same, and a closed connection *)
(* is in neither once its callback has run, however requests, callbacks    *)
(* and failures of the parent overlap.                                     *)
THEOREM IndexesCorrect == Spec => []IndexesAgree
<1>1. IndexInv => IndexesAgree
  BY DEF IndexInv, Mirror, ClosedGone, IndexesAgree, Handling
<1> QED
  BY InitIndex, IndexNext, <1>1, PTL DEF Spec

-----------------------------------------------------------------------------
(* The parent is told exactly what is wanted, if frames and events are     *)
(* handled one at a time and a connected parent can be sent to.            *)

OneAtATime == ~SendFails /\ \A v, w \in Worker : v = w

(* Initially there is no parent, and nobody wants anything.                *)
LEMMA InitExact == Init => ExactInv
  BY DEF Init, ExactInv, Wanted, Calm, Resubscribing, Telling, Synced

(* A new parent has not been told anything and is not the one told last.  *)
LEMMA ExactParent ==
  ASSUME OneAtATime, IndexInv, ExactInv, ParentUp \/ ParentNamed \/ ParentDown
  PROVE  ExactInv'
<1>1. CASE ParentUp
  <2>1. (active \subseteq Wanted)'
    BY <1>1 DEF IndexInv, TypeOK, Busy, ExactInv, OneAtATime, Wanted, ParentUp
  <2>2. (parent = 0 => told = {})'
    BY <1>1 DEF IndexInv, TypeOK, Busy, ExactInv, OneAtATime, Wanted, ParentUp
  <2>3. Calm'
    BY <1>1 DEF IndexInv, TypeOK, Busy, ExactInv, OneAtATime, Calm, Stable, Synced, Resubscribing, Telling, Wanted, ParentUp
  <2>4. (\A v \in Worker : Resubscribing(v))'
    BY <1>1 DEF IndexInv, TypeOK, Busy, ExactInv, OneAtATime, Calm, Stable, Synced, Resubscribing, Wanted, ParentUp
  <2>5. (\A v \in Worker : Telling(v))'
    BY <1>1 DEF IndexInv, TypeOK, Busy, ExactInv, OneAtATime, Calm, Stable, Synced, Telling, Wanted, ParentUp
  <2> QED
    BY <2>1, <2>2, <2>3, <2>4, <2>5 DEF ExactInv
<1>2. CASE ParentNamed
  <2>1. (active \subseteq Wanted)'
    BY <1>2 DEF IndexInv, TypeOK, Busy, ExactInv, OneAtATime, Wanted, ParentNamed
  <2>2. (parent = 0 => told = {})'
    BY <1>2 DEF IndexInv, TypeOK, Busy, ExactInv, OneAtATime, Wanted, ParentNamed
  <2>3. Calm'
    BY <1>2 DEF IndexInv, TypeOK, Busy, ExactInv, OneAtATime, Calm, Stable, Synced, Resubscribing, Telling, Wanted, ParentNamed
  <2>4. (\A v \in Worker : Resubscribing(v))'
    BY <1>2 DEF IndexInv, TypeOK, Busy, ExactInv, OneAtATime, Calm, Stable, Synced, Resubscribing, Wanted, ParentNamed
  <2>5. (\A v \in Worker : Telling(v))'
    BY <1>2 DEF IndexInv, TypeOK, Busy, ExactInv, OneAtATime, Calm, Stable, Synced, Telling, Wanted, ParentNamed
  <2> QED
    BY <2>1, <2>2, <2>3, <2>4, <2>5 DEF ExactInv
<1>3. CASE ParentDown
  <2>1. (active \subseteq Wanted)'
    BY <1>3 DEF IndexInv, TypeOK, Busy, ExactInv, OneAtATime, Wanted, ParentDown
  <2>2. (parent = 0 => told = {})'
    BY <1>3 DEF IndexInv, TypeOK, Busy, ExactInv, OneAtATime, Wanted, ParentDown
  <2>3. Calm'
    BY <1>3 DEF IndexInv, TypeOK, Busy, ExactInv, OneAtATime, Calm, Stable, Synced, Resubscribing, Telling, Wanted, ParentDown
  <2>4. (\A v \in Worker : Resubscribing(v))'
    BY <1>3 DEF IndexInv, TypeOK, Busy, ExactInv, OneAtATime, Calm, Stable, Synced, Resubscribing, Wanted, ParentDown
  <2>5. (\A v \in Worker : Telling(v))'
    BY <1>3 DEF IndexInv, TypeOK, Busy, ExactInv, OneAtATime, Calm, Stable, Synced, Telling, Wanted, ParentDown
  <2> QED
    BY <2>1, <2>2, <2>3, <2>4, <2>5 DEF ExactInv
<1> QED
  BY <1>1, <1>2, <1>3

(* Telling a new parent everything.                                       *)
LEMMA ExactResubscribe ==
  ASSUME OneAtATime, IndexInv, ExactInv, NEW w \in Worker, Resubscribe(w)
  PROVE  ExactInv'
<1>1. CASE ResubscribeFind(w)
  <2>1. (active \subseteq Wanted)'
    BY <1>1 DEF IndexInv, TypeOK, Busy, ExactInv, OneAtATime, Wanted, ResubscribeFind, ResubscribeFrame
  <2>2. (parent = 0 => told = {})'
    BY <1>1 DEF IndexInv, TypeOK, Busy, ExactInv, OneAtATime, Wanted, ResubscribeFind, ResubscribeFrame
  <2>3. Calm'
    BY <1>1 DEF IndexInv, TypeOK, Busy, ExactInv, OneAtATime, Calm, Stable, Synced, Resubscribing, Telling, Wanted, ResubscribeFind, ResubscribeFrame
  <2>4. (\A v \in Worker : Resubscribing(v))'
    BY <1>1 DEF IndexInv, TypeOK, Busy, ExactInv, OneAtATime, Calm, Stable, Synced, Resubscribing, Wanted, ResubscribeFind, ResubscribeFrame
  <2>5. (\A v \in Worker : Telling(v))'
    BY <1>1 DEF IndexInv, TypeOK, Busy, ExactInv, OneAtATime, Calm, Stable, Synced, Telling, Wanted, ResubscribeFind, ResubscribeFrame
  <2> QED
    BY <2>1, <2>2, <2>3, <2>4, <2>5 DEF ExactInv
<1>2. CASE ResubscribeClear(w)
  <2>1. (active \subseteq Wanted)'
    BY <1>2 DEF IndexInv, TypeOK, Busy, ExactInv, OneAtATime, Wanted, ResubscribeClear, ResubscribeFrame
  <2>2. (parent = 0 => told = {})'
    BY <1>2 DEF IndexInv, TypeOK, Busy, ExactInv, OneAtATime, Wanted, ResubscribeClear, ResubscribeFrame
  <2>3. Calm'
    BY <1>2 DEF IndexInv, TypeOK, Busy, ExactInv, OneAtATime, Calm, Stable, Synced, Resubscribing, Telling, Wanted, ResubscribeClear, ResubscribeFrame
  <2>4. (\A v \in Worker : Resubscribing(v))'
    BY <1>2 DEF IndexInv, TypeOK, Busy, ExactInv, OneAtATime, Calm, Stable, Synced, Resubscribing, Wanted, ResubscribeClear, ResubscribeFrame
  <2>5. (\A v \in Worker : Telling(v))'
    BY <1>2 DEF IndexInv, TypeOK, Busy, ExactInv, OneAtATime, Calm, Stable, Synced, Telling, Wanted, ResubscribeClear, ResubscribeFrame
  <2> QED
    BY <2>1, <2>2, <2>3, <2>4, <2>5 DEF ExactInv
<1>3. CASE ResubscribeCompare(w)
  <2>1. (active \subseteq Wanted)'
    BY <1>3 DEF IndexInv, TypeOK, Busy, ExactInv, OneAtATime, Wanted, ResubscribeCompare, ResubscribeFrame
  <2>2. (parent = 0 => told = {})'
    BY <1>3 DEF IndexInv, TypeOK, Busy, ExactInv, OneAtATime, Wanted, ResubscribeCompare, ResubscribeFrame
  <2>3. Calm'
    BY <1>3 DEF IndexInv, TypeOK, Busy, ExactInv, OneAtATime, Calm, Stable, Synced, Resubscribing, Telling, Wanted, ResubscribeCompare, ResubscribeFrame
  <2>4. (\A v \in Worker : Resubscribing(v))'
    BY <1>3 DEF IndexInv, TypeOK, Busy, ExactInv, OneAtATime, Calm, Stable, Synced, Resubscribing, Wanted, ResubscribeCompare, ResubscribeFrame
  <2>5. (\A v \in Worker : Telling(v))'
    BY <1>3 DEF IndexInv, TypeOK, Busy, ExactInv, OneAtATime, Calm, Stable, Synced, Telling, Wanted, ResubscribeCompare, ResubscribeFrame
  <2> QED
    BY <2>1, <2>2, <2>3, <2>4, <2>5 DEF ExactInv
<1>4. CASE ResubscribeGather(w)
  <2>1. (active \subseteq Wanted)'
    BY <1>4 DEF IndexInv, TypeOK, Busy, ExactInv, OneAtATime, ResubscribeGather, Wanted, ResubscribeFrame
  <2>2. (parent = 0 => told = {})'
    BY <1>4 DEF IndexInv, TypeOK, Busy, ExactInv, OneAtATime, ResubscribeGather, Wanted, ResubscribeFrame
  <2>3. Calm'
    BY <1>4 DEF IndexInv, TypeOK, Busy, ExactInv, OneAtATime, Calm, Stable, Synced, Resubscribing, Telling, ResubscribeGather, Wanted, ResubscribeFrame
  <2>4. (\A v \in Worker : Resubscribing(v))'
    BY <1>4 DEF IndexInv, TypeOK, Busy, ExactInv, OneAtATime, Calm, Stable, Synced, Resubscribing, ResubscribeGather, Wanted, ResubscribeFrame
  <2>5. (\A v \in Worker : Telling(v))'
    BY <1>4 DEF IndexInv, TypeOK, Busy, ExactInv, OneAtATime, Calm, Stable, Synced, Telling, ResubscribeGather, Wanted, ResubscribeFrame
  <2> QED
    BY <2>1, <2>2, <2>3, <2>4, <2>5 DEF ExactInv
<1>5. CASE ResubscribeSend(w)
  <2>1. (active \subseteq Wanted)'
    BY <1>5 DEF IndexInv, TypeOK, Busy, ExactInv, OneAtATime, Resubscribing, Wanted, ResubscribeSend, Sent, MayFail, ResubscribeFrame
  <2>2. (parent = 0 => told = {})'
    BY <1>5 DEF IndexInv, TypeOK, Busy, ExactInv, OneAtATime, Resubscribing, Wanted, ResubscribeSend, Sent, MayFail, ResubscribeFrame
  <2>3. Calm'
    BY <1>5 DEF IndexInv, TypeOK, Busy, ExactInv, OneAtATime, Calm, Stable, Synced, Resubscribing, Telling, Resubscribing, Wanted, ResubscribeSend, Sent, MayFail, ResubscribeFrame
  <2>4. (\A v \in Worker : Resubscribing(v))'
    BY <1>5 DEF IndexInv, TypeOK, Busy, ExactInv, OneAtATime, Calm, Stable, Synced, Resubscribing, Resubscribing, Wanted, ResubscribeSend, Sent, MayFail, ResubscribeFrame
  <2>5. (\A v \in Worker : Telling(v))'
    BY <1>5 DEF IndexInv, TypeOK, Busy, ExactInv, OneAtATime, Calm, Stable, Synced, Telling, Resubscribing, Wanted, ResubscribeSend, Sent, MayFail, ResubscribeFrame
  <2> QED
    BY <2>1, <2>2, <2>3, <2>4, <2>5 DEF ExactInv
<1>6. CASE ResubscribeNote(w)
  <2>1. (active \subseteq Wanted)'
    BY <1>6 DEF IndexInv, TypeOK, Busy, ExactInv, OneAtATime, Resubscribing, Wanted, ResubscribeNote, ResubscribeFrame
  <2>2. (parent = 0 => told = {})'
    BY <1>6 DEF IndexInv, TypeOK, Busy, ExactInv, OneAtATime, Resubscribing, Wanted, ResubscribeNote, ResubscribeFrame
  <2>3. Calm'
    BY <1>6 DEF IndexInv, TypeOK, Busy, ExactInv, OneAtATime, Calm, Stable, Synced, Resubscribing, Telling, Resubscribing, Wanted, ResubscribeNote, ResubscribeFrame
  <2>4. (\A v \in Worker : Resubscribing(v))'
    BY <1>6 DEF IndexInv, TypeOK, Busy, ExactInv, OneAtATime, Calm, Stable, Synced, Resubscribing, Resubscribing, Wanted, ResubscribeNote, ResubscribeFrame
  <2>5. (\A v \in Worker : Telling(v))'
    BY <1>6 DEF IndexInv, TypeOK, Busy, ExactInv, OneAtATime, Calm, Stable, Synced, Telling, Resubscribing, Wanted, ResubscribeNote, ResubscribeFrame
  <2> QED
    BY <2>1, <2>2, <2>3, <2>4, <2>5 DEF ExactInv
<1> QED
  BY <1>1, <1>2, <1>3, <1>4, <1>5, <1>6 DEF Resubscribe

(* A new subscription: what is wanted for the first time is left to tell.  *)
LEMMA ExactAdd ==
  ASSUME OneAtATime, IndexInv, ExactInv, NEW w \in Worker, AddSubscriptions(w)
  PROVE  ExactInv'
<1> DEFINE new == asked[w] \ connSubs[conn[w]]
           first == {t \in new : topicSubs[t] = {} /\ t \notin active}
<1>1. pc[w] = "apply" /\ kind[w] = "subscribe" /\ new \in SUBSET Topic /\ conn[w] \in Conn
  BY DEF IndexInv, TypeOK, Busy, AddSubscriptions
<1>2. active' = active \cup first /\ ThenTell(w, first)
      /\ UNCHANGED <<seenParent, parent, told, lives>>
  BY DEF AddSubscriptions, ApplyFrame
<1>3. Wanted' = Wanted \cup new
  <2>1. topicSubs' = [t \in Topic |-> IF t \in new THEN topicSubs[t] \cup {conn[w]}
                                     ELSE topicSubs[t]]
    BY DEF AddSubscriptions
  <2> QED
    BY <1>1, <2>1 DEF Wanted, IndexInv, TypeOK
<1>4. /\ active \subseteq Wanted /\ told \subseteq active
      /\ Synced => active = Wanted /\ told = Wanted
      /\ parent = 0 => told = {}
  BY <1>1 DEF OneAtATime, ExactInv, Calm, Stable
<1>5. /\ first \subseteq new /\ first \cap Wanted = {} /\ first \cap active = {}
      /\ active = Wanted => new \subseteq Wanted \cup first
  BY <1>1 DEF Wanted
<1>6. \A v \in Worker : v = w
  BY DEF OneAtATime
<1>7. Synced' <=> Synced
  BY <1>2 DEF Synced
<1>8. pc \in [Worker -> Place] /\ kind \in [Worker -> Kind] /\ need \in [Worker -> SUBSET Topic]
  BY DEF IndexInv, TypeOK
<1> HIDE DEF new, first
<1>9. CASE first = {}
  <2>1. pc'[w] = "idle"
    BY <1>2, <1>8, <1>9 DEF ThenTell
  <2> QED
    BY <1>2, <1>3, <1>4, <1>5, <1>6, <1>7, <1>9, <2>1
    DEF ExactInv, Calm, Stable, Resubscribing, Telling
<1>10. CASE first # {}
  <2>1. pc'[w] = "up" /\ kind'[w] = "subscribe" /\ need'[w] = first
    BY <1>1, <1>2, <1>8, <1>10 DEF ThenTell
  <2> QED
    BY <1>2, <1>3, <1>4, <1>5, <1>6, <1>7, <2>1
    DEF ExactInv, Calm, Stable, Resubscribing, Telling
<1> QED
  BY <1>9, <1>10

(* A connection drops topics: what nobody wants any more is left to tell.  *)
LEMMA ExactDrop ==
  ASSUME OneAtATime, IndexInv, ExactInv, NEW w \in Worker, NEW topics \in SUBSET Topic,
         pc[w] = "apply", kind[w] # "subscribe", conn[w] \in Conn,
         Drop(w, conn[w], topics), ApplyFrame
  PROVE  ExactInv'
<1> DEFINE gone == topics \cap connSubs[conn[w]]
           last == {t \in gone : topicSubs[t] = {conn[w]} /\ t \in active}
           lost == {t \in gone : topicSubs[t] = {conn[w]}}
<1>1. active' = active \ last /\ ThenTell(w, last)
      /\ UNCHANGED <<seenParent, parent, told, lives>>
  BY DEF Drop, ApplyFrame
<1>2. Wanted' = Wanted \ lost
  <2>1. topicSubs' = [t \in Topic |-> IF t \in gone THEN topicSubs[t] \ {conn[w]}
                                     ELSE topicSubs[t]]
    BY DEF Drop
  <2>2. \A t \in gone : t \in Topic /\ conn[w] \in topicSubs[t]
    BY DEF IndexInv, Mirror
  <2> QED
    BY <2>1, <2>2 DEF Wanted
<1>3. /\ active \subseteq Wanted /\ told \subseteq active
      /\ Synced => active = Wanted /\ told = Wanted
      /\ parent = 0 => told = {}
  BY DEF OneAtATime, ExactInv, Calm, Stable
<1>4. last = lost \cap active /\ lost \subseteq Wanted
  BY DEF Wanted
<1>5. \A v \in Worker : v = w
  BY DEF OneAtATime
<1>6. Synced' <=> Synced
  BY <1>1 DEF Synced
<1>7. pc \in [Worker -> Place] /\ kind \in [Worker -> Kind] /\ need \in [Worker -> SUBSET Topic]
  BY DEF IndexInv, TypeOK
<1> HIDE DEF gone, last, lost
<1>8. CASE last = {}
  <2>1. pc'[w] = "idle"
    BY <1>1, <1>7, <1>8 DEF ThenTell
  <2> QED
    BY <1>1, <1>2, <1>3, <1>4, <1>5, <1>6, <1>8, <2>1
    DEF ExactInv, Calm, Stable, Resubscribing, Telling
<1>9. CASE last # {}
  <2>1. pc'[w] = "up" /\ kind'[w] = kind[w] /\ need'[w] = last
    BY <1>1, <1>7, <1>9 DEF ThenTell
  <2> QED
    BY <1>1, <1>2, <1>3, <1>4, <1>5, <1>6, <2>1
    DEF ExactInv, Calm, Stable, Resubscribing, Telling
<1> QED
  BY <1>8, <1>9

(* The request itself.                                                     *)
LEMMA ExactApply ==
  ASSUME OneAtATime, IndexInv, ExactInv, NEW w \in Worker, Apply(w)
  PROVE  ExactInv'
<1>1. CASE AddSubscriptions(w)
  BY <1>1, ExactAdd
<1>2. CASE RemoveSubscriptions(w)
  BY <1>2, ExactDrop DEF IndexInv, TypeOK, Busy, RemoveSubscriptions
<1>3. CASE RemoveConnAll(w)
  BY <1>3, ExactDrop DEF IndexInv, TypeOK, Busy, RemoveConnAll
<1>4. CASE HandleOther(w)
  <2>1. (active \subseteq Wanted)'
    BY <1>4 DEF IndexInv, TypeOK, Busy, ExactInv, OneAtATime, Wanted, HandleOther, ApplyFrame
  <2>2. (parent = 0 => told = {})'
    BY <1>4 DEF IndexInv, TypeOK, Busy, ExactInv, OneAtATime, Wanted, HandleOther, ApplyFrame
  <2>3. Calm'
    BY <1>4 DEF IndexInv, TypeOK, Busy, ExactInv, OneAtATime, Calm, Stable, Synced, Resubscribing, Telling, Wanted, HandleOther, ApplyFrame
  <2>4. (\A v \in Worker : Resubscribing(v))'
    BY <1>4 DEF IndexInv, TypeOK, Busy, ExactInv, OneAtATime, Calm, Stable, Synced, Resubscribing, Wanted, HandleOther, ApplyFrame
  <2>5. (\A v \in Worker : Telling(v))'
    BY <1>4 DEF IndexInv, TypeOK, Busy, ExactInv, OneAtATime, Calm, Stable, Synced, Telling, Wanted, HandleOther, ApplyFrame
  <2> QED
    BY <2>1, <2>2, <2>3, <2>4, <2>5 DEF ExactInv
<1> QED
  BY <1>1, <1>2, <1>3, <1>4 DEF Apply

(* Telling the parent.                                                    *)
LEMMA ExactTell ==
  ASSUME OneAtATime, IndexInv, ExactInv, NEW w \in Worker, Tell(w)
  PROVE  ExactInv'
<1>1. CASE UpFind(w)
  <2>1. (active \subseteq Wanted)'
    BY <1>1 DEF IndexInv, TypeOK, Busy, ExactInv, OneAtATime, Wanted, UpFind
  <2>2. (parent = 0 => told = {})'
    BY <1>1 DEF IndexInv, TypeOK, Busy, ExactInv, OneAtATime, Wanted, UpFind
  <2>3. Calm'
    BY <1>1 DEF IndexInv, TypeOK, Busy, ExactInv, OneAtATime, Calm, Stable, Synced, Resubscribing, Telling, Wanted, UpFind
  <2>4. (\A v \in Worker : Resubscribing(v))'
    BY <1>1 DEF IndexInv, TypeOK, Busy, ExactInv, OneAtATime, Calm, Stable, Synced, Resubscribing, Wanted, UpFind
  <2>5. (\A v \in Worker : Telling(v))'
    BY <1>1 DEF IndexInv, TypeOK, Busy, ExactInv, OneAtATime, Calm, Stable, Synced, Telling, Wanted, UpFind
  <2> QED
    BY <2>1, <2>2, <2>3, <2>4, <2>5 DEF ExactInv
<1>2. CASE UpSend(w)
  <2>1. (active \subseteq Wanted)'
    BY <1>2 DEF IndexInv, TypeOK, Busy, ExactInv, OneAtATime, Telling, Wanted, UpSend, Sent, MayFail
  <2>2. (parent = 0 => told = {})'
    BY <1>2 DEF IndexInv, TypeOK, Busy, ExactInv, OneAtATime, Telling, Wanted, UpSend, Sent, MayFail
  <2>3. Calm'
    BY <1>2 DEF IndexInv, TypeOK, Busy, ExactInv, OneAtATime, Calm, Stable, Synced, Resubscribing, Telling, Telling, Wanted, UpSend, Sent, MayFail
  <2>4. (\A v \in Worker : Resubscribing(v))'
    BY <1>2 DEF IndexInv, TypeOK, Busy, ExactInv, OneAtATime, Calm, Stable, Synced, Resubscribing, Telling, Wanted, UpSend, Sent, MayFail
  <2>5. (\A v \in Worker : Telling(v))'
    BY <1>2 DEF IndexInv, TypeOK, Busy, ExactInv, OneAtATime, Calm, Stable, Synced, Telling, Telling, Wanted, UpSend, Sent, MayFail
  <2> QED
    BY <2>1, <2>2, <2>3, <2>4, <2>5 DEF ExactInv
<1>3. CASE RollbackUpstreamMarks(w)
  <2>1. (active \subseteq Wanted)'
    BY <1>3 DEF IndexInv, TypeOK, Busy, ExactInv, OneAtATime, Wanted, RollbackUpstreamMarks
  <2>2. (parent = 0 => told = {})'
    BY <1>3 DEF IndexInv, TypeOK, Busy, ExactInv, OneAtATime, Wanted, RollbackUpstreamMarks
  <2>3. Calm'
    BY <1>3 DEF IndexInv, TypeOK, Busy, ExactInv, OneAtATime, Calm, Stable, Synced, Resubscribing, Telling, Wanted, RollbackUpstreamMarks
  <2>4. (\A v \in Worker : Resubscribing(v))'
    BY <1>3 DEF IndexInv, TypeOK, Busy, ExactInv, OneAtATime, Calm, Stable, Synced, Resubscribing, Wanted, RollbackUpstreamMarks
  <2>5. (\A v \in Worker : Telling(v))'
    BY <1>3 DEF IndexInv, TypeOK, Busy, ExactInv, OneAtATime, Calm, Stable, Synced, Telling, Wanted, RollbackUpstreamMarks
  <2> QED
    BY <2>1, <2>2, <2>3, <2>4, <2>5 DEF ExactInv
<1> QED
  BY <1>1, <1>2, <1>3 DEF Tell

(* A worker takes a frame or an event.                                     *)
LEMMA ExactBegin ==
  ASSUME OneAtATime, IndexInv, ExactInv, NEW w \in Worker, NEW c, NEW k, NEW ts,
         NEW there \in {"find", "apply"}, Begin(w, k, c, ts, there)
  PROVE  ExactInv'
<1>1. (active \subseteq Wanted)'
  BY DEF IndexInv, TypeOK, Busy, ExactInv, OneAtATime, Wanted, Begin
<1>2. (parent = 0 => told = {})'
  BY DEF IndexInv, TypeOK, Busy, ExactInv, OneAtATime, Wanted, Begin
<1>3. Calm'
  BY DEF IndexInv, TypeOK, Busy, ExactInv, OneAtATime, Calm, Stable, Synced, Resubscribing, Telling, Wanted, Begin
<1>4. (\A v \in Worker : Resubscribing(v))'
  BY DEF IndexInv, TypeOK, Busy, ExactInv, OneAtATime, Calm, Stable, Synced, Resubscribing, Wanted, Begin
<1>5. (\A v \in Worker : Telling(v))'
  BY DEF IndexInv, TypeOK, Busy, ExactInv, OneAtATime, Calm, Stable, Synced, Telling, Wanted, Begin
<1> QED
  BY <1>1, <1>2, <1>3, <1>4, <1>5 DEF ExactInv

(* Every step of a hub that handles one frame at a time.                   *)
LEMMA ExactNext ==
  ASSUME OneAtATime, IndexInv, ExactInv, [Next]_vars
  PROVE  ExactInv'
<1>1. CASE ParentUp \/ ParentNamed \/ ParentDown
  BY <1>1, ExactParent
<1>2. ASSUME NEW w \in Worker, NEW c \in Conn, ConnClosed(w, c)
      PROVE  ExactInv'
  BY <1>2, ExactBegin DEF ConnClosed
<1>3. ASSUME NEW w \in Worker, NEW c \in Conn \cup {NoConn}, NEW k, NEW ts,
             OnReceive(w, c, k, ts)
      PROVE  ExactInv'
  BY <1>3, ExactBegin DEF OnReceive
<1>4. ASSUME NEW w \in Worker, Step(w)
      PROVE  ExactInv'
  BY <1>4, ExactResubscribe, ExactApply, ExactTell DEF Step
<1>5. CASE UNCHANGED vars
  BY <1>5 DEF vars, ExactInv, Wanted, Calm, Synced, Resubscribing, Telling
<1> QED
  BY <1>1, <1>2, <1>3, <1>4, <1>5 DEF Next

(* A hub that handles frames and events one at a time, with a parent that  *)
(* can be sent to while it is connected, has told the parent it has seen   *)
(* exactly the topics that are wanted, whenever nothing is under way:      *)
(* whatever connections come to want or close, however often the parent    *)
(* changes and wherever in a request it does.                              *)
THEOREM ExactWhenSerial ==
  ASSUME OneAtATime
  PROVE  Spec => []TellsParentExactly
<1>1. IndexInv /\ ExactInv /\ [Next]_vars => (IndexInv /\ ExactInv)'
  BY OneAtATime, IndexNext, ExactNext
<1>2. IndexInv /\ ExactInv => TellsParentExactly
  BY DEF ExactInv, Calm, Stable, Synced, Settled, TellsParentExactly
<1> QED
  BY InitIndex, InitExact, <1>1, <1>2, PTL DEF Spec

=============================================================================
